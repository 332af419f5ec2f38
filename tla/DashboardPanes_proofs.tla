------------------------ MODULE DashboardPanes_proofs ------------------------
(***************************************************************************)
(* Proofs about the pane tree and the keys that act on it, for every set   *)
(* of stored layouts, pane types, categories, characters and typed         *)
(* numbers, whatever the bounds.                                           *)
(*                                                                         *)
(* The first part is about trees: what joining, cutting, grafting and      *)
(* relabelling do to a set of paths closed under prefixes.  The order of   *)
(* the leaves and the leaf below a node need an induction on a finite set, *)
(* done with a minimal or maximal counterexample (WellFoundedInduction,    *)
(* FiniteSetTheorems).  The second part is the inductive invariant PaneInv *)
(* and, on top of it, one more invariant for the singleton panes and one   *)
(* for what is stored.  The last part is about the rectangles of the       *)
(* panes: sums, shares and extents are recursive functions, of which it is *)
(* first shown that something meets their recursion.                       *)
(***************************************************************************)
EXTENDS DashboardPanes, SequenceTheorems, FiniteSetTheorems, WellFoundedInduction, TLAPS

-----------------------------------------------------------------------------
(***************************************************************************)
(* Paths                                                                   *)
(***************************************************************************)
Side == {1, 2}
Paths == Seq(Side)

LEMMA PathConcat ==
    ASSUME NEW p \in Paths, NEW q \in Paths
    PROVE  /\ p \o q \in Paths
           /\ Len(p \o q) = Len(p) + Len(q)
           /\ Len(p) \in Nat /\ Len(q) \in Nat
           /\ \A i \in 1..Len(p) : (p \o q)[i] = p[i]
           /\ \A i \in 1..Len(q) : (p \o q)[Len(p) + i] = q[i]
<1>1. Len(p) \in Nat /\ Len(q) \in Nat
    BY LenProperties DEF Paths
<1>2. /\ p \o q \in Paths
      /\ Len(p \o q) = Len(p) + Len(q)
      /\ \A i \in 1..Len(p) + Len(q) :
            (p \o q)[i] = IF i <= Len(p) THEN p[i] ELSE q[i - Len(p)]
    BY ConcatProperties DEF Paths
<1>3. ASSUME NEW i \in 1..Len(p) PROVE (p \o q)[i] = p[i]
    BY <1>1, <1>2
<1>4. ASSUME NEW i \in 1..Len(q) PROVE (p \o q)[Len(p) + i] = q[i]
    <2>1. Len(p) + i \in 1..Len(p) + Len(q) /\ ~ (Len(p) + i <= Len(p)) /\ Len(p) + i - Len(p) = i
        BY <1>1
    <2> QED
        BY <1>2, <2>1
<1> QED
    BY <1>1, <1>2, <1>3, <1>4

LEMMA PathAlgebra ==
    ASSUME NEW p \in Paths, NEW q \in Paths, NEW r \in Paths
    PROVE  /\ p \o Root = p /\ Root \o p = p /\ Root \in Paths
           /\ (p \o q) \o r = p \o (q \o r)
           /\ p \o q = p \o r => q = r
           /\ p \o q = p => q = Root
<1>1. p \o Root = p /\ Root \o p = p /\ Root \in Paths
    BY ConcatEmptySeq, EmptySeq DEF Root, Paths
<1>2. (p \o q) \o r = p \o (q \o r)
    BY ConcatAssociative DEF Paths
<1>3. p \o q = p \o r => q = r
    BY ConcatSimplifications DEF Paths
<1>4. p \o q = p => q = Root
    BY ConcatSimplifications DEF Paths, Root
<1> QED
    BY <1>1, <1>2, <1>3, <1>4

LEMMA OneStep ==
    ASSUME NEW x \in Side
    PROVE  <<x>> \in Paths /\ Len(<<x>>) = 1 /\ <<x>>[1] = x /\ <<x>> # Root
BY DEF Paths, Root

LEMMA LastStep ==
    ASSUME NEW q \in Paths, NEW x \in Side
    PROVE  /\ q \o <<x>> \in Paths /\ q \o <<x>> # Root
           /\ Front(q \o <<x>>) = q /\ Last(q \o <<x>>) = x
           /\ Len(q \o <<x>>) = Len(q) + 1 /\ Len(q) \in Nat
<1>1. /\ q \o <<x>> \in Paths /\ Len(q \o <<x>>) = Len(q) + 1 /\ Len(q) \in Nat
      /\ \A i \in 1..Len(q) : (q \o <<x>>)[i] = q[i]
      /\ (q \o <<x>>)[Len(q) + 1] = x
    BY OneStep, PathConcat
<1>2. q \o <<x>> # Root
    <2>1. Len(Root) = 0
        BY DEF Root
    <2> QED
        BY <1>1, <2>1
<1>3. Last(q \o <<x>>) = x
    BY <1>1 DEF Last
<1>4. Front(q \o <<x>>) = q
    <2> DEFINE f == SubSeq(q \o <<x>>, 1, Len(q))
    <2>1. \A i \in 1..Len(q) : (q \o <<x>>)[i] \in Side
        BY <1>1, ElementOfSeq DEF Paths
    <2>2. f \in Paths /\ Len(f) = Len(q) /\ \A i \in 1..Len(q) : f[i] = (q \o <<x>>)[i]
        BY <1>1, <2>1, SubSeqProperties DEF Paths
    <2>3. f = q
        BY <1>1, <2>2, SeqEqual DEF Paths
    <2> QED
        BY <1>1, <2>3 DEF Front
<1> QED
    BY <1>1, <1>2, <1>3, <1>4

LEMMA FirstStep ==
    ASSUME NEW q \in Paths, NEW x \in Side
    PROVE  /\ <<x>> \o q \in Paths /\ <<x>> \o q # Root
           /\ (<<x>> \o q)[1] = x /\ Tail(<<x>> \o q) = q
<1>1. /\ <<x>> \o q \in Paths /\ Len(<<x>> \o q) = 1 + Len(q) /\ Len(q) \in Nat
      /\ (<<x>> \o q)[1] = x
      /\ \A i \in 1..Len(q) : (<<x>> \o q)[1 + i] = q[i]
    BY OneStep, PathConcat
<1>2. <<x>> \o q # Root
    <2>1. Len(Root) = 0
        BY DEF Root
    <2>2. 1 + Len(q) # 0
        BY <1>1
    <2> QED
        BY <1>1, <2>1, <2>2
<1>3. Tail(<<x>> \o q) = q
    <2> DEFINE s == <<x>> \o q
    <2>1. Tail(s) \in Paths /\ Len(Tail(s)) = Len(s) - 1 /\ \A i \in 1..Len(Tail(s)) : Tail(s)[i] = s[i + 1]
        BY <1>1, <1>2, HeadTailProperties DEF Paths, Root
    <2>2. Len(Tail(s)) = Len(q) /\ \A i \in 1..Len(q) : Tail(s)[i] = q[i]
        BY <1>1, <2>1
    <2> QED
        BY <2>1, <2>2, SeqEqual DEF Paths
<1> QED
    BY <1>1, <1>2, <1>3

LEMMA Steps ==
    ASSUME NEW p \in Paths, p # Root
    PROVE  /\ \E q \in Paths, x \in Side : p = q \o <<x>>
           /\ \E q \in Paths, x \in Side : p = <<x>> \o q
<1>1. \E q \in Paths, x \in Side : p = q \o <<x>>
    <2>1. PICK q \in Paths, x \in Side : p = Append(q, x)
        BY SequenceEmptyOrAppend DEF Paths, Root
    <2>2. p = q \o <<x>>
        BY <2>1, AppendIsConcat DEF Paths
    <2> QED
        BY <2>2
<1>2. \E q \in Paths, x \in Side : p = <<x>> \o q
    <2>1. /\ Head(p) \in Side /\ Tail(p) \in Paths /\ Len(Tail(p)) = Len(p) - 1
          /\ \A i \in 1..Len(Tail(p)) : Tail(p)[i] = p[i + 1]
        BY HeadTailProperties DEF Paths, Root
    <2>2. Len(p) \in Nat \ {0} /\ p[1] = Head(p)
        BY EmptySeq DEF Paths, Root
    <2>3. PICK h \in Side : h = Head(p)
        BY <2>1
    <2>4. PICK t \in Paths : t = Tail(p)
        BY <2>1
    <2>5. /\ <<h>> \o t \in Paths /\ Len(<<h>> \o t) = 1 + Len(t)
          /\ \A i \in 1..1 : (<<h>> \o t)[i] = <<h>>[i]
          /\ \A i \in 1..Len(t) : (<<h>> \o t)[1 + i] = t[i]
        BY OneStep, PathConcat
    <2>6. ASSUME NEW i \in 1..Len(p) PROVE (<<h>> \o t)[i] = p[i]
        <3>1. CASE i = 1
            BY <2>2, <2>3, <2>5, <3>1
        <3>2. CASE i # 1
            <4>1. i - 1 \in 1..Len(t) /\ 1 + (i - 1) = i
                BY <2>1, <2>2, <2>4, <3>2
            <4>2. t[i - 1] = p[i]
                BY <2>1, <2>4, <4>1
            <4> QED
                BY <2>5, <4>1, <4>2
        <3> QED
            BY <3>1, <3>2
    <2>7. Len(<<h>> \o t) = Len(p)
        BY <2>1, <2>2, <2>4, <2>5
    <2>8. p = <<h>> \o t
        BY <2>5, <2>6, <2>7, SeqEqual DEF Paths
    <2> QED
        BY <2>8
<1> QED
    BY <1>1, <1>2

LEMMA StepInto ==
    ASSUME NEW p \in Paths, NEW q \in Paths, NEW x \in Side
    PROVE  /\ p \o (q \o <<x>>) = (p \o q) \o <<x>> /\ q \o <<x>> \in Paths /\ p \o q \in Paths
           /\ p \o (<<x>> \o q) = (p \o <<x>>) \o q /\ <<x>> \o q \in Paths /\ p \o <<x>> \in Paths
<1>1. PICK s \in Paths : s = <<x>>
    BY OneStep
<1>2. /\ p \o (q \o s) = (p \o q) \o s /\ q \o s \in Paths /\ p \o q \in Paths
      /\ p \o (s \o q) = (p \o s) \o q /\ s \o q \in Paths /\ p \o s \in Paths
    <2>1. p \o (q \o s) = (p \o q) \o s
        BY ConcatAssociative DEF Paths
    <2>2. p \o (s \o q) = (p \o s) \o q
        BY ConcatAssociative DEF Paths
    <2>3. q \o s \in Paths /\ p \o q \in Paths /\ s \o q \in Paths /\ p \o s \in Paths
        BY PathConcat
    <2> QED
        BY <2>1, <2>2, <2>3
<1> QED
    BY <1>1, <1>2

\* A prefix leaves a rest, which SubSeq cuts off.
LEMMA PrefixIs ==
    ASSUME NEW p \in Paths, NEW s \in Paths
    PROVE  IsPrefix(p, s) <=> \E r \in Paths : s = p \o r
<1>1. ASSUME NEW r \in Paths, s = p \o r PROVE IsPrefix(p, s)
    <2>1. Len(s) = Len(p) + Len(r) /\ Len(p) \in Nat /\ Len(r) \in Nat
          /\ \A i \in 1..Len(p) : s[i] = p[i]
        BY <1>1, PathConcat
    <2>2. \A i \in 1..Len(p) : s[i] \in Side /\ p[i] \in Side
        BY <2>1, ElementOfSeq DEF Paths
    <2>3. /\ SubSeq(p, 1, Len(p)) \in Paths /\ Len(SubSeq(p, 1, Len(p))) = Len(p)
          /\ \A i \in 1..Len(p) : SubSeq(p, 1, Len(p))[i] = p[i]
        BY <2>1, <2>2, SubSeqProperties DEF Paths
    <2>4. /\ SubSeq(s, 1, Len(p)) \in Paths /\ Len(SubSeq(s, 1, Len(p))) = Len(p)
          /\ \A i \in 1..Len(p) : SubSeq(s, 1, Len(p))[i] = s[i]
        BY <2>1, <2>2, SubSeqProperties DEF Paths
    <2>5. SubSeq(p, 1, Len(p)) = SubSeq(s, 1, Len(p))
        BY <2>1, <2>3, <2>4, SeqEqual DEF Paths
    <2> QED
        BY <2>1, <2>5 DEF IsPrefix
<1>2. ASSUME IsPrefix(p, s) PROVE \E r \in Paths : s = p \o r
    <2>1. Len(p) <= Len(s) /\ SubSeq(p, 1, Len(p)) = SubSeq(s, 1, Len(p))
          /\ Len(p) \in Nat /\ Len(s) \in Nat
        BY <1>2, LenProperties DEF IsPrefix, Paths
    <2>2. SubSeq(p, 1, Len(p)) = p
        BY SubSeqFull DEF Paths
    <2>3. SubSeq(s, 1, Len(p)) \o SubSeq(s, Len(p) + 1, Len(s)) = SubSeq(s, 1, Len(s))
        <3>1. Len(p) \in (1 - 1)..Len(s) /\ Len(s) \in Len(p)..Len(s) /\ 1 \in 1..Len(s) + 1
            BY <2>1
        <3> QED
            BY <3>1, ConcatAdjacentSubSeq DEF Paths
    <2>4. SubSeq(s, 1, Len(s)) = s
        BY SubSeqFull DEF Paths
    <2>5. SubSeq(s, Len(p) + 1, Len(s)) \in Paths
        <3>1. \A i \in (Len(p) + 1)..Len(s) : s[i] \in Side
            BY <2>1, ElementOfSeq DEF Paths
        <3>2. Len(p) + 1 \in Int /\ Len(s) \in Int
            BY <2>1
        <3> QED
            BY <3>1, <3>2, SubSeqProperties DEF Paths
    <2> QED
        BY <2>1, <2>2, <2>3, <2>4, <2>5
<1> QED
    BY <1>1, <1>2

LEMMA RestIs ==
    ASSUME NEW p \in Paths, NEW r \in Paths
    PROVE  SubSeq(p \o r, Len(p) + 1, Len(p \o r)) = r
<1> DEFINE s == p \o r
           u == SubSeq(s, Len(p) + 1, Len(s))
<1>1. /\ s \in Paths /\ Len(s) = Len(p) + Len(r) /\ Len(p) \in Nat /\ Len(r) \in Nat
      /\ \A i \in 1..Len(r) : s[Len(p) + i] = r[i]
    BY PathConcat
<1>2. \A i \in (Len(p) + 1)..Len(s) : s[i] \in Side
    BY <1>1, ElementOfSeq DEF Paths
<1>3. /\ u \in Paths
      /\ Len(u) = IF Len(p) + 1 <= Len(s) THEN Len(s) - (Len(p) + 1) + 1 ELSE 0
      /\ \A i \in 1..Len(s) - (Len(p) + 1) + 1 : u[i] = s[Len(p) + 1 + i - 1]
    <2>1. Len(p) + 1 \in Int /\ Len(s) \in Int
        BY <1>1
    <2> QED
        BY <1>2, <2>1, SubSeqProperties DEF Paths
<1>4. Len(u) = Len(r)
    BY <1>1, <1>3
<1>5. ASSUME NEW i \in 1..Len(r) PROVE u[i] = r[i]
    <2>1. i \in 1..Len(s) - (Len(p) + 1) + 1 /\ Len(p) + 1 + i - 1 = Len(p) + i
        BY <1>1
    <2> QED
        BY <1>1, <1>3, <2>1
<1> HIDE DEF u
<1>6. u = r
    BY <1>3, <1>4, <1>5, SeqEqual DEF Paths
<1> QED
    BY <1>6 DEF u

-----------------------------------------------------------------------------
(***************************************************************************)
(* Trees                                                                   *)
(***************************************************************************)

\* A node hangs on every split, on both sides, and on nothing else.
Shape(t) ==
    \A q \in Paths, x \in Side : q \o <<x>> \in DOMAIN t <=> q \in DOMAIN t /\ t[q].split

LEMMA TreeIs ==
    ASSUME NEW t
    PROVE  IsTree(t) <=>
              /\ IsFiniteSet(DOMAIN t) /\ DOMAIN t \subseteq Paths
              /\ t \in [DOMAIN t -> PaneNode]
              /\ Root \in DOMAIN t
              /\ Shape(t)
<1>1. ASSUME IsTree(t) PROVE Shape(t)
    <2> SUFFICES ASSUME NEW q \in Paths, NEW x \in Side
                 PROVE  q \o <<x>> \in DOMAIN t <=> q \in DOMAIN t /\ t[q].split
        BY DEF Shape
    <2>1. ASSUME q \o <<x>> \in DOMAIN t PROVE q \in DOMAIN t /\ t[q].split
        <3>1. q \o <<x>> # Root /\ Front(q \o <<x>>) = q
            BY LastStep
        <3> QED
            BY <1>1, <2>1, <3>1 DEF IsTree
    <2>2. ASSUME q \in DOMAIN t, t[q].split PROVE q \o <<x>> \in DOMAIN t
        <3>1. q \o <<1>> \in DOMAIN t /\ q \o <<2>> \in DOMAIN t
            BY <1>1, <2>2 DEF IsTree
        <3> QED
            BY <3>1 DEF Side
    <2> QED
        BY <2>1, <2>2
<1>2. ASSUME DOMAIN t \subseteq Paths, Shape(t), NEW p \in DOMAIN t \ {Root}
      PROVE  Front(p) \in DOMAIN t /\ t[Front(p)].split
    <2>1. PICK q \in Paths, x \in Side : p = q \o <<x>>
        BY <1>2, Steps
    <2>2. Front(p) = q
        BY <2>1, LastStep
    <2> QED
        BY <1>2, <2>1, <2>2 DEF Shape
<1>3. ASSUME DOMAIN t \subseteq Paths, Shape(t), NEW p \in DOMAIN t, t[p].split
      PROVE  {p \o <<1>>, p \o <<2>>} \subseteq DOMAIN t
    <2>1. p \in Paths /\ 1 \in Side /\ 2 \in Side
        BY <1>3 DEF Side
    <2> QED
        BY <1>3, <2>1 DEF Shape
<1> QED
    BY <1>1, <1>2, <1>3 DEF IsTree, Paths, Side

LEMMA HasLeast ==
    ASSUME NEW S \in SUBSET Nat, S # {}
    PROVE  \E m \in S : \A e \in S : m <= e
<1>1. PICK m \in S : \A e \in S : ~ (<<e, m>> \in OpToRel(<, Nat))
    BY NatLessThanWellFounded, WFMin
<1>2. \A e \in S : ~ (e < m)
    BY <1>1 DEF OpToRel
<1> QED
    BY <1>2

\* Above a node there are only splits.
LEMMA AboveIsSplit ==
    ASSUME NEW t, IsTree(t), NEW p \in Paths, NEW r \in Paths, p \o r \in DOMAIN t
    PROVE  p \in DOMAIN t /\ (r # Root => t[p].split)
<1>1. Shape(t)
    BY TreeIs
<1>2. ASSUME NEW a \in Paths, NEW b \in Paths, a \o b \in DOMAIN t PROVE a \in DOMAIN t
    <2> SUFFICES ASSUME a \notin DOMAIN t PROVE FALSE
        OBVIOUS
    <2> DEFINE S == {Len(u) : u \in {v \in Paths : a \o v \in DOMAIN t}}
    <2>1. S \in SUBSET Nat /\ S # {}
        <3>1. \A v \in Paths : Len(v) \in Nat
            BY LenProperties DEF Paths
        <3> QED
            BY <1>2, <3>1
    <2>2. PICK m \in S : \A e \in S : m <= e
        <3> HIDE DEF S
        <3> QED
            BY <2>1, HasLeast
    <2>3. PICK u \in Paths : a \o u \in DOMAIN t /\ m = Len(u)
        BY <2>2
    <2>4. u # Root
        <3>1. a \o Root = a
            BY PathAlgebra
        <3> QED
            BY <2>3, <3>1
    <2>5. PICK w \in Paths, x \in Side : u = w \o <<x>>
        BY <2>4, Steps
    <2>6. a \o u = (a \o w) \o <<x>> /\ a \o w \in Paths
        <3> HIDE DEF S
        <3>1. a \o (w \o <<x>>) = (a \o w) \o <<x>> /\ a \o w \in Paths
            BY StepInto
        <3> QED
            BY <2>5, <3>1
    <2>7. a \o w \in DOMAIN t
        BY <1>1, <2>3, <2>6 DEF Shape
    <2>8. Len(w) \in S /\ Len(u) = Len(w) + 1 /\ Len(w) \in Nat
        BY <2>5, <2>7, LastStep
    <2> QED
        BY <2>2, <2>3, <2>8
<1>3. ASSUME r # Root PROVE t[p].split
    <2>1. PICK x \in Side, q \in Paths : r = <<x>> \o q
        BY <1>3, Steps
    <2>2. p \o r = (p \o <<x>>) \o q /\ p \o <<x>> \in Paths
        BY <2>1, StepInto
    <2>3. p \o <<x>> \in DOMAIN t
        BY <1>2, <2>2
    <2> QED
        BY <1>1, <2>3 DEF Shape
<1> QED
    BY <1>2, <1>3

\* Nothing hangs below a leaf.
LEMMA LeafEnds ==
    ASSUME NEW t, IsTree(t), NEW p \in Leaves(t), NEW r \in Paths, p \o r \in DOMAIN t
    PROVE  r = Root
<1>1. p \in Paths /\ ~ t[p].split
    BY TreeIs DEF Leaves
<1> QED
    BY <1>1, AboveIsSplit

\* Below every node, or at it, there is a leaf: take a node with as few as possible
\* below it.
LEMMA LeafBelow ==
    ASSUME NEW t, IsTree(t), NEW p \in DOMAIN t
    PROVE  \E r \in Paths : p \o r \in Leaves(t)
<1>1. IsFiniteSet(DOMAIN t) /\ DOMAIN t \subseteq Paths /\ Shape(t)
    BY TreeIs
<1> DEFINE Below(q) == {s \in DOMAIN t : \E r \in Paths : s = q \o r}
           S == {Cardinality(Below(q)) : q \in Below(p)}
<1>2. \A q : IsFiniteSet(Below(q)) /\ Cardinality(Below(q)) \in Nat
    <2> SUFFICES ASSUME NEW q PROVE IsFiniteSet(Below(q)) /\ Cardinality(Below(q)) \in Nat
        OBVIOUS
    <2>1. Below(q) \in SUBSET DOMAIN t
        OBVIOUS
    <2> HIDE DEF Below
    <2> QED
        BY <1>1, <2>1, FS_Subset, FS_CardinalityType
<1>3. p \in Below(p)
    BY <1>1, PathAlgebra
<1>4. PICK m \in S : \A e \in S : m <= e
    <2>1. S \in SUBSET Nat /\ S # {}
        BY <1>2, <1>3
    <2> HIDE DEF S
    <2> QED
        BY <2>1, HasLeast
<1>5. PICK q \in Below(p) : m = Cardinality(Below(q))
    OBVIOUS
<1>6. ASSUME t[q].split PROVE FALSE
    <2> DEFINE c == q \o <<1>>
    <2>1. q \in DOMAIN t /\ q \in Paths /\ 1 \in Side
        BY <1>1 DEF Side
    <2>2. c \in DOMAIN t /\ c \in Paths /\ <<1>> \in Paths /\ <<1>> # Root
        BY <1>1, <1>6, <2>1, OneStep, LastStep DEF Shape
    <2>3. PICK r \in Paths : q = p \o r
        OBVIOUS
    <2>4. c = p \o (r \o <<1>>) /\ r \o <<1>> \in Paths
        <3>1. p \in Paths
            BY <1>1
        <3> QED
            BY <2>1, <2>3, <3>1, StepInto
    <2>5. c \in Below(p)
        BY <2>2, <2>4
    <2>6. Below(c) \subseteq Below(q)
        <3> SUFFICES ASSUME NEW u \in Paths, c \o u \in DOMAIN t
                     PROVE  \E v \in Paths : c \o u = q \o v
            OBVIOUS
        <3>1. c \o u = q \o (<<1>> \o u) /\ <<1>> \o u \in Paths
            BY <2>1, StepInto
        <3> QED
            BY <3>1
    <2>7. q \in Below(q) /\ q \notin Below(c)
        <3>1. q \in Below(q)
            BY <2>1, PathAlgebra
        <3>2. ASSUME NEW u \in Paths, q = c \o u PROVE FALSE
            <4>1. q = q \o (<<1>> \o u) /\ <<1>> \o u \in Paths /\ <<1>> \o u # Root
                BY <2>1, <2>2, <3>2, PathAlgebra, FirstStep
            <4> QED
                BY <2>1, <4>1, PathAlgebra
        <3> QED
            BY <3>1, <3>2
    <2>8. Cardinality(Below(c)) <= Cardinality(Below(q))
          /\ Cardinality(Below(c)) # Cardinality(Below(q))
        <3>1. Below(c) \in SUBSET Below(q) /\ Below(c) # Below(q)
            BY <2>6, <2>7
        <3> HIDE DEF Below
        <3> QED
            BY <1>2, <3>1, FS_Subset
    <2>9. m <= Cardinality(Below(c))
        <3>1. Cardinality(Below(c)) \in S
            BY <2>5
        <3> HIDE DEF Below, S
        <3> QED
            BY <1>4, <3>1
    <2> HIDE DEF Below
    <2> QED
        BY <1>2, <1>5, <2>8, <2>9
<1>7. q \in Leaves(t)
    BY <1>6 DEF Leaves
<1> QED
    BY <1>7

-----------------------------------------------------------------------------
(***************************************************************************)
(* Building and cutting trees                                              *)
(***************************************************************************)
Directions == {"Vertical", "Horizontal"}

LEMMA NodesAre ==
    /\ NewConfig \in PaneConfig
    /\ \A c \in PaneConfig : LeafNode(c) \in PaneNode
    /\ \A d \in Directions : SplitNode(d) \in PaneNode
<1>1. NewConfig \in PaneConfig
    <2>1. "Blank" \in ToSet(PaneTypes) \cup TopRowTypes /\ "Sets" \in ToSet(Categories)
        BY PaneAssumption
    <2>2. 1 \in Nat \ {0} /\ "" \in Characters \cup {""}
        OBVIOUS
    <2> QED
        BY <2>1, <2>2 DEF NewConfig, PaneConfig
<1> QED
    BY <1>1 DEF LeafNode, SplitNode, PaneNode, Directions

LEMMA SingleIs ==
    ASSUME NEW c \in PaneConfig
    PROVE  /\ IsTree(Single(c))
           /\ DOMAIN Single(c) = {Root} /\ Single(c)[Root] = LeafNode(c)
           /\ Leaves(Single(c)) = {Root}
<1> DEFINE t == Single(c)
<1>1. DOMAIN t = {Root} /\ t[Root] = LeafNode(c) /\ ~ t[Root].split
    BY DEF Single, LeafNode
<1>2. t \in [DOMAIN t -> PaneNode]
    BY <1>1, NodesAre DEF Single
<1>3. IsFiniteSet(DOMAIN t) /\ DOMAIN t \subseteq Paths
    <2>1. IsFiniteSet({Root})
        BY FS_Singleton
    <2>2. Root \in Paths
        BY EmptySeq DEF Root, Paths
    <2> HIDE DEF t
    <2> QED
        BY <1>1, <2>1, <2>2
<1>4. Shape(t)
    BY <1>1, LastStep DEF Shape
<1> HIDE DEF t
<1>5. IsTree(t)
    BY <1>1, <1>2, <1>3, <1>4, TreeIs
<1>6. Leaves(t) = {Root}
    BY <1>1 DEF Leaves
<1> QED
    BY <1>1, <1>5, <1>6 DEF t

LEMMA FiniteImage ==
    ASSUME NEW S, IsFiniteSet(S), NEW T, NEW f \in [S -> T], \A y \in T : \E x \in S : y = f[x]
    PROVE  IsFiniteSet(T)
<1>1. f \in Surjection(S, T)
    BY DEF Surjection
<1> QED
    BY <1>1, FS_Surjection

\* The nodes of a tree, below a path.
LEMMA FiniteUnder ==
    ASSUME NEW t, IsTree(t), NEW p
    PROVE  IsFiniteSet({p \o q : q \in DOMAIN t})
<1> DEFINE T == {p \o q : q \in DOMAIN t}
           f == [q \in DOMAIN t |-> p \o q]
<1>1. IsFiniteSet(DOMAIN t)
    BY TreeIs
<1>2. f \in [DOMAIN t -> T] /\ \A y \in T : \E x \in DOMAIN t : y = f[x]
    OBVIOUS
<1> HIDE DEF T, f
<1>3. IsFiniteSet(T)
    BY <1>1, <1>2, FiniteImage
<1> QED
    BY <1>3 DEF T

LEMMA JoinIs ==
    ASSUME NEW dir \in Directions, NEW a, IsTree(a), NEW b, IsTree(b)
    PROVE  LET j == Join(dir, a, b)
           IN  /\ IsTree(j)
               /\ Root \in DOMAIN j /\ j[Root] = SplitNode(dir)
               /\ \A q \in Paths : /\ <<1>> \o q \in DOMAIN j <=> q \in DOMAIN a
                                   /\ <<2>> \o q \in DOMAIN j <=> q \in DOMAIN b
               /\ \A q \in DOMAIN a : j[<<1>> \o q] = a[q]
               /\ \A q \in DOMAIN b : j[<<2>> \o q] = b[q]
<1> DEFINE j == Join(dir, a, b)
           D == {Root} \cup {<<1>> \o q : q \in DOMAIN a} \cup {<<2>> \o q : q \in DOMAIN b}
<1>1. /\ DOMAIN a \subseteq Paths /\ a \in [DOMAIN a -> PaneNode] /\ Shape(a) /\ Root \in DOMAIN a
      /\ DOMAIN b \subseteq Paths /\ b \in [DOMAIN b -> PaneNode] /\ Shape(b) /\ Root \in DOMAIN b
    BY TreeIs
<1>2. 1 \in Side /\ 2 \in Side /\ \A x \in Side : x = 1 \/ x = 2
    BY DEF Side
<1>3. DOMAIN j = D
    BY DEF Join
<1>4. \A q \in Paths : /\ <<1>> \o q \in Paths /\ <<1>> \o q # Root
                       /\ (<<1>> \o q)[1] = 1 /\ Tail(<<1>> \o q) = q
                       /\ <<2>> \o q \in Paths /\ <<2>> \o q # Root
                       /\ (<<2>> \o q)[1] = 2 /\ Tail(<<2>> \o q) = q
    BY <1>2, FirstStep
<1>5. Root \in DOMAIN j /\ j[Root] = SplitNode(dir)
    BY <1>3 DEF Join
<1>6. ASSUME NEW q \in Paths
      PROVE  /\ <<1>> \o q \in DOMAIN j <=> q \in DOMAIN a
             /\ <<2>> \o q \in DOMAIN j <=> q \in DOMAIN b
    <2>1. <<1>> \o q \in D => q \in DOMAIN a
        <3>1. \A r \in DOMAIN a : <<1>> \o q = <<1>> \o r => q = r
            BY <1>1, <1>4
        <3>2. \A r \in DOMAIN b : <<1>> \o q # <<2>> \o r
            BY <1>1, <1>4
        <3> QED
            BY <1>4, <3>1, <3>2
    <2>2. <<2>> \o q \in D => q \in DOMAIN b
        <3>1. \A r \in DOMAIN b : <<2>> \o q = <<2>> \o r => q = r
            BY <1>1, <1>4
        <3>2. \A r \in DOMAIN a : <<2>> \o q # <<1>> \o r
            BY <1>1, <1>4
        <3> QED
            BY <1>4, <3>1, <3>2
    <2> QED
        BY <1>3, <2>1, <2>2
<1>7. ASSUME NEW q \in DOMAIN a PROVE j[<<1>> \o q] = a[q]
    <2>1. <<1>> \o q \in D /\ q \in Paths
        BY <1>1
    <2> QED
        BY <1>4, <2>1 DEF Join
<1>8. ASSUME NEW q \in DOMAIN b PROVE j[<<2>> \o q] = b[q]
    <2>1. <<2>> \o q \in D /\ q \in Paths
        BY <1>1
    <2>2. <<2>> \o q # Root /\ (<<2>> \o q)[1] # 1 /\ Tail(<<2>> \o q) = q
        BY <1>4, <2>1
    <2> QED
        BY <2>1, <2>2 DEF Join
<1>9. DOMAIN j \subseteq Paths /\ IsFiniteSet(DOMAIN j)
    <2>1. DOMAIN j \subseteq Paths
        BY <1>1, <1>3, <1>4, EmptySeq DEF Root, Paths
    <2>2. IsFiniteSet({Root})
        BY FS_Singleton
    <2>3. IsFiniteSet({<<1>> \o q : q \in DOMAIN a}) /\ IsFiniteSet({<<2>> \o q : q \in DOMAIN b})
        BY FiniteUnder
    <2> QED
        BY <1>3, <2>1, <2>2, <2>3, FS_Union
<1>10. \A p \in DOMAIN j : p = Root \/ (\E q \in DOMAIN a : p = <<1>> \o q) \/ (\E q \in DOMAIN b : p = <<2>> \o q)
    BY <1>3
<1>11. j \in [DOMAIN j -> PaneNode]
    <2>1. \A p \in DOMAIN j : j[p] \in PaneNode
        BY <1>1, <1>5, <1>7, <1>8, <1>10, NodesAre
    <2>2. j = [p \in DOMAIN j |-> j[p]]
        BY DEF Join
    <2> HIDE DEF j
    <2> QED
        BY <2>1, <2>2
<1> HIDE DEF j, D
<1>12. Shape(j)
    <2> SUFFICES ASSUME NEW q \in Paths, NEW x \in Side
                 PROVE  q \o <<x>> \in DOMAIN j <=> q \in DOMAIN j /\ j[q].split
        BY DEF Shape
    <2>1. CASE q = Root
        <3>1. q \o <<x>> = <<x>> \o Root /\ Root \in Paths
            BY <2>1, OneStep, PathAlgebra
        <3>2. j[Root].split
            BY <1>5 DEF SplitNode
        <3> QED
            BY <1>1, <1>2, <1>5, <1>6, <2>1, <3>1, <3>2
    <2>2. CASE \E r \in Paths : q = <<1>> \o r
        <3>0. <<1>> \in Paths
            BY <1>2, OneStep
        <3>3. PICK r \in Paths : q = <<1>> \o r
            BY <2>2
        <3>1. <<1>> \o (r \o <<x>>) = (<<1>> \o r) \o <<x>> /\ r \o <<x>> \in Paths
            BY <3>0, StepInto
        <3>2. r \o <<x>> \in DOMAIN a <=> r \in DOMAIN a /\ a[r].split
            BY <1>1 DEF Shape
        <3> QED
            BY <1>6, <1>7, <3>1, <3>2, <3>3
    <2>3. CASE \E r \in Paths : q = <<2>> \o r
        <3>0. <<2>> \in Paths
            BY <1>2, OneStep
        <3>3. PICK r \in Paths : q = <<2>> \o r
            BY <2>3
        <3>1. <<2>> \o (r \o <<x>>) = (<<2>> \o r) \o <<x>> /\ r \o <<x>> \in Paths
            BY <3>0, StepInto
        <3>2. r \o <<x>> \in DOMAIN b <=> r \in DOMAIN b /\ b[r].split
            BY <1>1 DEF Shape
        <3> QED
            BY <1>6, <1>8, <3>1, <3>2, <3>3
    <2> QED
        BY <1>2, <2>1, <2>2, <2>3, Steps
<1>13. IsTree(j)
    BY <1>5, <1>9, <1>11, <1>12, TreeIs
<1> QED
    BY <1>5, <1>6, <1>7, <1>8, <1>13 DEF j

LEMMA SubtreeIs ==
    ASSUME NEW t, IsTree(t), NEW p \in DOMAIN t
    PROVE  /\ IsTree(SubtreeAt(t, p))
           /\ \A r \in Paths : r \in DOMAIN SubtreeAt(t, p) <=> p \o r \in DOMAIN t
           /\ \A r \in DOMAIN SubtreeAt(t, p) : SubtreeAt(t, p)[r] = t[p \o r]
<1> DEFINE s == SubtreeAt(t, p)
           B == {r \in DOMAIN t : IsPrefix(p, r)}
           D == {SubSeq(r, Len(p) + 1, Len(r)) : r \in B}
<1>1. IsFiniteSet(DOMAIN t) /\ DOMAIN t \subseteq Paths /\ t \in [DOMAIN t -> PaneNode] /\ Shape(t)
    BY TreeIs
<1>2. p \in Paths
    BY <1>1
<1>3. DOMAIN s = D
    BY DEF SubtreeAt
<1>4. ASSUME NEW r \in Paths, p \o r \in DOMAIN t PROVE r \in D
    <2>1. p \o r \in B /\ SubSeq(p \o r, Len(p) + 1, Len(p \o r)) = r
        BY <1>1, <1>2, <1>4, PrefixIs, RestIs
    <2> QED
        BY <2>1
<1>5. ASSUME NEW q \in D PROVE q \in Paths /\ p \o q \in DOMAIN t
    <2>1. PICK r \in B : q = SubSeq(r, Len(p) + 1, Len(r))
        OBVIOUS
    <2>2. PICK u \in Paths : r = p \o u
        BY <1>1, <1>2, <2>1, PrefixIs
    <2>3. SubSeq(p \o u, Len(p) + 1, Len(p \o u)) = u
        BY <1>2, RestIs
    <2>4. q = u
        BY <2>1, <2>2, <2>3
    <2> QED
        BY <2>2, <2>4
<1>6. \A r \in Paths : r \in DOMAIN s <=> p \o r \in DOMAIN t
    BY <1>3, <1>4, <1>5
<1>7. \A r \in DOMAIN s : s[r] = t[p \o r]
    BY DEF SubtreeAt
<1>8. IsFiniteSet(DOMAIN s)
    <2> DEFINE f == [r \in B |-> SubSeq(r, Len(p) + 1, Len(r))]
    <2>1. B \in SUBSET DOMAIN t
        OBVIOUS
    <2>2. f \in [B -> D] /\ \A y \in D : \E x \in B : y = f[x]
        OBVIOUS
    <2> HIDE DEF B, D, f
    <2>3. IsFiniteSet(B)
        BY <1>1, <2>1, FS_Subset
    <2> QED
        BY <1>3, <2>2, <2>3, FiniteImage
<1>9. DOMAIN s \subseteq Paths /\ \A r \in DOMAIN s : p \o r \in DOMAIN t
    BY <1>3, <1>5
<1>10. s \in [DOMAIN s -> PaneNode]
    <2>1. s = [r \in DOMAIN s |-> s[r]]
        BY DEF SubtreeAt
    <2> HIDE DEF s
    <2> QED
        BY <1>1, <1>7, <1>9, <2>1
<1>11. Root \in DOMAIN s
    <2>1. p \o Root = p /\ Root \in Paths
        BY <1>2, PathAlgebra
    <2> QED
        BY <1>6, <2>1
<1> HIDE DEF s, D, B
<1>12. Shape(s)
    <2> SUFFICES ASSUME NEW q \in Paths, NEW x \in Side
                 PROVE  q \o <<x>> \in DOMAIN s <=> q \in DOMAIN s /\ s[q].split
        BY DEF Shape
    <2>1. p \o (q \o <<x>>) = (p \o q) \o <<x>> /\ q \o <<x>> \in Paths /\ p \o q \in Paths
        BY <1>2, StepInto
    <2>2. (p \o q) \o <<x>> \in DOMAIN t <=> p \o q \in DOMAIN t /\ t[p \o q].split
        BY <1>1, <2>1 DEF Shape
    <2> QED
        BY <1>6, <1>7, <2>1, <2>2
<1>13. IsTree(s)
    BY <1>8, <1>9, <1>10, <1>11, <1>12, TreeIs
<1> QED
    BY <1>6, <1>7, <1>13 DEF s

LEMMA GraftIs ==
    ASSUME NEW t, IsTree(t), NEW p \in DOMAIN t, NEW u, IsTree(u)
    PROVE  /\ IsTree(Graft(t, p, u))
           /\ \A r \in Paths : p \o r \in DOMAIN Graft(t, p, u) <=> r \in DOMAIN u
           /\ \A r \in DOMAIN u : Graft(t, p, u)[p \o r] = u[r]
           /\ \A q \in Paths : ~ IsPrefix(p, q) =>
                 /\ q \in DOMAIN Graft(t, p, u) <=> q \in DOMAIN t
                 /\ q \in DOMAIN t => Graft(t, p, u)[q] = t[q]
<1> DEFINE g == Graft(t, p, u)
           C == {r \in DOMAIN t : ~ IsPrefix(p, r)}
           E == {p \o r : r \in DOMAIN u}
<1>1. /\ IsFiniteSet(DOMAIN t) /\ DOMAIN t \subseteq Paths /\ t \in [DOMAIN t -> PaneNode] /\ Shape(t)
      /\ Root \in DOMAIN t /\ Root \in DOMAIN u
      /\ DOMAIN u \subseteq Paths /\ u \in [DOMAIN u -> PaneNode] /\ Shape(u)
    BY TreeIs
<1>2. p \in Paths
    BY <1>1
<1>3. DOMAIN g = C \cup E
    BY DEF Graft
<1>4. \A r \in Paths : p \o r \in Paths /\ IsPrefix(p, p \o r)
                       /\ SubSeq(p \o r, Len(p) + 1, Len(p \o r)) = r
    <2> SUFFICES ASSUME NEW r \in Paths
                 PROVE  p \o r \in Paths /\ IsPrefix(p, p \o r)
                        /\ SubSeq(p \o r, Len(p) + 1, Len(p \o r)) = r
        OBVIOUS
    <2>1. p \o r \in Paths
        BY <1>2, PathConcat
    <2> QED
        BY <1>2, <2>1, PrefixIs, RestIs
<1>5. ASSUME NEW r \in Paths PROVE p \o r \in DOMAIN g <=> r \in DOMAIN u
    <2>1. ASSUME p \o r \in E PROVE r \in DOMAIN u
        <3>1. PICK v \in DOMAIN u : p \o r = p \o v
            BY <2>1
        <3>2. v \in Paths
            BY <1>1
        <3>3. r = v
            BY <1>2, <3>1, <3>2, ConcatSimplifications DEF Paths
        <3> QED
            BY <3>1, <3>3
    <2>2. p \o r \notin C
        BY <1>4
    <2> QED
        BY <1>3, <2>1, <2>2
<1>6. ASSUME NEW r \in DOMAIN u PROVE g[p \o r] = u[r]
    <2>1. r \in Paths /\ p \o r \in E
        BY <1>1
    <2>2. p \o r \in C \cup E /\ IsPrefix(p, p \o r) /\ SubSeq(p \o r, Len(p) + 1, Len(p \o r)) = r
        BY <1>4, <2>1
    <2> QED
        BY <2>2 DEF Graft
<1>7. ASSUME NEW q \in Paths, ~ IsPrefix(p, q)
      PROVE  q \in DOMAIN g <=> q \in DOMAIN t
    <2>1. q \notin E
        BY <1>1, <1>4, <1>7
    <2> QED
        BY <1>3, <1>7, <2>1
<1>8. ASSUME NEW q \in Paths, ~ IsPrefix(p, q), q \in DOMAIN t
      PROVE  g[q] = t[q]
    <2>1. q \in C \cup E
        BY <1>8
    <2> QED
        BY <1>8, <2>1 DEF Graft
<1>9. DOMAIN g \subseteq Paths /\ IsFiniteSet(DOMAIN g)
    <2>1. DOMAIN g \subseteq Paths
        <3>1. C \subseteq Paths
            BY <1>1
        <3>2. E \subseteq Paths
            BY <1>1, <1>4
        <3> HIDE DEF C, E, g
        <3> QED
            BY <1>3, <3>1, <3>2
    <2>2. IsFiniteSet(E)
        BY FiniteUnder
    <2>3. C \in SUBSET DOMAIN t
        OBVIOUS
    <2> HIDE DEF C, E
    <2>4. IsFiniteSet(C)
        BY <1>1, <2>3, FS_Subset
    <2> QED
        BY <1>3, <2>1, <2>2, <2>4, FS_Union
<1>10. \A q \in DOMAIN g : (q \in DOMAIN t /\ ~ IsPrefix(p, q)) \/ \E r \in DOMAIN u : q = p \o r
    BY <1>3
<1>11. g \in [DOMAIN g -> PaneNode]
    <2>1. g = [q \in DOMAIN g |-> g[q]]
        BY DEF Graft
    <2> HIDE DEF g
    <2>2. ASSUME NEW q \in DOMAIN g PROVE g[q] \in PaneNode
        <3>1. CASE q \in DOMAIN t /\ ~ IsPrefix(p, q)
            BY <1>1, <1>8, <3>1
        <3>2. ASSUME NEW r \in DOMAIN u, q = p \o r PROVE g[q] \in PaneNode
            BY <1>1, <1>6, <3>2
        <3> QED
            BY <1>10, <3>1, <3>2
    <2> QED
        BY <2>1, <2>2
<1> HIDE DEF g, C, E
<1>12. Root \in DOMAIN g
    <2>1. Root \in Paths /\ p \o Root = p
        BY <1>2, PathAlgebra
    <2>2. CASE IsPrefix(p, Root)
        <3>1. PICK r \in Paths : Root = p \o r
            BY <1>2, <2>1, <2>2, PrefixIs
        <3>2. p = Root
            BY <1>2, <3>1, ConcatEqualIffEmpty DEF Root, Paths
        <3> QED
            BY <1>1, <1>5, <2>1, <3>2
    <2>3. CASE ~ IsPrefix(p, Root)
        BY <1>1, <1>7, <2>1, <2>3
    <2> QED
        BY <2>2, <2>3
<1>13. Shape(g)
    <2> SUFFICES ASSUME NEW q \in Paths, NEW x \in Side
                 PROVE  q \o <<x>> \in DOMAIN g <=> q \in DOMAIN g /\ g[q].split
        BY DEF Shape
    <2>1. CASE IsPrefix(p, q)
        <3>1. PICK r \in Paths : q = p \o r
            BY <1>2, <2>1, PrefixIs
        <3>2. p \o (r \o <<x>>) = (p \o r) \o <<x>> /\ r \o <<x>> \in Paths
            BY <1>2, <3>1, StepInto
        <3>3. r \o <<x>> \in DOMAIN u <=> r \in DOMAIN u /\ u[r].split
            BY <1>1, <3>1 DEF Shape
        <3> QED
            BY <1>5, <1>6, <3>1, <3>2, <3>3
    <2>2. CASE ~ IsPrefix(p, q) /\ IsPrefix(p, q \o <<x>>)
        <3>1. q \o <<x>> \in Paths
            BY LastStep
        <3>2. PICK r \in Paths : q \o <<x>> = p \o r
            BY <1>2, <2>2, <3>1, PrefixIs
        <3>3. r = Root
            <4> SUFFICES ASSUME r # Root PROVE FALSE
                OBVIOUS
            <4>1. PICK v \in Paths, y \in Side : r = v \o <<y>>
                BY <3>2, Steps
            <4>2. p \o (v \o <<y>>) = (p \o v) \o <<y>> /\ p \o v \in Paths
                BY <1>2, <4>1, StepInto
            <4>3. Front(q \o <<x>>) = q /\ Front((p \o v) \o <<y>>) = p \o v
                BY <4>1, <4>2, LastStep
            <4>4. q = p \o v
                BY <3>2, <4>1, <4>2, <4>3
            <4> QED
                BY <1>4, <2>2, <4>1, <4>4
        <3>4. p = q \o <<x>> /\ p = p \o Root /\ Root \in Paths
            BY <1>2, <3>2, <3>3, PathAlgebra
        <3>5. q \o <<x>> \in DOMAIN g
            BY <1>1, <1>5, <3>4
        <3>6. q \in DOMAIN t /\ t[q].split
            BY <1>1, <3>4 DEF Shape
        <3> QED
            BY <1>7, <1>8, <2>2, <3>5, <3>6
    <2>3. CASE ~ IsPrefix(p, q) /\ ~ IsPrefix(p, q \o <<x>>)
        <3>1. q \o <<x>> \in Paths
            BY LastStep
        <3>2. q \o <<x>> \in DOMAIN t <=> q \in DOMAIN t /\ t[q].split
            BY <1>1 DEF Shape
        <3> QED
            BY <1>7, <1>8, <2>3, <3>1, <3>2
    <2> QED
        BY <2>1, <2>2, <2>3
<1>14. IsTree(g)
    BY <1>9, <1>11, <1>12, <1>13, TreeIs
<1> QED
    BY <1>5, <1>6, <1>7, <1>8, <1>14 DEF g

\* Changing what nodes show changes no tree.
LEMMA RelabelIs ==
    ASSUME NEW t, IsTree(t), NEW u, DOMAIN u = DOMAIN t, u \in [DOMAIN u -> PaneNode],
           \A p \in DOMAIN t : u[p].split = t[p].split
    PROVE  IsTree(u) /\ Leaves(u) = Leaves(t)
<1>1. IsFiniteSet(DOMAIN t) /\ DOMAIN t \subseteq Paths /\ Root \in DOMAIN t /\ Shape(t)
    BY TreeIs
<1>2. Shape(u)
    BY <1>1 DEF Shape
<1>3. IsTree(u)
    BY <1>1, <1>2, TreeIs
<1> QED
    BY <1>3 DEF Leaves

-----------------------------------------------------------------------------
(***************************************************************************)
(* The list of leaves                                                      *)
(***************************************************************************)
LEMMA BeforeIs ==
    ASSUME NEW p \in Paths, NEW q \in Paths
    PROVE  Before(p, q) <=>
              \E i \in 1..Len(p) : i <= Len(q) /\ p[i] < q[i] /\ \A h \in 1..(i - 1) : p[h] = q[h]
<1>1. /\ Len(p) \in Nat /\ DOMAIN p = 1..Len(p) /\ Len(q) \in Nat /\ DOMAIN q = 1..Len(q)
      /\ \A i \in 1..Len(p) : p[i] \in Side
      /\ \A i \in 1..Len(q) : q[i] \in Side
    BY LenProperties, ElementOfSeq DEF Paths
<1>2. ASSUME NEW i \in 1..Len(p), i <= Len(q)
      PROVE  SubSeq(p, 1, i - 1) = SubSeq(q, 1, i - 1) <=> \A h \in 1..(i - 1) : p[h] = q[h]
    <2> DEFINE a == SubSeq(p, 1, i - 1)
               b == SubSeq(q, 1, i - 1)
    <2>1. i - 1 \in Int /\ i - 1 >= 0 /\ (\A h \in 1..(i - 1) : p[h] \in Side /\ q[h] \in Side)
        BY <1>1, <1>2
    <2>2. a \in Paths /\ Len(a) = i - 1 /\ \A h \in 1..(i - 1) : a[h] = p[h]
        BY <2>1, SubSeqProperties DEF Paths
    <2>3. b \in Paths /\ Len(b) = i - 1 /\ \A h \in 1..(i - 1) : b[h] = q[h]
        BY <2>1, SubSeqProperties DEF Paths
    <2> HIDE DEF a, b
    <2>4. ASSUME \A h \in 1..(i - 1) : p[h] = q[h] PROVE a = b
        BY <2>2, <2>3, <2>4, SeqEqual DEF Paths
    <2>5. ASSUME a = b PROVE \A h \in 1..(i - 1) : p[h] = q[h]
        BY <2>2, <2>3, <2>5
    <2> QED
        BY <2>4, <2>5 DEF a, b
<1>3. \A i \in DOMAIN p \cap DOMAIN q : i \in 1..Len(p) /\ i <= Len(q)
    BY <1>1
<1>4. \A i \in 1..Len(p) : i <= Len(q) => i \in DOMAIN p \cap DOMAIN q
    BY <1>1
<1> QED
    BY <1>2, <1>3, <1>4 DEF Before

LEMMA BeforeIsOrder ==
    ASSUME NEW p \in Paths, NEW q \in Paths, NEW r \in Paths
    PROVE  /\ ~ Before(p, p)
           /\ Before(p, q) /\ Before(q, r) => Before(p, r)
<1>1. \A s \in Paths : Len(s) \in Nat /\ \A i \in 1..Len(s) : s[i] \in 1..2
    <2> SUFFICES ASSUME NEW s \in Paths PROVE Len(s) \in Nat /\ \A i \in 1..Len(s) : s[i] \in Side
        BY DEF Side
    <2> QED
        BY LenProperties, ElementOfSeq DEF Paths
<1>2. ~ Before(p, p)
    BY <1>1, BeforeIs
<1>3. ASSUME Before(p, q), Before(q, r) PROVE Before(p, r)
    <2>1. PICK i \in 1..Len(p) : i <= Len(q) /\ p[i] < q[i] /\ \A h \in 1..(i - 1) : p[h] = q[h]
        BY <1>3, BeforeIs
    <2>2. PICK j \in 1..Len(q) : j <= Len(r) /\ q[j] < r[j] /\ \A h \in 1..(j - 1) : q[h] = r[h]
        BY <1>3, BeforeIs
    <2>3. \E k \in 1..Len(p) : k <= Len(r) /\ p[k] < r[k] /\ \A h \in 1..(k - 1) : p[h] = r[h]
        <3>1. CASE i < j
            <4>1. i <= Len(r) /\ q[i] = r[i] /\ \A h \in 1..(i - 1) : p[h] = q[h] /\ q[h] = r[h]
                BY <1>1, <2>1, <2>2, <3>1
            <4> QED
                BY <2>1, <4>1
        <3>2. CASE i = j
            <4>1. p[i] \in 1..2 /\ q[i] \in 1..2 /\ r[i] \in 1..2
                BY <1>1, <2>1, <2>2, <3>2
            <4> QED
                BY <2>1, <2>2, <3>2, <4>1
        <3>3. CASE j < i
            <4>1. j \in 1..Len(p) /\ p[j] = q[j] /\ \A h \in 1..(j - 1) : p[h] = q[h] /\ q[h] = r[h]
                BY <1>1, <2>1, <2>2, <3>3
            <4> QED
                BY <2>2, <4>1
        <3> QED
            BY <1>1, <3>1, <3>2, <3>3
    <2> QED
        BY <2>3, BeforeIs
<1> QED
    BY <1>2, <1>3

\* One of two leaves comes first.
LEMMA LeavesAreOrdered ==
    ASSUME NEW t, IsTree(t), NEW p \in Leaves(t), NEW q \in Leaves(t), p # q
    PROVE  Before(p, q) \/ Before(q, p)
<1>1. p \in Paths /\ q \in Paths /\ p \in DOMAIN t /\ q \in DOMAIN t
    BY TreeIs DEF Leaves
<1>2. /\ Len(p) \in Nat /\ Len(q) \in Nat
      /\ \A i \in 1..Len(p) : p[i] \in 1..2
      /\ \A i \in 1..Len(q) : q[i] \in 1..2
    <2>1. /\ \A i \in 1..Len(p) : p[i] \in Side
          /\ \A i \in 1..Len(q) : q[i] \in Side
        BY <1>1, ElementOfSeq DEF Paths
    <2> QED
        BY <1>1, <2>1, LenProperties DEF Paths, Side
<1>3. ASSUME NEW a \in Leaves(t), NEW b \in Leaves(t), a # b, Len(a) \in Nat, Len(b) \in Nat, Len(a) <= Len(b)
      PROVE  \E i \in 1..Len(a) : a[i] # b[i]
    <2> SUFFICES ASSUME \A i \in 1..Len(a) : a[i] = b[i] PROVE FALSE
        OBVIOUS
    <2>1. a \in Paths /\ b \in Paths /\ a \in DOMAIN t /\ b \in DOMAIN t
        BY TreeIs DEF Leaves
    <2>2. \A i \in 1..Len(a) : a[i] \in Side /\ b[i] \in Side
        BY <2>1, ElementOfSeq DEF Paths
    <2>3. SubSeq(b, 1, Len(a)) \in Paths /\ Len(SubSeq(b, 1, Len(a))) = Len(a)
          /\ \A i \in 1..Len(a) : SubSeq(b, 1, Len(a))[i] = b[i]
        BY <1>3, <2>2, SubSeqProperties DEF Paths
    <2>4. SubSeq(b, 1, Len(a)) = a
        BY <2>1, <2>3, SeqEqual DEF Paths
    <2>5. SubSeq(a, 1, Len(a)) = a
        BY <2>1, SubSeqFull DEF Paths
    <2>6. IsPrefix(a, b)
        BY <1>3, <2>4, <2>5 DEF IsPrefix
    <2>7. PICK r \in Paths : b = a \o r
        BY <2>1, <2>6, PrefixIs
    <2>8. r = Root
        BY <2>1, <2>7, LeafEnds
    <2> QED
        BY <1>3, <2>1, <2>7, <2>8, PathAlgebra
<1>4. \E i \in 1..Len(p) : i <= Len(q) /\ p[i] # q[i]
    <2>1. CASE Len(p) <= Len(q)
        <3>1. PICK i \in 1..Len(p) : p[i] # q[i]
            BY <1>2, <1>3, <2>1
        <3> QED
            BY <1>2, <2>1, <3>1
    <2>2. CASE Len(q) <= Len(p)
        <3>1. PICK i \in 1..Len(q) : p[i] # q[i]
            BY <1>2, <1>3, <2>2
        <3> QED
            BY <1>2, <2>2, <3>1
    <2> QED
        BY <1>2, <2>1, <2>2
<1> DEFINE S == {i \in 1..Len(p) : i <= Len(q) /\ p[i] # q[i]}
<1>5. PICK i \in S : \A h \in S : i <= h
    <2>1. S \in SUBSET Nat /\ S # {}
        BY <1>2, <1>4
    <2> HIDE DEF S
    <2> QED
        BY <2>1, HasLeast
<1>6. i \in 1..Len(p) /\ i \in 1..Len(q) /\ p[i] # q[i]
    BY <1>2, <1>5
<1>7. \A h \in 1..(i - 1) : p[h] = q[h]
    BY <1>2, <1>5, <1>6
<1>8. p[i] < q[i] \/ q[i] < p[i]
    BY <1>2, <1>6
<1>9. CASE p[i] < q[i]
    BY <1>1, <1>6, <1>7, <1>9, BeforeIs
<1>10. CASE q[i] < p[i]
    BY <1>1, <1>2, <1>6, <1>7, <1>10, BeforeIs
<1> QED
    BY <1>8, <1>9, <1>10

\* Every leaf is listed once: the numbers of leaves before a leaf are different, hence
\* all of 0 .. n - 1.
LEMMA FlattenIs ==
    ASSUME NEW t, IsTree(t)
    PROVE  LET n == Cardinality(Leaves(t))
               l == FlattenLeaves(t)
           IN  /\ n \in Nat \ {0} /\ IsFiniteSet(Leaves(t))
               /\ l \in [1..n -> Leaves(t)] /\ Len(l) = n
               /\ \A i, j \in 1..n : l[i] = l[j] => i = j
<1> DEFINE L == Leaves(t)
           n == Cardinality(L)
           Pred(p) == {q \in L : Before(q, p)}
           rank == [p \in L |-> Cardinality(Pred(p))]
<1>1. L \subseteq Paths /\ IsFiniteSet(L) /\ n \in Nat
    <2>1. L \in SUBSET DOMAIN t /\ L \subseteq Paths /\ IsFiniteSet(DOMAIN t)
        BY TreeIs DEF Leaves
    <2> HIDE DEF L
    <2> QED
        BY <2>1, FS_Subset, FS_CardinalityType
<1>2. n # 0
    <2>1. Root \in DOMAIN t
        BY TreeIs
    <2>2. L # {}
        BY <2>1, LeafBelow
    <2> HIDE DEF L
    <2> QED
        BY <1>1, <2>2, FS_EmptySet
<1>3. \A p \in L : IsFiniteSet(Pred(p)) /\ Cardinality(Pred(p)) \in Nat
    <2> SUFFICES ASSUME NEW p \in L PROVE IsFiniteSet(Pred(p)) /\ Cardinality(Pred(p)) \in Nat
        OBVIOUS
    <2>1. Pred(p) \in SUBSET L
        OBVIOUS
    <2> HIDE DEF L, Pred
    <2> QED
        BY <1>1, <2>1, FS_Subset, FS_CardinalityType
<1>4. \A p \in L : rank[p] = Cardinality(Pred(p))
    OBVIOUS
<1>5. ASSUME NEW p \in L, NEW q \in L, Before(p, q) PROVE rank[p] < rank[q]
    <2>1. p \in Pred(q) /\ p \notin Pred(p)
        BY <1>1, <1>5, BeforeIsOrder
    <2>2. Pred(p) \subseteq Pred(q)
        <3> SUFFICES ASSUME NEW r \in L, Before(r, p) PROVE Before(r, q)
            OBVIOUS
        <3>1. r \in Paths /\ p \in Paths /\ q \in Paths
            BY <1>1
        <3> HIDE DEF L
        <3> QED
            BY <1>5, <3>1, BeforeIsOrder
    <2>3. Pred(p) \in SUBSET Pred(q) /\ Pred(p) # Pred(q)
        BY <2>1, <2>2
    <2>4. IsFiniteSet(Pred(q)) /\ Cardinality(Pred(p)) \in Nat /\ Cardinality(Pred(q)) \in Nat
        BY <1>3
    <2> HIDE DEF Pred
    <2>5. Cardinality(Pred(p)) <= Cardinality(Pred(q)) /\ Cardinality(Pred(p)) # Cardinality(Pred(q))
        BY <2>3, <2>4, FS_Subset
    <2> HIDE DEF rank
    <2> QED
        BY <1>4, <2>4, <2>5
<1>6. \A p \in L : rank[p] \in 0..(n - 1)
    <2> SUFFICES ASSUME NEW p \in L PROVE rank[p] \in 0..(n - 1)
        OBVIOUS
    <2>1. p \notin Pred(p)
        BY <1>1, BeforeIsOrder
    <2>2. Pred(p) \in SUBSET L /\ Pred(p) # L
        BY <2>1
    <2>3. Cardinality(Pred(p)) \in Nat
        BY <1>3
    <2> HIDE DEF L, Pred
    <2>4. Cardinality(Pred(p)) <= n /\ Cardinality(Pred(p)) # n
        BY <1>1, <2>2, FS_Subset
    <2> QED
        BY <1>1, <1>4, <2>3, <2>4
<1>7. \A p, q \in L : rank[p] = rank[q] => p = q
    <2> SUFFICES ASSUME NEW p \in L, NEW q \in L, rank[p] = rank[q], p # q PROVE FALSE
        OBVIOUS
    <2>1. Before(p, q) \/ Before(q, p)
        BY LeavesAreOrdered
    <2>2. rank[p] < rank[q] \/ rank[q] < rank[p]
        BY <1>5, <2>1
    <2>3. rank[p] \in 0..(n - 1) /\ rank[q] \in 0..(n - 1)
        BY <1>6
    <2> HIDE DEF rank, n
    <2> QED
        BY <2>2, <2>3
<1>8. ASSUME NEW i \in 1..n PROVE \E p \in L : Cardinality(Pred(p)) = i - 1
    <2> DEFINE T == 0..(n - 1)
    <2>1. rank \in Injection(L, T)
        <3>1. rank \in [L -> T]
            BY <1>6
        <3> HIDE DEF rank, L, T
        <3> QED
            BY <1>7, <3>1 DEF Injection, IsInjective
    <2>2. IsFiniteSet(T) /\ Cardinality(T) = n
        <3>1. 0 \in Int /\ n - 1 \in Int /\ ~ (0 > n - 1) /\ n - 1 - 0 + 1 = n
            BY <1>1, <1>2
        <3> HIDE DEF n
        <3> QED
            BY <3>1, FS_Interval
    <2> HIDE DEF rank, T, L
    <2>3. rank \in Surjection(L, T)
        BY <2>1, <2>2, FS_Injection
    <2>4. i - 1 \in T
        BY <1>1 DEF T
    <2>5. PICK p \in L : rank[p] = i - 1
        BY <2>3, <2>4 DEF Surjection
    <2> QED
        BY <1>4, <2>5
<1> DEFINE l == FlattenLeaves(t)
<1>9. l = [i \in 1..n |-> CHOOSE p \in L : Cardinality(Pred(p)) = i - 1]
    BY DEF FlattenLeaves
<1>10. \A i \in 1..n : l[i] \in L /\ Cardinality(Pred(l[i])) = i - 1
    <2> SUFFICES ASSUME NEW i \in 1..n PROVE l[i] \in L /\ Cardinality(Pred(l[i])) = i - 1
        OBVIOUS
    <2>1. l[i] = CHOOSE p \in L : Cardinality(Pred(p)) = i - 1
        BY <1>9
    <2> HIDE DEF l, L, Pred, n
    <2> QED
        BY <1>8, <2>1
<1> HIDE DEF l, L, Pred, n, rank
<1>11. l \in [1..n -> L]
    BY <1>9, <1>10
<1>12. Len(l) = n
    <2>1. l \in Seq(L)
        BY <1>1, <1>11, SeqDef
    <2>2. DOMAIN l = 1..Len(l) /\ Len(l) \in Nat /\ DOMAIN l = 1..n
        BY <1>11, <2>1, LenProperties
    <2>3. \A i \in Nat : i \in 1..Len(l) <=> i \in 1..n
        BY <2>2
    <2>4. n \in 1..Len(l)
        BY <1>1, <1>2, <2>3
    <2>5. Len(l) \in 1..n
        BY <1>1, <2>2, <2>3, <2>4
    <2>6. n \in Nat /\ Len(l) \in Nat
        BY <1>1, <2>2
    <2> QED
        BY <2>4, <2>5, <2>6
<1>13. \A i, j \in 1..n : l[i] = l[j] => i = j
    BY <1>1, <1>10
<1> QED
    BY <1>1, <1>2, <1>11, <1>12, <1>13 DEF l, L, n

-----------------------------------------------------------------------------
(***************************************************************************)
(* Changing what panes show                                                *)
(***************************************************************************)
LEMMA ConfigFields ==
    ASSUME NEW c \in PaneConfig
    PROVE  /\ c.type \in ToSet(PaneTypes) \cup TopRowTypes
           /\ c.category \in ToSet(Categories)
           /\ c.sort \in {"Name", "Base", "Owned", "Tier"}
           /\ c.weight \in Nat \ {0}
           /\ c.view \in {"Summary", "Detail"}
           /\ c.character \in Characters \cup {""}
           /\ c.query \in BOOLEAN
BY DEF PaneConfig

LEMMA NodeFields ==
    ASSUME NEW t, IsTree(t), NEW p \in DOMAIN t
    PROVE  /\ t[p].split \in BOOLEAN /\ t[p].dir \in Directions /\ t[p].cfg \in PaneConfig
           /\ t[p] = [split |-> t[p].split, dir |-> t[p].dir, cfg |-> t[p].cfg]
<1>1. t[p] \in PaneNode
    BY TreeIs
<1> QED
    BY <1>1 DEF PaneNode, Directions

\* The remainder that cycles use.
LEMMA ModIs ==
    ASSUME NEW n \in Nat \ {0}, NEW a \in Int
    PROVE  a % n \in 0..(n - 1)
OBVIOUS

LEMMA CycleIs ==
    ASSUME NEW s, Len(s) \in Nat, DOMAIN s = 1..Len(s), ToSet(s) # {}, NEW x, NEW step \in {1, -1}
    PROVE  Cycle(s, x, step) \in ToSet(s)
<1>1. Len(s) \in Nat \ {0}
    BY DEF ToSet
<1> DEFINE i == IF x \in ToSet(s) THEN CHOOSE k \in DOMAIN s : s[k] = x ELSE 1
<1>2. i \in Int
    <2>1. CASE x \in ToSet(s)
        <3>1. \E k \in DOMAIN s : s[k] = x
            BY <2>1 DEF ToSet
        <3>2. i \in DOMAIN s
            BY <2>1, <3>1
        <3> QED
            BY <3>2
    <2>2. CASE x \notin ToSet(s)
        BY <2>2
    <2> QED
        BY <2>1, <2>2
<1> HIDE DEF i
<1>3. (i - 1 + step) % Len(s) \in 0..(Len(s) - 1)
    <2>1. i - 1 + step \in Int
        BY <1>2
    <2> QED
        BY <1>1, <2>1, ModIs
<1>4. ((i - 1 + step) % Len(s)) + 1 \in DOMAIN s
    BY <1>1, <1>3
<1> QED
    BY <1>4 DEF Cycle, ToSet, i

LEMMA CyclesAre ==
    ASSUME NEW c \in PaneConfig, NEW step \in {1, -1}
    PROVE  /\ CyclePaneType(c, step) \in PaneConfig
           /\ CycleCategory(c, step) \in PaneConfig
           /\ CycleSortKey(c, step) \in PaneConfig
           /\ CyclePaneWeight(c, step) \in PaneConfig
<1>1. CyclePaneType(c, step) \in PaneConfig
    <2>1. Cycle(PaneTypes, c.type, step) \in ToSet(PaneTypes)
        BY PaneAssumption, CycleIs
    <2> QED
        BY <2>1 DEF CyclePaneType, PaneConfig
<1>2. CycleCategory(c, step) \in PaneConfig
    <2>1. Cycle(Categories, c.category, step) \in ToSet(Categories)
        BY PaneAssumption, CycleIs
    <2> QED
        BY <2>1 DEF CycleCategory, PaneConfig
<1>3. CycleSortKey(c, step) \in PaneConfig
    <2>1. Cycle(SortKeys(c.category), c.sort, step) \in {"Name", "Base", "Owned", "Tier"}
        <3> DEFINE s == SortKeys(c.category)
        <3>1. Len(s) \in Nat /\ DOMAIN s = 1..Len(s) /\ ToSet(s) # {}
              /\ ToSet(s) \subseteq {"Name", "Base", "Owned", "Tier"}
            <4>1. CASE c.category = "UniquesAll"
                BY <4>1 DEF SortKeys, ToSet
            <4>2. CASE c.category # "UniquesAll"
                BY <4>2 DEF SortKeys, ToSet
            <4> QED
                BY <4>1, <4>2
        <3> HIDE DEF s
        <3>2. Cycle(s, c.sort, step) \in ToSet(s)
            BY <3>1, CycleIs
        <3> QED
            BY <3>1, <3>2 DEF s
    <2> QED
        BY <2>1 DEF CycleSortKey, PaneConfig
<1>4. CyclePaneWeight(c, step) \in PaneConfig
    <2>1. c.weight - 1 + step \in Int
        <3>1. c.weight \in Nat \ {0}
            BY ConfigFields
        <3> QED
            BY <3>1
    <2>2. (c.weight - 1 + step) % 4 \in 0..3
        <3>1. 4 \in Nat \ {0} /\ 4 - 1 = 3
            OBVIOUS
        <3>2. (c.weight - 1 + step) % 4 \in 0..(4 - 1)
            BY <2>1, <3>1, ModIs
        <3> QED
            BY <3>1, <3>2
    <2>3. ((c.weight - 1 + step) % 4) + 1 \in Nat \ {0}
        BY <2>2
    <2> QED
        BY <2>3 DEF CyclePaneWeight, PaneConfig
<1> QED
    BY <1>1, <1>2, <1>3, <1>4

LEMMA SetConfigIs ==
    ASSUME NEW t, IsTree(t), NEW p \in DOMAIN t, NEW c \in PaneConfig
    PROVE  /\ IsTree(SetConfig(t, p, c)) /\ DOMAIN SetConfig(t, p, c) = DOMAIN t
           /\ Leaves(SetConfig(t, p, c)) = Leaves(t)
           /\ SetConfig(t, p, c)[p].cfg = c
           /\ \A q \in DOMAIN t : SetConfig(t, p, c)[q].split = t[q].split
                                  /\ SetConfig(t, p, c)[q].dir = t[q].dir
           /\ \A q \in DOMAIN t \ {p} : SetConfig(t, p, c)[q] = t[q]
<1> DEFINE u == SetConfig(t, p, c)
<1>1. t \in [DOMAIN t -> PaneNode]
    BY TreeIs
<1>2. u = [t EXCEPT ![p] = [t[p] EXCEPT !.cfg = c]]
    BY DEF SetConfig
<1>3. [t[p] EXCEPT !.cfg = c] = [split |-> t[p].split, dir |-> t[p].dir, cfg |-> c]
    BY NodeFields
<1>4. [t[p] EXCEPT !.cfg = c] \in PaneNode
    BY <1>3, NodeFields DEF PaneNode, Directions
<1>5. DOMAIN u = DOMAIN t /\ u \in [DOMAIN t -> PaneNode] /\ u[p].cfg = c
      /\ u[p].split = t[p].split /\ u[p].dir = t[p].dir
    BY <1>1, <1>2, <1>3, <1>4
<1>6. \A q \in DOMAIN t \ {p} : u[q] = t[q]
    BY <1>1, <1>2
<1> HIDE DEF u
<1>7. IsTree(u) /\ Leaves(u) = Leaves(t)
    BY <1>5, <1>6, RelabelIs
<1> QED
    BY <1>5, <1>6, <1>7 DEF u

LEMMA SetLeafWeightIs ==
    ASSUME NEW t, IsTree(t), NEW w \in Nat \ {0}
    PROVE  IsTree(SetLeafWeight(t, w))
<1> DEFINE u == SetLeafWeight(t, w)
<1>1. t \in [DOMAIN t -> PaneNode]
    BY TreeIs
<1>2. u = [p \in DOMAIN t |-> u[p]]
    BY DEF SetLeafWeight
<1>3. ASSUME NEW p \in DOMAIN t PROVE u[p] \in PaneNode /\ u[p].split = t[p].split
    <2>1. u[p] = IF t[p].split THEN t[p] ELSE [t[p] EXCEPT !.cfg.weight = w]
        BY DEF SetLeafWeight
    <2>2. CASE t[p].split
        BY <1>1, <2>1, <2>2
    <2>3. CASE ~ t[p].split
        <3>1. [t[p] EXCEPT !.cfg.weight = w]
                 = [split |-> t[p].split, dir |-> t[p].dir, cfg |-> [t[p].cfg EXCEPT !.weight = w]]
            BY NodeFields
        <3>2. [t[p].cfg EXCEPT !.weight = w] \in PaneConfig
            <4>1. PICK c \in PaneConfig : c = t[p].cfg
                BY NodeFields
            <4>2. [c EXCEPT !.weight = w] \in PaneConfig
                BY DEF PaneConfig
            <4> QED
                BY <4>1, <4>2
        <3>3. [split |-> t[p].split, dir |-> t[p].dir, cfg |-> [t[p].cfg EXCEPT !.weight = w]] \in PaneNode
            BY <3>2, NodeFields DEF PaneNode, Directions
        <3> HIDE DEF u
        <3> QED
            BY <2>1, <2>3, <3>1, <3>3
    <2> QED
        BY <2>2, <2>3
<1> HIDE DEF u
<1>4. DOMAIN u = DOMAIN t /\ u \in [DOMAIN u -> PaneNode]
    BY <1>2, <1>3
<1>5. IsTree(u)
    BY <1>3, <1>4, RelabelIs
<1> QED
    BY <1>5 DEF u

LEMMA BlankPanesIs ==
    ASSUME NEW t, IsTree(t), NEW S
    PROVE  LET u == BlankPanes(t, S)
           IN  /\ IsTree(u) /\ DOMAIN u = DOMAIN t /\ Leaves(u) = Leaves(t)
               /\ \A p \in DOMAIN t : u[p].split = t[p].split
               /\ \A p \in DOMAIN t \ S : u[p] = t[p]
               /\ \A p \in DOMAIN t \cap S : u[p].cfg.type = "Blank"
<1> DEFINE u == BlankPanes(t, S)
<1>1. t \in [DOMAIN t -> PaneNode]
    BY TreeIs
<1>2. u = [p \in DOMAIN t |-> u[p]]
    BY DEF BlankPanes
<1>3. ASSUME NEW p \in DOMAIN t PROVE u[p] = IF p \in S THEN [t[p] EXCEPT !.cfg.type = "Blank"] ELSE t[p]
    BY DEF BlankPanes
<1>4. ASSUME NEW p \in DOMAIN t, p \in S
      PROVE  u[p] \in PaneNode /\ u[p].split = t[p].split /\ u[p].cfg.type = "Blank"
    <2> DEFINE c == [t[p].cfg EXCEPT !.type = "Blank"]
    <2>1. [t[p] EXCEPT !.cfg.type = "Blank"] = [split |-> t[p].split, dir |-> t[p].dir, cfg |-> c]
        BY NodeFields
    <2>2. "Blank" \in ToSet(PaneTypes) \cup TopRowTypes
        BY PaneAssumption
    <2>3. c \in PaneConfig /\ c.type = "Blank"
        <3>1. PICK d \in PaneConfig : d = t[p].cfg
            BY NodeFields
        <3>2. [d EXCEPT !.type = "Blank"] \in PaneConfig /\ [d EXCEPT !.type = "Blank"].type = "Blank"
            BY <2>2 DEF PaneConfig
        <3> QED
            BY <3>1, <3>2
    <2> HIDE DEF c
    <2>4. [split |-> t[p].split, dir |-> t[p].dir, cfg |-> c] \in PaneNode
        BY <2>3, NodeFields DEF PaneNode, Directions
    <2> HIDE DEF u
    <2> QED
        BY <1>3, <1>4, <2>1, <2>3, <2>4
<1>5. ASSUME NEW p \in DOMAIN t, p \notin S PROVE u[p] = t[p]
    BY <1>3, <1>5
<1> HIDE DEF u
<1>6. DOMAIN u = DOMAIN t /\ u \in [DOMAIN u -> PaneNode] /\ \A p \in DOMAIN t : u[p].split = t[p].split
    BY <1>1, <1>2, <1>4, <1>5
<1>7. IsTree(u) /\ Leaves(u) = Leaves(t)
    BY <1>6, RelabelIs
<1> QED
    BY <1>4, <1>5, <1>6, <1>7 DEF u

LEMMA PersistedIs ==
    ASSUME NEW c \in PaneConfig
    PROVE  Persisted(c) \in PaneConfig /\ Looks(Persisted(c)) = Looks(c) /\ Persisted(c).type = c.type
<1> DEFINE cat == IF c.type = "Chronicle" THEN c.category ELSE "Sets"
           sort == IF c.type = "Chronicle" THEN c.sort ELSE "Base"
           view == IF c.type = "Backups" THEN c.view ELSE "Summary"
           char == IF c.type \in {"Character", "SessionLoot"} THEN c.character ELSE ""
           query == Searchable(c.type) /\ c.query
           d == [type |-> c.type, category |-> cat, sort |-> sort, weight |-> c.weight,
                 view |-> view, character |-> char, query |-> query]
<1>1. Persisted(c) = d
    <2>1. Persisted(c) = [NewConfig EXCEPT !.type = c.type, !.weight = c.weight, !.category = cat,
                             !.sort = sort, !.view = view, !.character = char, !.query = query]
        BY DEF Persisted, NewConfig
    <2> HIDE DEF cat, sort, view, char, query
    <2> QED
        BY <2>1 DEF NewConfig
<1>2. "Sets" \in ToSet(Categories)
    BY PaneAssumption
<1>3. cat \in ToSet(Categories)
    BY <1>2, ConfigFields
<1>4. sort \in {"Name", "Base", "Owned", "Tier"} /\ view \in {"Summary", "Detail"}
      /\ char \in Characters \cup {""}
    BY ConfigFields
<1>5. query \in BOOLEAN
    BY ConfigFields
<1>6. d \in PaneConfig
    <2> HIDE DEF cat, sort, view, char, query
    <2> QED
        BY <1>3, <1>4, <1>5, ConfigFields DEF PaneConfig
<1>7. Looks(d) = Looks(c)
    <2>1. c.type \in {"Chronicle", "Inventory", "Reconcile"} => query = c.query
        BY ConfigFields DEF Searchable
    <2> HIDE DEF query
    <2> QED
        BY <2>1 DEF Looks
<1>8. d.type = c.type
    OBVIOUS
<1> HIDE DEF d
<1> QED
    BY <1>1, <1>6, <1>7, <1>8

LEMMA ToJsonIs ==
    ASSUME NEW t, IsTree(t)
    PROVE  /\ IsTree(ToJson(t)) /\ SameLayout(ToJson(t), t)
           /\ TreeHasTopRowPane(ToJson(t)) <=> TreeHasTopRowPane(t)
<1> DEFINE u == ToJson(t)
<1>1. ASSUME NEW p \in DOMAIN t
      PROVE  /\ u[p] \in PaneNode /\ u[p].split = t[p].split
             /\ t[p].split => u[p].dir = t[p].dir
             /\ ~ t[p].split => Looks(u[p].cfg) = Looks(t[p].cfg) /\ u[p].cfg.type = t[p].cfg.type
    <2>1. u[p] = IF t[p].split THEN SplitNode(t[p].dir) ELSE LeafNode(Persisted(t[p].cfg))
        BY DEF ToJson
    <2>2. t[p].cfg \in PaneConfig /\ t[p].dir \in Directions
        BY NodeFields
    <2> DEFINE c == Persisted(t[p].cfg)
    <2>3. c \in PaneConfig /\ Looks(c) = Looks(t[p].cfg) /\ c.type = t[p].cfg.type
        BY <2>2, PersistedIs
    <2> HIDE DEF u, c
    <2>4. CASE t[p].split
        <3>1. SplitNode(t[p].dir) \in PaneNode
            BY <2>2, NodesAre
        <3> QED
            BY <2>1, <2>4, <3>1 DEF SplitNode
    <2>5. CASE ~ t[p].split
        <3>1. LeafNode(c) \in PaneNode
            BY <2>3, NodesAre
        <3>2. u[p] = LeafNode(c)
            BY <2>1, <2>5 DEF c
        <3>3. u[p].cfg = c /\ ~ u[p].split
            BY <3>2 DEF LeafNode
        <3>4. t[p].split = FALSE /\ u[p].split = FALSE
            BY <2>5, <3>2, NodeFields DEF LeafNode
        <3> QED
            BY <2>3, <2>5, <3>1, <3>2, <3>3, <3>4
    <2> QED
        BY <2>4, <2>5
<1>2. u = [p \in DOMAIN t |-> u[p]]
    BY DEF ToJson
<1> HIDE DEF u
<1>3. DOMAIN u = DOMAIN t /\ u \in [DOMAIN u -> PaneNode]
    BY <1>1, <1>2
<1>4. IsTree(u) /\ Leaves(u) = Leaves(t)
    BY <1>1, <1>3, RelabelIs
<1>5. SameLayout(u, t)
    BY <1>1, <1>3 DEF SameLayout
<1>6. TreeHasTopRowPane(u) <=> TreeHasTopRowPane(t)
    BY <1>1, <1>4 DEF TreeHasTopRowPane, Leaves
<1> QED
    BY <1>4, <1>5, <1>6 DEF u

-----------------------------------------------------------------------------
(***************************************************************************)
(* Layouts                                                                 *)
(***************************************************************************)
LEMMA MakeLeafIs ==
    ASSUME NEW type \in ToSet(PaneTypes) \cup TopRowTypes, NEW cat \in ToSet(Categories)
    PROVE  IsTree(MakeLeaf(type, cat))
<1> DEFINE c == [NewConfig EXCEPT !.type = type, !.category = cat]
<1>1. c \in PaneConfig
    BY NodesAre DEF PaneConfig
<1> HIDE DEF c
<1>2. IsTree(Single(c))
    BY <1>1, SingleIs
<1> QED
    BY <1>2 DEF MakeLeaf, c

LEMMA BesideIs ==
    ASSUME NEW a, IsTree(a), NEW b, IsTree(b)
    PROVE  IsTree(Beside(a, b))
<1>1. "Vertical" \in Directions
    BY DEF Directions
<1>2. IsTree(Join("Vertical", a, b))
    BY <1>1, JoinIs
<1> QED
    BY <1>2 DEF Beside

LEMMA TopRowIs == IsTree(TopRow)
<1>1. "Sets" \in ToSet(Categories)
    BY PaneAssumption
<1>2. {"Character", "Uber", "TerrorZone", "SessionLoot"} \subseteq ToSet(PaneTypes) \cup TopRowTypes
    BY DEF TopRowTypes
<1>3. /\ IsTree(MakeLeaf("Character", "Sets")) /\ IsTree(MakeLeaf("Uber", "Sets"))
      /\ IsTree(MakeLeaf("TerrorZone", "Sets")) /\ IsTree(MakeLeaf("SessionLoot", "Sets"))
    BY <1>1, <1>2, MakeLeafIs
<1>4. IsTree(Beside(MakeLeaf("TerrorZone", "Sets"), MakeLeaf("SessionLoot", "Sets")))
    BY <1>3, BesideIs
<1>5. IsTree(Beside(MakeLeaf("Uber", "Sets"),
             Beside(MakeLeaf("TerrorZone", "Sets"), MakeLeaf("SessionLoot", "Sets"))))
    BY <1>3, <1>4, BesideIs
<1>6. IsTree(Beside(MakeLeaf("Character", "Sets"), Beside(MakeLeaf("Uber", "Sets"),
             Beside(MakeLeaf("TerrorZone", "Sets"), MakeLeaf("SessionLoot", "Sets")))))
    BY <1>3, <1>5, BesideIs
<1>7. 12 \in Nat \ {0}
    OBVIOUS
<1> QED
    BY <1>6, <1>7, SetLeafWeightIs DEF TopRow

LEMMA DefaultLayoutIs == IsTree(MakeDefaultLayout)
<1>1. "Sets" \in ToSet(Categories) /\ "UniquesAll" \in ToSet(Categories)
      /\ "Chronicle" \in ToSet(PaneTypes) /\ "Inventory" \in ToSet(PaneTypes)
    BY PaneAssumption
<1>2. /\ IsTree(MakeLeaf("Chronicle", "Sets")) /\ IsTree(MakeLeaf("Chronicle", "UniquesAll"))
      /\ IsTree(MakeLeaf("Inventory", "Sets"))
    BY <1>1, MakeLeafIs
<1>3. IsTree(Beside(MakeLeaf("Chronicle", "UniquesAll"), MakeLeaf("Inventory", "Sets")))
    BY <1>2, BesideIs
<1>4. IsTree(Beside(MakeLeaf("Chronicle", "Sets"),
             Beside(MakeLeaf("Chronicle", "UniquesAll"), MakeLeaf("Inventory", "Sets"))))
    BY <1>2, <1>3, BesideIs
<1>5. 40 \in Nat \ {0} /\ "Horizontal" \in Directions
    BY DEF Directions
<1>6. IsTree(SetLeafWeight(Beside(MakeLeaf("Chronicle", "Sets"),
             Beside(MakeLeaf("Chronicle", "UniquesAll"), MakeLeaf("Inventory", "Sets"))), 40))
    BY <1>4, <1>5, SetLeafWeightIs
<1> QED
    BY <1>5, <1>6, TopRowIs, JoinIs DEF MakeDefaultLayout

LEMMA LoadIs ==
    ASSUME NEW s, s = NoLayout \/ IsTree(s)
    PROVE  /\ \A read \in BOOLEAN : IsTree(LoadPaneTree(s, read))
           /\ IsTree(s) /\ TreeHasTopRowPane(s) => LoadPaneTree(s, TRUE) = s
<1>1. IsTree(s) => s # NoLayout
    <2>1. DOMAIN NoLayout = {}
        BY DEF NoLayout
    <2>2. IsTree(s) => Root \in DOMAIN s
        BY TreeIs
    <2> QED
        BY <2>1, <2>2
<1>2. ASSUME IsTree(s) PROVE IsTree(MigrateLegacyLayout(s))
    <2>1. 40 \in Nat \ {0} /\ "Horizontal" \in Directions
        BY DEF Directions
    <2>2. IsTree(SetLeafWeight(s, 40))
        BY <1>2, <2>1, SetLeafWeightIs
    <2> QED
        BY <2>1, <2>2, TopRowIs, JoinIs DEF MigrateLegacyLayout
<1>3. \A read \in BOOLEAN : IsTree(LoadPaneTree(s, read))
    BY <1>2, DefaultLayoutIs DEF LoadPaneTree
<1>4. IsTree(s) /\ TreeHasTopRowPane(s) => LoadPaneTree(s, TRUE) = s
    BY <1>1 DEF LoadPaneTree
<1> QED
    BY <1>3, <1>4

\* What is stored is what is loaded.
LEMMA StoredIsLoaded ==
    ASSUME NEW t, IsTree(t), TreeHasTopRowPane(t)
    PROVE  SameLayout(LoadPaneTree(ToJson(t), TRUE), t)
<1>1. IsTree(ToJson(t)) /\ TreeHasTopRowPane(ToJson(t)) /\ SameLayout(ToJson(t), t)
    BY ToJsonIs
<1>2. LoadPaneTree(ToJson(t), TRUE) = ToJson(t)
    BY <1>1, LoadIs
<1> QED
    BY <1>1, <1>2

-----------------------------------------------------------------------------
(***************************************************************************)
(* Splitting and deleting panes                                            *)
(***************************************************************************)
LEMMA SplitLeafIs ==
    ASSUME NEW t, IsTree(t), NEW p \in DOMAIN t, NEW dir \in Directions
    PROVE  LET u == SplitLeaf(t, p, dir)
           IN  /\ IsTree(u) /\ p \in DOMAIN u
               /\ \A q \in DOMAIN t : ~ IsPrefix(p, q) => q \in DOMAIN u
               /\ \A y \in Leaves(u) :
                     \/ y = p \o <<1>> /\ u[y].cfg = t[p].cfg
                     \/ u[y].cfg = NewConfig
                     \/ y \in Leaves(t) /\ y # p /\ u[y] = t[y]
<1> DEFINE a == Single(t[p].cfg)
           b == Single(NewConfig)
           j == Join(dir, a, b)
           u == Graft(t, p, j)
<1>1. p \in Paths /\ DOMAIN t \subseteq Paths
    BY TreeIs
<1>2. /\ IsTree(a) /\ DOMAIN a = {Root} /\ a[Root] = LeafNode(t[p].cfg)
      /\ IsTree(b) /\ DOMAIN b = {Root} /\ b[Root] = LeafNode(NewConfig)
    BY NodeFields, NodesAre, SingleIs
<1> HIDE DEF a, b
<1>3. /\ IsTree(j)
      /\ Root \in DOMAIN j /\ j[Root] = SplitNode(dir)
      /\ \A q \in Paths : /\ <<1>> \o q \in DOMAIN j <=> q \in DOMAIN a
                          /\ <<2>> \o q \in DOMAIN j <=> q \in DOMAIN b
      /\ \A q \in DOMAIN a : j[<<1>> \o q] = a[q]
      /\ \A q \in DOMAIN b : j[<<2>> \o q] = b[q]
    BY <1>2, JoinIs
<1>4. DOMAIN j \subseteq Paths
    BY <1>3, TreeIs
<1> HIDE DEF j
<1>5. /\ IsTree(u)
      /\ \A r \in Paths : p \o r \in DOMAIN u <=> r \in DOMAIN j
      /\ \A r \in DOMAIN j : u[p \o r] = j[r]
      /\ \A q \in Paths : ~ IsPrefix(p, q) =>
            /\ q \in DOMAIN u <=> q \in DOMAIN t
            /\ q \in DOMAIN t => u[q] = t[q]
    BY <1>3, GraftIs
<1>6. DOMAIN u \subseteq Paths
    BY <1>5, TreeIs
<1> HIDE DEF u
<1>7. p \in DOMAIN u
    <2>1. p \o Root = p /\ Root \in Paths
        BY <1>1, PathAlgebra
    <2> QED
        BY <1>3, <1>5, <2>1
<1>8. \A q \in DOMAIN t : ~ IsPrefix(p, q) => q \in DOMAIN u
    BY <1>1, <1>5
<1>9. ASSUME NEW r \in DOMAIN j, ~ j[r].split
      PROVE  (r = <<1>> /\ j[r] = LeafNode(t[p].cfg)) \/ j[r] = LeafNode(NewConfig)
    <2>1. r # Root /\ r \in Paths
        BY <1>3, <1>4, <1>9 DEF SplitNode
    <2>2. PICK x \in Side, q \in Paths : r = <<x>> \o q
        BY <2>1, Steps
    <2>3. CASE x = 1
        <3>1. q = Root
            BY <1>2, <1>3, <2>2, <2>3
        <3>2. r = <<1>>
            <4>1. 1 \in Side
                BY DEF Side
            <4>2. <<1>> \in Paths
                BY <4>1, OneStep
            <4> QED
                BY <2>2, <2>3, <3>1, <4>2, PathAlgebra
        <3> QED
            BY <1>2, <1>3, <2>2, <2>3, <3>1, <3>2
    <2>4. CASE x = 2
        BY <1>2, <1>3, <2>2, <2>4
    <2> QED
        BY <2>2, <2>3, <2>4 DEF Side
<1>10. ASSUME NEW y \in Leaves(u)
       PROVE  \/ y = p \o <<1>> /\ u[y].cfg = t[p].cfg
              \/ u[y].cfg = NewConfig
              \/ y \in Leaves(t) /\ y # p /\ u[y] = t[y]
    <2>1. y \in Paths /\ y \in DOMAIN u /\ ~ u[y].split
        BY <1>6 DEF Leaves
    <2>2. CASE IsPrefix(p, y)
        <3>1. PICK r \in Paths : y = p \o r
            BY <1>1, <2>1, <2>2, PrefixIs
        <3>2. r \in DOMAIN j /\ u[y] = j[r] /\ ~ j[r].split
            BY <1>5, <2>1, <3>1
        <3> QED
            BY <1>9, <3>1, <3>2 DEF LeafNode
    <2>3. CASE ~ IsPrefix(p, y)
        <3>1. IsPrefix(p, p)
            <4>1. p = p \o Root /\ Root \in Paths
                BY <1>1, PathAlgebra
            <4> QED
                BY <1>1, <4>1, PrefixIs
        <3> QED
            BY <1>5, <2>1, <2>3, <3>1 DEF Leaves
    <2> QED
        BY <2>2, <2>3
<1> QED
    BY <1>5, <1>7, <1>8, <1>10 DEF SplitLeaf, u, j, a, b

\* The panes that are left are panes that were there, in other places.
LEMMA DeletePaneIs ==
    ASSUME NEW t, IsTree(t), NEW p \in DOMAIN t, p # Root
    PROVE  LET u == DeletePane(t, p)
           IN  /\ IsTree(u)
               /\ \E from \in [Leaves(u) -> Leaves(t) \ {p}] :
                     /\ \A y, z \in Leaves(u) : from[y] = from[z] => y = z
                     /\ \A y \in Leaves(u) : u[y].cfg = t[from[y]].cfg
<1>1. p \in Paths /\ DOMAIN t \subseteq Paths /\ Shape(t)
    BY TreeIs
<1>2. PICK f \in Paths, x \in Side : p = f \o <<x>>
    BY <1>1, Steps
<1>3. Front(p) = f /\ Last(p) = x
    BY <1>2, LastStep
<1>4. PICK o \in Side : o = 3 - x /\ o # x
    BY <1>2 DEF Side
<1> DEFINE sib == f \o <<o>>
           s == SubtreeAt(t, sib)
           u == Graft(t, f, s)
<1>5. f \in DOMAIN t /\ sib \in DOMAIN t /\ sib \in Paths /\ <<o>> \in Paths
    BY <1>1, <1>2, <1>4, LastStep, OneStep DEF Shape
<1>6. DeletePane(t, p) = u
    BY <1>3, <1>4 DEF DeletePane, HasParent
<1> HIDE DEF sib
<1>7. /\ IsTree(s)
      /\ \A r \in Paths : r \in DOMAIN s <=> sib \o r \in DOMAIN t
      /\ \A r \in DOMAIN s : s[r] = t[sib \o r]
    BY <1>5, SubtreeIs
<1> HIDE DEF s
<1>8. /\ IsTree(u)
      /\ \A r \in Paths : f \o r \in DOMAIN u <=> r \in DOMAIN s
      /\ \A r \in DOMAIN s : u[f \o r] = s[r]
      /\ \A q \in Paths : ~ IsPrefix(f, q) =>
            /\ q \in DOMAIN u <=> q \in DOMAIN t
            /\ q \in DOMAIN t => u[q] = t[q]
    BY <1>5, <1>7, GraftIs
<1>9. DOMAIN u \subseteq Paths
    BY <1>8, TreeIs
<1> HIDE DEF u
<1> DEFINE from == [y \in Leaves(u) |->
                       IF IsPrefix(f, y) THEN sib \o SubSeq(y, Len(f) + 1, Len(y)) ELSE y]
<1>10. ASSUME NEW y \in Leaves(u), NEW r \in Paths, y = f \o r
       PROVE  from[y] = sib \o r /\ sib \o r \in Leaves(t) /\ u[y].cfg = t[sib \o r].cfg
              /\ sib \o r # p /\ IsPrefix(f, sib \o r)
    <2>1. y \in DOMAIN u /\ ~ u[y].split /\ y \in Paths
        BY <1>9 DEF Leaves
    <2>2. IsPrefix(f, y) /\ SubSeq(y, Len(f) + 1, Len(y)) = r
        BY <1>2, <1>10, <2>1, PrefixIs, RestIs
    <2>3. r \in DOMAIN s /\ u[y] = t[sib \o r] /\ sib \o r \in DOMAIN t
        BY <1>7, <1>8, <1>10, <2>1
    <2>4. f \o (<<o>> \o r) = (f \o <<o>>) \o r /\ <<o>> \o r \in Paths
        <3>1. f \in Paths /\ o \in Side /\ r \in Paths
            BY <1>2, <1>4
        <3> HIDE DEF from
        <3> QED
            BY <3>1, StepInto
    <2>5. sib \o r = f \o (<<o>> \o r)
        BY <2>4 DEF sib
    <2>6. sib \o r # p
        <3> SUFFICES ASSUME sib \o r = p PROVE FALSE
            OBVIOUS
        <3>1. <<x>> \in Paths /\ <<x>> \o Root = <<x>> /\ Root \in Paths
            BY <1>2, OneStep, PathAlgebra
        <3>2. <<o>> \o r = <<x>>
            BY <1>2, <2>4, <2>5, <3>1, ConcatSimplifications DEF Paths
        <3>3. (<<o>> \o r)[1] = o
            BY <1>4, <1>10, FirstStep
        <3>4. <<x>>[1] = x
            BY <1>2, OneStep
        <3> QED
            BY <1>4, <3>2, <3>3, <3>4
    <2>7. IsPrefix(f, sib \o r)
        <3>1. sib \o r \in Paths
            BY <1>5, <1>10, PathConcat
        <3> QED
            BY <1>2, <2>4, <2>5, <3>1, PrefixIs
    <2> QED
        BY <2>1, <2>2, <2>3, <2>6, <2>7 DEF Leaves
<1>11. ASSUME NEW y \in Leaves(u), ~ IsPrefix(f, y)
       PROVE  from[y] = y /\ y \in Leaves(t) /\ u[y].cfg = t[y].cfg /\ y # p
    <2>1. y \in DOMAIN u /\ ~ u[y].split /\ y \in Paths
        BY <1>9 DEF Leaves
    <2>2. IsPrefix(f, p)
        <3>1. <<x>> \in Paths
            BY <1>2, OneStep
        <3> QED
            BY <1>1, <1>2, <3>1, PrefixIs
    <2> QED
        BY <1>8, <1>11, <2>1, <2>2 DEF Leaves
<1>12. \A y \in Leaves(u) : IsPrefix(f, y) => \E r \in Paths : y = f \o r
    <2>1. Leaves(u) \subseteq Paths
        BY <1>9 DEF Leaves
    <2> QED
        BY <1>2, <2>1, PrefixIs
<1> HIDE DEF from
<1>13. from \in [Leaves(u) -> Leaves(t) \ {p}]
    <2>1. ASSUME NEW y \in Leaves(u) PROVE from[y] \in Leaves(t) \ {p}
        <3>1. CASE IsPrefix(f, y)
            <4>1. PICK r \in Paths : y = f \o r
                BY <1>12, <3>1
            <4> QED
                BY <1>10, <4>1
        <3>2. CASE ~ IsPrefix(f, y)
            BY <1>11, <3>2
        <3> QED
            BY <3>1, <3>2
    <2> QED
        BY <2>1 DEF from
<1>14. ASSUME NEW y \in Leaves(u) PROVE u[y].cfg = t[from[y]].cfg
    <2>1. CASE IsPrefix(f, y)
        <3>1. PICK r \in Paths : y = f \o r
            BY <1>12, <2>1
        <3> QED
            BY <1>10, <3>1
    <2>2. CASE ~ IsPrefix(f, y)
        BY <1>11, <2>2
    <2> QED
        BY <2>1, <2>2
<1>15. ASSUME NEW y \in Leaves(u), NEW z \in Leaves(u), from[y] = from[z]
       PROVE  y = z
    <2>1. CASE IsPrefix(f, y) /\ IsPrefix(f, z)
        <3>1. PICK r \in Paths : y = f \o r
            BY <1>12, <2>1
        <3>2. PICK v \in Paths : z = f \o v
            BY <1>12, <2>1
        <3>3. sib \o r = sib \o v
            BY <1>10, <1>15, <3>1, <3>2
        <3>4. r = v
            BY <1>5, <3>1, <3>2, <3>3, ConcatSimplifications DEF Paths
        <3> QED
            BY <3>1, <3>2, <3>4
    <2>2. CASE ~ IsPrefix(f, y) /\ ~ IsPrefix(f, z)
        BY <1>11, <1>15, <2>2
    <2>3. CASE IsPrefix(f, y) /\ ~ IsPrefix(f, z)
        <3>1. PICK r \in Paths : y = f \o r
            BY <1>12, <2>3
        <3>2. from[y] = sib \o r /\ IsPrefix(f, sib \o r)
            BY <1>10, <3>1
        <3>3. from[z] = z
            BY <1>11, <2>3
        <3> QED
            BY <1>15, <2>3, <3>2, <3>3
    <2>4. CASE ~ IsPrefix(f, y) /\ IsPrefix(f, z)
        <3>1. PICK r \in Paths : z = f \o r
            BY <1>12, <2>4
        <3>2. from[z] = sib \o r /\ IsPrefix(f, sib \o r)
            BY <1>10, <3>1
        <3>3. from[y] = y
            BY <1>11, <2>4
        <3> QED
            BY <1>15, <2>4, <3>2, <3>3
    <2> QED
        BY <2>1, <2>2, <2>3, <2>4
<1> QED
    BY <1>6, <1>8, <1>13, <1>14, <1>15

-----------------------------------------------------------------------------
(***************************************************************************)
(* Panes of which there may be one                                         *)
(***************************************************************************)

\* Two configurations that only one pane may have.
Clash(c, d) ==
    /\ c.type = d.type
    /\ c.type = "Inventory" \/ (c.type = "Chronicle" /\ c.category = d.category)

\* No two panes outside X clash.
Distinct(t, X) == \A p, q \in Leaves(t) \ X : Clash(t[p].cfg, t[q].cfg) => p = q

LEMMA AtMostOne ==
    ASSUME NEW S, IsFiniteSet(S)
    PROVE  Cardinality(S) <= 1 <=> \A x, y \in S : x = y
<1>1. ASSUME NEW x \in S, \A y \in S : x = y PROVE Cardinality(S) = 1
    <2>1. S = {x}
        BY <1>1
    <2> QED
        BY <2>1, FS_Singleton
<1>2. ASSUME NEW x \in S, NEW y \in S, Cardinality(S) <= 1 PROVE x = y
    <2>1. Cardinality(S) \in Nat
        BY FS_CardinalityType
    <2>2. Cardinality(S) # 0
        BY FS_EmptySet
    <2>3. Cardinality(S) = 1
        BY <1>2, <2>1, <2>2
    <2>4. PICK z : S = {z}
        BY <2>3, FS_Singleton
    <2> QED
        BY <2>4
<1>3. CASE S = {}
    <2>1. Cardinality(S) = 0
        BY <1>3, FS_EmptySet
    <2> QED
        BY <1>3, <2>1
<1>4. CASE S # {}
    <2>1. ASSUME \A x, y \in S : x = y PROVE Cardinality(S) <= 1
        <3>1. PICK x \in S : TRUE
            BY <1>4
        <3>2. Cardinality(S) = 1
            BY <1>1, <2>1, <3>1
        <3> QED
            BY <3>2
    <2> QED
        BY <1>2, <2>1
<1> QED
    BY <1>3, <1>4

LEMMA NoDuplicatesIs ==
    ASSUME NEW t, IsTree(t)
    PROVE  NoDuplicates(t) <=> Distinct(t, {})
<1>1. IsFiniteSet(Leaves(t)) /\ \A p \in Leaves(t) : p \in DOMAIN t
    BY FlattenIs DEF Leaves
<1>2. IsFiniteSet(InventoryPanes(t)) /\ \A cat : IsFiniteSet(PanesOfCategory(t, cat))
    BY <1>1, FS_Subset DEF InventoryPanes, PanesOfCategory
<1>3. NoDuplicates(t) <=>
         /\ \A cat \in ToSet(Categories) : \A p, q \in PanesOfCategory(t, cat) : p = q
         /\ \A p, q \in InventoryPanes(t) : p = q
    BY <1>2, AtMostOne DEF NoDuplicates
<1>4. \A p \in Leaves(t) : t[p].cfg.category \in ToSet(Categories)
    BY <1>1, NodeFields, ConfigFields
<1> QED
    BY <1>3, <1>4 DEF Distinct, Clash, InventoryPanes, PanesOfCategory

\* Relabelling leaves Distinct alone if types and categories stay.
LEMMA DistinctKept ==
    ASSUME NEW t, NEW u, NEW X, Leaves(u) = Leaves(t), Distinct(t, X),
           \A p \in Leaves(t) \ X : u[p].cfg.type = t[p].cfg.type
                                    /\ u[p].cfg.category = t[p].cfg.category
    PROVE  Distinct(u, X)
BY DEF Distinct, Clash

\* Configuring a pane that is set aside, or changing what does not count.
LEMMA DistinctAfterConfig ==
    ASSUME NEW t, IsTree(t), NEW p \in DOMAIN t, NEW c \in PaneConfig, NEW X, Distinct(t, X),
           p \in X \/ (c.type = t[p].cfg.type /\ c.category = t[p].cfg.category)
    PROVE  Distinct(SetConfig(t, p, c), X)
<1> DEFINE u == SetConfig(t, p, c)
<1>1. Leaves(u) = Leaves(t) /\ u[p].cfg = c /\ \A q \in DOMAIN t \ {p} : u[q] = t[q]
    BY SetConfigIs
<1>2. Leaves(t) \subseteq DOMAIN t
    BY DEF Leaves
<1> HIDE DEF u
<1>3. \A q \in Leaves(t) \ X : u[q].cfg.type = t[q].cfg.type /\ u[q].cfg.category = t[q].cfg.category
    BY <1>1, <1>2
<1>4. Distinct(u, X)
    BY <1>1, <1>3, DistinctKept
<1> QED
    BY <1>4 DEF u

\* Committing a pane leaves no other pane it clashes with.
LEMMA ApplySingletonsIs ==
    ASSUME NEW t, IsTree(t), NEW p \in DOMAIN t
    PROVE  LET u == ApplySingletons(t, p)
           IN  /\ IsTree(u) /\ DOMAIN u = DOMAIN t /\ Leaves(u) = Leaves(t)
               /\ u[p] = t[p]
               /\ \A q \in Leaves(t) \ {p} : ~ Clash(u[p].cfg, u[q].cfg)
               /\ Distinct(t, {p}) => Distinct(u, {p})
<1> DEFINE u == ApplySingletons(t, p)
           c == t[p].cfg
<1>1. Leaves(t) \subseteq DOMAIN t
    BY DEF Leaves
<1>2. PICK S : /\ u = BlankPanes(t, S) \/ (u = t /\ S = {})
               /\ p \notin S
               /\ \A q \in Leaves(t) \ {p} : Clash(c, t[q].cfg) => q \in S
               /\ u = t => c.type \notin {"Chronicle", "Inventory"} \/ u = BlankPanes(t, S)
    <2>1. CASE c.type = "Chronicle"
        <3>1. u = BlankPanes(t, PanesOfCategory(t, c.category) \ {p})
            BY <2>1 DEF ApplySingletons, EnforceCategorySingleton
        <3>2. \A q \in Leaves(t) \ {p} :
                  Clash(c, t[q].cfg) => q \in PanesOfCategory(t, c.category) \ {p}
            BY <2>1 DEF Clash, PanesOfCategory
        <3> QED
            BY <3>1, <3>2
    <2>2. CASE c.type = "Inventory"
        <3>1. u = BlankPanes(t, InventoryPanes(t) \ {p})
            BY <2>2 DEF ApplySingletons, EnforceInventorySingleton
        <3>2. \A q \in Leaves(t) \ {p} : Clash(c, t[q].cfg) => q \in InventoryPanes(t) \ {p}
            BY <2>2 DEF Clash, InventoryPanes
        <3> QED
            BY <3>1, <3>2
    <2>3. CASE c.type # "Chronicle" /\ c.type # "Inventory"
        <3>1. u = t
            BY <2>3 DEF ApplySingletons
        <3>2. \A q \in Leaves(t) \ {p} : ~ Clash(c, t[q].cfg)
            BY <2>3 DEF Clash
        <3> QED
            BY <2>3, <3>1, <3>2
    <2> QED
        BY <2>1, <2>2, <2>3
<1> HIDE DEF u
<1>3. /\ IsTree(u) /\ DOMAIN u = DOMAIN t /\ Leaves(u) = Leaves(t)
      /\ \A q \in DOMAIN t \ S : u[q] = t[q]
      /\ \A q \in DOMAIN t \cap S : u[q].cfg.type = "Blank"
    <2>1. CASE u = BlankPanes(t, S)
        BY <2>1, BlankPanesIs
    <2>2. CASE u = t /\ S = {}
        BY <2>2
    <2> QED
        BY <1>2, <2>1, <2>2
<1>4. u[p] = t[p]
    BY <1>2, <1>3
<1>5. \A q \in Leaves(t) \ {p} : ~ Clash(u[p].cfg, u[q].cfg)
    <2> SUFFICES ASSUME NEW q \in Leaves(t) \ {p}, Clash(c, u[q].cfg) PROVE FALSE
        BY <1>4
    <2>1. CASE q \in S
        BY <1>1, <1>3, <2>1 DEF Clash
    <2>2. CASE q \notin S
        <3>1. Clash(c, t[q].cfg)
            BY <1>1, <1>3, <2>2
        <3> QED
            BY <1>2, <2>2, <3>1
    <2> QED
        BY <2>1, <2>2
<1>6. ASSUME Distinct(t, {p}) PROVE Distinct(u, {p})
    <2> SUFFICES ASSUME NEW q \in Leaves(t) \ {p}, NEW r \in Leaves(t) \ {p},
                        Clash(u[q].cfg, u[r].cfg)
                 PROVE  q = r
        BY <1>3 DEF Distinct
    <2>1. q \notin S /\ r \notin S
        BY <1>1, <1>3 DEF Clash
    <2>2. Clash(t[q].cfg, t[r].cfg)
        BY <1>1, <1>3, <2>1
    <2> QED
        BY <1>6, <2>2 DEF Distinct
<1> QED
    BY <1>3, <1>4, <1>5, <1>6 DEF u

\* A pane that clashes with no other need not be set aside.
LEMMA DistinctAlone ==
    ASSUME NEW t, NEW p, Distinct(t, {p}), \A q \in Leaves(t) \ {p} : ~ Clash(t[p].cfg, t[q].cfg)
    PROVE  Distinct(t, {})
<1> SUFFICES ASSUME NEW q \in Leaves(t), NEW r \in Leaves(t), Clash(t[q].cfg, t[r].cfg)
             PROVE  q = r
    BY DEF Distinct
<1>1. CASE q # p /\ r # p
    BY <1>1 DEF Distinct
<1>2. CASE q = p
    BY <1>2
<1>3. CASE r = p
    BY <1>3 DEF Clash
<1> QED
    BY <1>1, <1>2, <1>3

LEMMA DistinctAfterSplit ==
    ASSUME NEW t, IsTree(t), NEW p \in DOMAIN t, NEW dir \in Directions,
           Distinct(t, {p}), \A q \in Leaves(t) \ {p} : ~ Clash(t[p].cfg, t[q].cfg)
    PROVE  Distinct(SplitLeaf(t, p, dir), {})
<1> DEFINE u == SplitLeaf(t, p, dir)
<1>1. \A y \in Leaves(u) :
         \/ y = p \o <<1>> /\ u[y].cfg = t[p].cfg
         \/ u[y].cfg = NewConfig
         \/ y \in Leaves(t) /\ y # p /\ u[y] = t[y]
    BY SplitLeafIs
<1> HIDE DEF u
<1>2. \A c : ~ Clash(NewConfig, c) /\ ~ Clash(c, NewConfig)
    BY DEF Clash, NewConfig
<1>3. \A c, d : Clash(c, d) => Clash(d, c)
    BY DEF Clash
<1>4. ASSUME NEW q \in Leaves(u), NEW r \in Leaves(u), Clash(u[q].cfg, u[r].cfg)
      PROVE  q = r
    <2>1. u[q].cfg # NewConfig /\ u[r].cfg # NewConfig
        BY <1>2, <1>4
    <2>2. CASE q \in Leaves(t) /\ q # p /\ u[q] = t[q] /\ r \in Leaves(t) /\ r # p /\ u[r] = t[r]
        BY <1>4, <2>2 DEF Distinct
    <2>3. CASE q \in Leaves(t) /\ q # p /\ u[q] = t[q] /\ u[r].cfg = t[p].cfg
        BY <1>3, <1>4, <2>3
    <2>4. CASE r \in Leaves(t) /\ r # p /\ u[r] = t[r] /\ u[q].cfg = t[p].cfg
        BY <1>4, <2>4
    <2> QED
        BY <1>1, <2>1, <2>2, <2>3, <2>4
<1>5. Distinct(u, {})
    BY <1>4 DEF Distinct
<1> QED
    BY <1>5 DEF u

LEMMA DistinctAfterDelete ==
    ASSUME NEW t, IsTree(t), NEW p \in DOMAIN t, p # Root, Distinct(t, {p})
    PROVE  Distinct(DeletePane(t, p), {})
<1> DEFINE u == DeletePane(t, p)
<1>1. PICK from \in [Leaves(u) -> Leaves(t) \ {p}] :
         /\ \A y, z \in Leaves(u) : from[y] = from[z] => y = z
         /\ \A y \in Leaves(u) : u[y].cfg = t[from[y]].cfg
    BY DeletePaneIs
<1> HIDE DEF u
<1>2. ASSUME NEW q \in Leaves(u), NEW r \in Leaves(u), Clash(u[q].cfg, u[r].cfg)
      PROVE  q = r
    <2>1. from[q] \in Leaves(t) \ {p} /\ from[r] \in Leaves(t) \ {p}
        BY <1>1
    <2>2. Clash(t[from[q]].cfg, t[from[r]].cfg)
        BY <1>1, <1>2
    <2>3. from[q] = from[r]
        BY <2>1, <2>2 DEF Distinct
    <2> QED
        BY <1>1, <2>3
<1>3. Distinct(u, {})
    BY <1>2 DEF Distinct
<1> QED
    BY <1>3 DEF u

\* What an assignment to one field of a pane makes of its configuration.
LEMMA FieldIs ==
    ASSUME NEW t, IsTree(t), NEW p \in DOMAIN t
    PROVE  /\ \A v \in {"Summary", "Detail"} : [t[p].cfg EXCEPT !.view = v] \in PaneConfig
           /\ \A v \in BOOLEAN : [t[p].cfg EXCEPT !.query = v] \in PaneConfig
           /\ \A v \in Characters \cup {""} : [t[p].cfg EXCEPT !.character = v] \in PaneConfig
<1>1. PICK c \in PaneConfig : c = t[p].cfg
    BY NodeFields
<1>2. /\ \A v \in {"Summary", "Detail"} : [c EXCEPT !.view = v] \in PaneConfig
      /\ \A v \in BOOLEAN : [c EXCEPT !.query = v] \in PaneConfig
      /\ \A v \in Characters \cup {""} : [c EXCEPT !.character = v] \in PaneConfig
    BY DEF PaneConfig
<1> QED
    BY <1>1, <1>2

-----------------------------------------------------------------------------
(***************************************************************************)
(* The inductive invariant                                                 *)
(***************************************************************************)
Fields == [days: Numbers \cup {0, 30, EmptyField}, sessions: Numbers \cup {0, 100, EmptyField}]

Values ==
    /\ running \in BOOLEAN /\ hasDb \in BOOLEAN
    /\ IsTree(tree) /\ (layoutRow = NoLayout \/ IsTree(layoutRow))
    /\ policy \in Policies /\ policyRow \in Policies /\ fields \in Fields

OneOpen ==
    /\ open = {} \/ \E o \in Overlays : open = {o}
    /\ ~ running => open = {}

\* Two keys between two frames see the list of an older frame: its paths are still
\* nodes, though perhaps no leaves, and none lies above another, so that what one
\* key cuts off is not what the next one finds.
Pointers ==
    /\ leaves \in Seq(Paths)
    /\ \A i \in DOMAIN leaves : leaves[i] \in DOMAIN tree
    /\ \A i, j \in DOMAIN leaves : IsPrefix(leaves[i], leaves[j]) => i = j
    /\ focus \in Nat /\ (HasFocus \/ (leaves = <<>> /\ focus = 1))
    /\ {"search", "config"} \cap open # {} => HasFocus
    /\ "picker" \in open => target \in DOMAIN tree /\ tree[target].cfg.type = "Character"
    /\ "picker" \notin open => target = Root
    /\ ~ running => leaves = <<>>

PaneInv == Values /\ OneOpen /\ Pointers

LEMMA OverlaysAre ==
    Overlays = {"help", "recovery", "retention", "search", "picker", "time", "config"}
BY DEF Overlays, OverlayOrder, ToSet

LEMMA HandlesIs ==
    ASSUME OneOpen, NEW o, Handles(o)
    PROVE  open = {o} /\ running /\ Close(o) = (open' = {})
BY DEF OneOpen, Handles, Close

LEMMA FocusedIs ==
    ASSUME Pointers, HasFocus
    PROVE  Focused \in DOMAIN tree
BY DEF Pointers, HasFocus, Focused

LEMMA PersistIs ==
    ASSUME Values, NEW t, IsTree(t), PersistLayout(t)
    PROVE  layoutRow' = NoLayout \/ IsTree(layoutRow')
BY ToJsonIs DEF Values, PersistLayout

\* What the keys that neither split nor delete do to the tree.
Relabels == IsTree(tree') /\ DOMAIN tree' = DOMAIN tree /\ Leaves(tree') = Leaves(tree)

\* Cycling an item gives the pane some configuration.
LEMMA CycleItemIs ==
    ASSUME PaneInv, CycleItem
    PROVE  /\ Focused \in DOMAIN tree
           /\ \E c \in PaneConfig : tree' = SetConfig(tree, Focused, c)
<1>1. Focused \in DOMAIN tree
    BY FocusedIs DEF CycleItem, PaneInv
<1>2. FocusedConfig \in PaneConfig
    BY <1>1, NodeFields DEF FocusedConfig, PaneInv, Values
<1>3. PICK step \in {1, -1}, item \in {"type", "category", "sort", "weight"} :
         tree' = SetConfig(tree, Focused,
            CASE item = "type"     -> CyclePaneType(FocusedConfig, step)
              [] item = "category" -> CycleCategory(FocusedConfig, step)
              [] item = "sort"     -> CycleSortKey(FocusedConfig, step)
              [] item = "weight"   -> CyclePaneWeight(FocusedConfig, step))
    BY DEF CycleItem
<1>4. CASE item = "type"
    BY <1>1, <1>2, <1>3, <1>4, CyclesAre
<1>5. CASE item = "category"
    BY <1>1, <1>2, <1>3, <1>5, CyclesAre
<1>6. CASE item = "sort"
    BY <1>1, <1>2, <1>3, <1>6, CyclesAre
<1>7. CASE item = "weight"
    BY <1>1, <1>2, <1>3, <1>7, CyclesAre
<1> QED
    BY <1>3, <1>4, <1>5, <1>6, <1>7

LEMMA RelabelsKept ==
    ASSUME PaneInv,
           \/ UNCHANGED tree \/ DrillBackups \/ TypeQuery \/ EndSearch \/ PickCharacter
           \/ CycleItem \/ CloseConfig \/ ResetCharacterToAuto
    PROVE  Relabels
<1>1. ASSUME NEW p \in DOMAIN tree, NEW c \in PaneConfig, tree' = SetConfig(tree, p, c)
      PROVE  Relabels
    BY <1>1, SetConfigIs DEF PaneInv, Values, Relabels
<1>10. ASSUME NEW p \in DOMAIN tree
       PROVE  /\ \A v \in {"Summary", "Detail"} : tree' = [tree EXCEPT ![p].cfg.view = v] => Relabels
              /\ \A v \in BOOLEAN : tree' = [tree EXCEPT ![p].cfg.query = v] => Relabels
              /\ \A v \in Characters \cup {""} :
                    tree' = [tree EXCEPT ![p].cfg.character = v] => Relabels
    <2>1. IsTree(tree)
        BY DEF PaneInv, Values
    <2>2. ASSUME NEW v \in {"Summary", "Detail"}, tree' = [tree EXCEPT ![p].cfg.view = v]
          PROVE  Relabels
        <3>1. [tree[p].cfg EXCEPT !.view = v] \in PaneConfig
            BY <2>1, FieldIs
        <3>2. tree' = SetConfig(tree, p, [tree[p].cfg EXCEPT !.view = v])
            BY <2>2 DEF SetConfig
        <3> QED
            BY <1>1, <3>1, <3>2
    <2>3. ASSUME NEW v \in BOOLEAN, tree' = [tree EXCEPT ![p].cfg.query = v]
          PROVE  Relabels
        <3>1. [tree[p].cfg EXCEPT !.query = v] \in PaneConfig
            BY <2>1, FieldIs
        <3>2. tree' = SetConfig(tree, p, [tree[p].cfg EXCEPT !.query = v])
            BY <2>3 DEF SetConfig
        <3> QED
            BY <1>1, <3>1, <3>2
    <2>4. ASSUME NEW v \in Characters \cup {""}, tree' = [tree EXCEPT ![p].cfg.character = v]
          PROVE  Relabels
        <3>1. [tree[p].cfg EXCEPT !.character = v] \in PaneConfig
            BY <2>1, FieldIs
        <3>2. tree' = SetConfig(tree, p, [tree[p].cfg EXCEPT !.character = v])
            BY <2>4 DEF SetConfig
        <3> QED
            BY <1>1, <3>1, <3>2
    <2> QED
        BY <2>2, <2>3, <2>4
<1>2. CASE UNCHANGED tree
    BY <1>2 DEF PaneInv, Values, Relabels
<1>3. CASE DrillBackups
    <2>1. Focused \in DOMAIN tree
        BY <1>3, FocusedIs DEF DrillBackups, PaneInv
    <2>2. PICK v \in {"Summary", "Detail"} : tree' = [tree EXCEPT ![Focused].cfg.view = v]
        <3>1. CASE tree[Focused].cfg.view = "Summary"
            BY <1>3, <3>1 DEF DrillBackups
        <3>2. CASE tree[Focused].cfg.view # "Summary"
            BY <1>3, <3>2 DEF DrillBackups
        <3> QED
            BY <3>1, <3>2
    <2> QED
        BY <1>10, <2>1, <2>2
<1>4. CASE TypeQuery
    <2>1. Focused \in DOMAIN tree
        BY <1>4, FocusedIs DEF TypeQuery, PaneInv
    <2>2. PICK v \in BOOLEAN : tree' = [tree EXCEPT ![Focused].cfg.query = v]
        BY <1>4 DEF TypeQuery
    <2> QED
        BY <1>10, <2>1, <2>2
<1>5. CASE EndSearch
    <2>1. CASE HasFocus
        <3>1. Focused \in DOMAIN tree
            BY <2>1, FocusedIs DEF PaneInv
        <3>2. tree' = tree \/ tree' = [tree EXCEPT ![Focused].cfg.query = FALSE]
            BY <1>5, <2>1 DEF EndSearch
        <3> QED
            BY <1>2, <1>10, <3>1, <3>2
    <2>2. CASE ~ HasFocus
        BY <1>2, <1>5, <2>2 DEF EndSearch
    <2> QED
        BY <2>1, <2>2
<1>6. CASE PickCharacter
    <2>1. target \in DOMAIN tree
        BY <1>6 DEF PickCharacter, Handles, PaneInv, Pointers
    <2>2. PICK v \in Characters \cup {""} : tree' = [tree EXCEPT ![target].cfg.character = v]
        BY <1>6 DEF PickCharacter
    <2> QED
        BY <1>10, <2>1, <2>2
<1>7. CASE CycleItem
    BY <1>1, <1>7, CycleItemIs
<1>8. CASE CloseConfig
    <2>1. Focused \in DOMAIN tree
        BY <1>8, FocusedIs DEF CloseConfig, PaneInv
    <2> QED
        BY <1>8, <2>1, ApplySingletonsIs DEF CloseConfig, PaneInv, Values, Relabels
<1>9. CASE ResetCharacterToAuto
    <2>1. Focused \in DOMAIN tree
        BY <1>9, FocusedIs DEF ResetCharacterToAuto, PaneInv
    <2>2. "" \in Characters \cup {""}
        OBVIOUS
    <2>3. tree' = [tree EXCEPT ![Focused].cfg.character = ""]
        BY <1>9 DEF ResetCharacterToAuto
    <2> QED
        BY <1>10, <2>1, <2>2, <2>3
<1> QED
    BY <1>2, <1>3, <1>4, <1>5, <1>6, <1>7, <1>8, <1>9

LEMMA SplitKept ==
    ASSUME PaneInv, SplitPane
    PROVE  /\ IsTree(tree')
           /\ Focused \in DOMAIN tree'
           /\ \A q \in DOMAIN tree : ~ IsPrefix(Focused, q) => q \in DOMAIN tree'
<1>1. Focused \in DOMAIN tree
    BY FocusedIs DEF SplitPane, PaneInv
<1> DEFINE t == ApplySingletons(tree, Focused)
<1>2. IsTree(t) /\ DOMAIN t = DOMAIN tree
    BY <1>1, ApplySingletonsIs DEF PaneInv, Values
<1>3. PICK dir \in Directions : tree' = SplitLeaf(t, Focused, dir)
    BY DEF SplitPane, Directions
<1> HIDE DEF t
<1> QED
    BY <1>1, <1>2, <1>3, SplitLeafIs

LEMMA RemoveKept ==
    ASSUME PaneInv, RemovePane
    PROVE  IsTree(tree')
<1>1. Focused \in DOMAIN tree
    BY FocusedIs DEF RemovePane, PaneInv
<1>2. Focused # Root
    BY DEF RemovePane, InMenu, HasParent
<1> QED
    BY <1>1, <1>2, DeletePaneIs DEF RemovePane, PaneInv, Values

LEMMA FlattenedIs ==
    ASSUME NEW t, IsTree(t)
    PROVE  LET l == FlattenLeaves(t)
           IN  /\ l \in Seq(Paths) /\ DOMAIN l = 1..Len(l) /\ Len(l) \in Nat \ {0}
               /\ \A i \in DOMAIN l : l[i] \in Leaves(t) /\ l[i] \in DOMAIN t
               /\ \A i, j \in DOMAIN l : IsPrefix(l[i], l[j]) => i = j
<1> DEFINE l == FlattenLeaves(t)
           n == Cardinality(Leaves(t))
<1>1. n \in Nat \ {0} /\ l \in [1..n -> Leaves(t)] /\ Len(l) = n
      /\ \A i, j \in 1..n : l[i] = l[j] => i = j
    BY FlattenIs
<1>2. Leaves(t) \subseteq Paths /\ Leaves(t) \subseteq DOMAIN t
    BY TreeIs DEF Leaves
<1> HIDE DEF l, n
<1>3. l \in Seq(Paths) /\ DOMAIN l = 1..n
    BY <1>1, <1>2
<1>4. ASSUME NEW i \in 1..n, NEW j \in 1..n, IsPrefix(l[i], l[j]) PROVE i = j
    <2>1. l[i] \in Leaves(t) /\ l[j] \in Leaves(t)
        BY <1>1
    <2>2. PICK r \in Paths : l[j] = l[i] \o r
        BY <1>2, <1>4, <2>1, PrefixIs
    <2>3. r = Root
        BY <1>2, <2>1, <2>2, LeafEnds
    <2>4. l[j] = l[i]
        BY <1>2, <2>1, <2>2, <2>3, PathAlgebra
    <2> QED
        BY <1>1, <2>4
<1>5. /\ l \in Seq(Paths) /\ DOMAIN l = 1..Len(l) /\ Len(l) \in Nat \ {0}
      /\ \A i \in DOMAIN l : l[i] \in Leaves(t) /\ l[i] \in DOMAIN t
      /\ \A i, j \in DOMAIN l : IsPrefix(l[i], l[j]) => i = j
    BY <1>1, <1>2, <1>3, <1>4
<1> QED
    BY <1>5 DEF l

LEMMA StopIs ==
    ASSUME Stop
    PROVE  /\ running' = FALSE /\ hasDb' = FALSE /\ IsTree(tree')
           /\ leaves' = <<>> /\ focus' = 1 /\ open' = {} /\ target' = Root
           /\ fields' \in Fields /\ policy' \in Policies
BY DefaultLayoutIs DEF Stop, NoFields, Fields, DefaultPolicy, Policies

LEMMA InitOk == Init => PaneInv
<1> SUFFICES ASSUME Init PROVE PaneInv
    OBVIOUS
<1>1. Values
    <2>1. layoutRow = NoLayout \/ IsTree(layoutRow)
        BY LayoutAssumption DEF Init
    <2> QED
        BY <2>1, DefaultLayoutIs
        DEF Init, Values, NoFields, Fields, DefaultPolicy, Policies
<1>2. OneOpen
    BY DEF Init, OneOpen
<1>3. Pointers
    <2>1. leaves = <<>> /\ <<>> \in Seq(Paths) /\ DOMAIN <<>> = {}
        BY DEF Init
    <2> QED
        BY <2>1 DEF Init, Pointers
<1> QED
    BY <1>1, <1>2, <1>3 DEF PaneInv

LEMMA ValuesKept ==
    ASSUME PaneInv, Next
    PROVE  Values'
<1> USE DEF Values, PaneInv
<1>1. CASE Start
    <2>1. IsTree(tree')
        BY <1>1, LoadIs, DefaultLayoutIs DEF Start
    <2>2. policy' \in Policies
        BY <1>1 DEF Start, LoadBackupRetention, DefaultPolicy, Policies
    <2> QED
        BY <1>1, <2>1, <2>2 DEF Start
<1>2. CASE Render
    BY <1>2 DEF Render
<1>3. CASE Quit
    BY <1>3, StopIs, PersistIs DEF Quit
<1>4. CASE Crash
    BY <1>4, StopIs DEF Crash
<1>5. CASE MoveFocus
    BY <1>5 DEF MoveFocus, ui
<1>6. CASE DrillBackups
    <2>1. IsTree(tree')
        BY <1>6, RelabelsKept DEF Relabels
    <2> QED
        BY <1>6, <2>1 DEF DrillBackups, ui
<1>7. ASSUME NEW o \in Overlays, OpenOverlay(o) \/ CloseModal(o)
      PROVE  Values'
    <2>1. policy \in Fields
        BY DEF Policies, Fields
    <2>2. fields' \in Fields
        BY <1>7, <2>1 DEF OpenOverlay, CloseModal
    <2> QED
        BY <1>7, <2>2 DEF OpenOverlay, CloseModal, ui
<1>8. CASE EditRetentionField
    <2>1. fields' \in Fields
        BY <1>8 DEF EditRetentionField, Fields
    <2> QED
        BY <1>8, <2>1 DEF EditRetentionField, ui
<1>9. CASE SaveRetention
    <2>1. policy' \in Policies
        BY <1>9 DEF SaveRetention, FieldValue, Fields, Policies
    <2>2. fields' \in Fields
        BY <1>9 DEF SaveRetention, Fields, NoFields
    <2> QED
        BY <1>9, <2>1, <2>2 DEF SaveRetention
<1>10. CASE CancelRetention
    <2>1. fields' \in Fields
        BY <1>10 DEF CancelRetention, Fields, NoFields
    <2> QED
        BY <1>10, <2>1 DEF CancelRetention, ui
<1>11. CASE TypeQuery
    <2>1. IsTree(tree')
        BY <1>11, RelabelsKept DEF Relabels
    <2> QED
        BY <1>11, <2>1 DEF TypeQuery, ui
<1>12. CASE EndSearch
    <2>1. IsTree(tree')
        BY <1>12, RelabelsKept DEF Relabels
    <2>2. layoutRow' = NoLayout \/ IsTree(layoutRow')
        BY <1>12, <2>1, PersistIs DEF EndSearch
    <2> QED
        BY <1>12, <2>1, <2>2 DEF EndSearch, ui
<1>13. CASE PickCharacter
    <2>1. IsTree(tree')
        BY <1>13, RelabelsKept DEF Relabels
    <2> QED
        BY <1>13, <2>1, PersistIs DEF PickCharacter, ui
<1>14. CASE CancelPicker
    BY <1>14 DEF CancelPicker, ui
<1>15. CASE CycleItem
    <2>1. IsTree(tree')
        BY <1>15, RelabelsKept DEF Relabels
    <2>2. PersistLayout(tree') /\ UNCHANGED <<ui, fields>>
        BY <1>15 DEF CycleItem
    <2> QED
        BY <2>1, <2>2, PersistIs DEF ui
<1>16. CASE CloseConfig
    <2>1. IsTree(tree')
        BY <1>16, RelabelsKept DEF Relabels
    <2> QED
        BY <1>16, <2>1, PersistIs DEF CloseConfig, ui
<1>17. CASE SplitPane
    <2>1. IsTree(tree')
        BY <1>17, SplitKept
    <2> QED
        BY <1>17, <2>1, PersistIs DEF SplitPane, ui
<1>18. CASE RemovePane
    <2>1. IsTree(tree')
        BY <1>18, RemoveKept
    <2> QED
        BY <1>18, <2>1, PersistIs DEF RemovePane, ui
<1>19. CASE LeaveForModal
    BY <1>19, PersistIs DEF LeaveForModal, ui
<1>20. CASE ResetCharacterToAuto
    <2>1. IsTree(tree')
        BY <1>20, RelabelsKept DEF Relabels
    <2> QED
        BY <1>20, <2>1, PersistIs DEF ResetCharacterToAuto, ui
<1> QED
    BY <1>1, <1>2, <1>3, <1>4, <1>5, <1>6, <1>7, <1>8, <1>9, <1>10, <1>11, <1>12, <1>13, <1>14,
       <1>15, <1>16, <1>17, <1>18, <1>19, <1>20 DEF Next

LEMMA OneOpenKept ==
    ASSUME PaneInv, Next
    PROVE  OneOpen'
<1>1. OneOpen
    BY DEF PaneInv
<1>2. CASE Start \/ Render \/ MoveFocus \/ DrillBackups \/ EditRetentionField \/ TypeQuery \/ CycleItem
    <2>1. open' = open /\ running'
        BY <1>2 DEF Start, Render, MoveFocus, DrillBackups, EditRetentionField, TypeQuery, CycleItem,
                    NormalMode, Handles, ui
    <2> QED
        BY <1>1, <2>1 DEF OneOpen
<1>3. CASE Quit \/ Crash
    <2>1. open' = {}
        BY <1>3, StopIs DEF Quit, Crash
    <2> QED
        BY <2>1 DEF OneOpen
<1>4. ASSUME NEW o \in Overlays, OpenOverlay(o)
      PROVE  OneOpen'
    <2>1. open' = {o} /\ running'
        BY <1>4 DEF OpenOverlay, Show, NormalMode, ui
    <2> QED
        BY <2>1 DEF OneOpen
<1>5. ASSUME \E o \in Overlays : Handles(o) /\ Close(o)
      PROVE  OneOpen'
    <2>1. open' = {}
        BY <1>1, <1>5, HandlesIs
    <2> QED
        BY <2>1 DEF OneOpen
<1>6. ASSUME NEW o \in Overlays, CloseModal(o)
      PROVE  OneOpen'
    BY <1>5, <1>6 DEF CloseModal
<1>7. CASE SaveRetention \/ CancelRetention
    <2>1. Handles("retention") /\ Close("retention")
        BY <1>7 DEF SaveRetention, CancelRetention
    <2> QED
        BY <1>5, <2>1, OverlaysAre
<1>8. CASE EndSearch
    <2>1. Handles("search") /\ Close("search")
        BY <1>8 DEF EndSearch
    <2> QED
        BY <1>5, <2>1, OverlaysAre
<1>9. CASE PickCharacter \/ CancelPicker
    <2>1. Handles("picker") /\ Close("picker")
        BY <1>9 DEF PickCharacter, CancelPicker
    <2> QED
        BY <1>5, <2>1, OverlaysAre
<1>10. CASE CloseConfig \/ SplitPane \/ RemovePane \/ ResetCharacterToAuto
    <2>1. Handles("config") /\ Close("config")
        BY <1>10 DEF CloseConfig, SplitPane, RemovePane, ResetCharacterToAuto
    <2> QED
        BY <1>5, <2>1, OverlaysAre
<1>11. CASE LeaveForModal
    <2>1. open = {"config"} /\ running'
        BY <1>1, <1>11, HandlesIs DEF LeaveForModal, ui
    <2>2. open' = {"time"} \/ open' = {"picker"}
        BY <1>11, <2>1 DEF LeaveForModal, Switch
    <2> QED
        BY <2>1, <2>2, OverlaysAre DEF OneOpen
<1> QED
    BY <1>2, <1>3, <1>4, <1>6, <1>7, <1>8, <1>9, <1>10, <1>11 DEF Next

\* While the list stays and its paths stay nodes, only the overlays count.
LEMMA ListKept ==
    ASSUME PaneInv, leaves' = leaves, focus' = focus, running',
           \A i \in DOMAIN leaves : leaves[i] \in DOMAIN tree',
           {"search", "config"} \cap open' # {} => HasFocus,
           "picker" \in open' => target' \in DOMAIN tree' /\ tree'[target'].cfg.type = "Character",
           "picker" \notin open' => target' = Root
    PROVE  Pointers'
BY DEF PaneInv, Pointers, HasFocus

LEMMA PointersKept ==
    ASSUME PaneInv, Next
    PROVE  Pointers'
<1>1. OneOpen /\ Pointers /\ IsTree(tree)
    BY DEF PaneInv, Values
<1>2. Relabels => \A i \in DOMAIN leaves : leaves[i] \in DOMAIN tree'
    BY <1>1 DEF Relabels, Pointers
<1>3. \A o \in {"help", "recovery", "retention", "search", "time", "config"} : open = {o} => target = Root
    BY <1>1 DEF Pointers
<1>4. open = {} => target = Root
    BY <1>1 DEF Pointers
<1>5. CASE Start
    <2>1. leaves' = <<>> /\ focus' = 1 /\ open' = {} /\ target' = Root /\ running'
        BY <1>1, <1>4, <1>5 DEF Start, Pointers, OneOpen, HasFocus
    <2>2. DOMAIN leaves' = {} /\ leaves' \in Seq(Paths)
        BY <2>1
    <2> QED
        BY <2>1, <2>2 DEF Pointers
<1>6. CASE Quit \/ Crash
    <2>1. leaves' = <<>> /\ focus' = 1 /\ open' = {} /\ target' = Root
        BY <1>6, StopIs DEF Quit, Crash
    <2>2. DOMAIN leaves' = {} /\ leaves' \in Seq(Paths)
        BY <2>1
    <2> QED
        BY <2>1, <2>2 DEF Pointers
<1>7. CASE Render
    <2>1. /\ leaves' \in Seq(Paths) /\ DOMAIN leaves' = 1..Len(leaves') /\ Len(leaves') \in Nat \ {0}
          /\ \A i \in DOMAIN leaves' : leaves'[i] \in DOMAIN tree'
          /\ \A i, j \in DOMAIN leaves' : IsPrefix(leaves'[i], leaves'[j]) => i = j
        BY <1>1, <1>7, FlattenedIs DEF Render
    <2>2. focus' \in DOMAIN leaves'
        BY <1>7, <2>1 DEF Render
    <2>3. focus' \in Nat
        BY <2>1, <2>2
    <2>4. tree' = tree /\ open' = open /\ target' = target /\ running'
        BY <1>7 DEF Render
    <2> QED
        BY <1>1, <2>1, <2>2, <2>3, <2>4 DEF Pointers, HasFocus
<1>8. CASE MoveFocus
    <2>1. Len(leaves) \in Nat \ {0} /\ DOMAIN leaves = 1..Len(leaves)
        <3>1. Len(leaves) \in Nat /\ DOMAIN leaves = 1..Len(leaves) /\ Len(leaves) # 0
            BY <1>1, <1>8, EmptySeq, LenProperties DEF MoveFocus, Pointers
        <3> QED
            BY <3>1
    <2>2. PICK step \in {1, -1} : focus' = ((focus - 1 + step) % Len(leaves)) + 1
        BY <1>8 DEF MoveFocus
    <2>3. (focus - 1 + step) % Len(leaves) \in 0..(Len(leaves) - 1)
        <3>1. focus - 1 + step \in Int
            BY <1>1 DEF Pointers
        <3> QED
            BY <2>1, <3>1, ModIs
    <2>4. focus' \in Nat /\ focus' \in DOMAIN leaves
        BY <2>1, <2>2, <2>3
    <2>5. leaves' = leaves /\ tree' = tree /\ open' = open /\ open = {} /\ target' = target /\ running'
        BY <1>8 DEF MoveFocus, NormalMode, ui
    <2> QED
        BY <1>1, <2>4, <2>5 DEF Pointers, HasFocus
<1>9. CASE DrillBackups
    <2>1. Relabels
        BY <1>9, RelabelsKept
    <2>2. open' = {} /\ target' = Root /\ leaves' = leaves /\ focus' = focus /\ running'
        BY <1>4, <1>9 DEF DrillBackups, NormalMode, ui
    <2> QED
        BY <1>2, <2>1, <2>2, ListKept
<1>10. ASSUME NEW o \in Overlays, OpenOverlay(o)
       PROVE  Pointers'
    <2>1. open' = {o} /\ target' = Root /\ leaves' = leaves /\ focus' = focus /\ running' /\ tree' = tree
        BY <1>4, <1>10 DEF OpenOverlay, Show, NormalMode, ui
    <2>2. o # "picker" /\ (o \in {"search", "config"} => HasFocus)
        BY <1>10 DEF OpenOverlay, OpensInNormalMode
    <2> QED
        BY <1>1, <2>1, <2>2, ListKept DEF Pointers
<1>11. ASSUME NEW o \in Overlays, Handles(o), Close(o), target' = Root, leaves' = leaves,
              focus' = focus, running' = running, Relabels
       PROVE  Pointers'
    <2>1. open' = {} /\ running'
        BY <1>1, <1>11, HandlesIs
    <2> QED
        BY <1>2, <1>11, <2>1, ListKept
<1>12. ASSUME NEW o \in Overlays, CloseModal(o)
       PROVE  Pointers'
    <2>1. Handles(o) /\ Close(o) /\ UNCHANGED <<running, tree, leaves, focus, target>>
          /\ o \in {"help", "recovery", "time"}
        BY <1>12 DEF CloseModal, ui
    <2>2. target = Root
        BY <1>1, <1>3, <2>1, HandlesIs
    <2>3. Relabels
        BY <2>1, RelabelsKept
    <2> QED
        BY <1>11, <2>1, <2>2, <2>3
<1>13. CASE EditRetentionField
    <2>1. open = {"retention"} /\ running
        BY <1>1, <1>13, HandlesIs DEF EditRetentionField
    <2> QED
        BY <1>1, <1>3, <1>13, <2>1, ListKept DEF EditRetentionField, ui, Pointers
<1>14. CASE SaveRetention \/ CancelRetention
    <2>1. Handles("retention") /\ Close("retention") /\ UNCHANGED <<running, tree, leaves, focus, target>>
        BY <1>14 DEF SaveRetention, CancelRetention, ui
    <2>2. target = Root
        BY <1>1, <1>3, <2>1, HandlesIs
    <2>3. Relabels
        BY <2>1, RelabelsKept
    <2> QED
        BY <1>11, <2>1, <2>2, <2>3, OverlaysAre
<1>15. CASE TypeQuery
    <2>1. open = {"search"} /\ running
        BY <1>1, <1>15, HandlesIs DEF TypeQuery
    <2>2. Relabels
        BY <1>15, RelabelsKept
    <2> QED
        BY <1>1, <1>2, <1>3, <1>15, <2>1, <2>2, ListKept DEF TypeQuery, ui
<1>16. CASE EndSearch
    <2>1. Handles("search") /\ Close("search") /\ UNCHANGED <<running, leaves, focus, target>>
        BY <1>16 DEF EndSearch, ui
    <2>2. target = Root
        BY <1>1, <1>3, <2>1, HandlesIs
    <2>3. Relabels
        BY <1>16, RelabelsKept
    <2> QED
        BY <1>11, <2>1, <2>2, <2>3, OverlaysAre
<1>17. CASE PickCharacter \/ CancelPicker
    <2>1. Handles("picker") /\ Close("picker") /\ target' = Root /\ UNCHANGED <<running, leaves, focus>>
        BY <1>17 DEF PickCharacter, CancelPicker, ui
    <2>2. Relabels
        BY <1>17, RelabelsKept DEF CancelPicker
    <2> QED
        BY <1>11, <2>1, <2>2, OverlaysAre
<1>18. CASE CycleItem
    <2>1. open = {"config"} /\ running /\ HasFocus
        BY <1>1, <1>18, HandlesIs DEF CycleItem
    <2>2. Relabels
        BY <1>18, RelabelsKept
    <2>3. leaves' = leaves /\ focus' = focus /\ running' = running /\ open' = open /\ target' = target
        BY <1>18 DEF CycleItem, ui
    <2> QED
        BY <1>2, <1>3, <2>1, <2>2, <2>3, ListKept
<1>19. CASE CloseConfig \/ ResetCharacterToAuto
    <2>1. Handles("config") /\ Close("config") /\ UNCHANGED <<running, leaves, focus, target>>
        BY <1>19 DEF CloseConfig, ResetCharacterToAuto, ui
    <2>2. target = Root
        BY <1>1, <1>3, <2>1, HandlesIs
    <2>3. Relabels
        BY <1>19, RelabelsKept
    <2> QED
        BY <1>11, <2>1, <2>2, <2>3, OverlaysAre
<1>20. CASE SplitPane
    <2>1. Handles("config") /\ Close("config") /\ HasFocus /\ UNCHANGED <<running, leaves, focus, target>>
        BY <1>20 DEF SplitPane, ui
    <2>2. open' = {} /\ running' /\ target = Root
        BY <1>1, <1>3, <2>1, HandlesIs
    <2>3. ASSUME NEW i \in DOMAIN leaves PROVE leaves[i] \in DOMAIN tree'
        <3>1. Focused \in DOMAIN tree'
              /\ \A q \in DOMAIN tree : ~ IsPrefix(Focused, q) => q \in DOMAIN tree'
            BY <1>20, SplitKept
        <3>2. CASE i = focus
            BY <3>1, <3>2 DEF Focused
        <3>3. CASE i # focus
            <4>1. ~ IsPrefix(Focused, leaves[i])
                BY <1>1, <2>1, <3>3 DEF Pointers, Focused, HasFocus
            <4> QED
                BY <1>1, <3>1, <4>1 DEF Pointers
        <3> QED
            BY <3>2, <3>3
    <2> QED
        BY <2>1, <2>2, <2>3, ListKept
<1>21. CASE RemovePane
    <2>1. Handles("config") /\ Close("config") /\ HasFocus /\ UNCHANGED <<running, target>>
        BY <1>21 DEF RemovePane, ui
    <2>2. open' = {} /\ target' = Root /\ running'
        BY <1>1, <1>3, <2>1, HandlesIs
    <2>3. IsTree(tree')
        BY <1>21, RemoveKept
    <2>4. /\ leaves' \in Seq(Paths) /\ DOMAIN leaves' = 1..Len(leaves') /\ Len(leaves') \in Nat \ {0}
          /\ \A i \in DOMAIN leaves' : leaves'[i] \in DOMAIN tree'
          /\ \A i, j \in DOMAIN leaves' : IsPrefix(leaves'[i], leaves'[j]) => i = j
        BY <1>21, <2>3, FlattenedIs DEF RemovePane
    <2>5. focus \in Nat \ {0}
        <3>1. DOMAIN leaves = 1..Len(leaves) /\ focus \in DOMAIN leaves
            BY <1>1, <2>1, LenProperties DEF Pointers, HasFocus
        <3> QED
            BY <1>1, <3>1 DEF Pointers
    <2>6. focus' \in DOMAIN leaves' /\ focus' \in Nat
        <3>1. focus' = IF focus > Len(leaves') THEN Len(leaves') ELSE focus
            BY <1>21 DEF RemovePane
        <3> QED
            BY <2>4, <2>5, <3>1
    <2> QED
        BY <2>2, <2>4, <2>6 DEF Pointers, HasFocus
<1>22. CASE LeaveForModal
    <2>1. /\ Handles("config") /\ HasFocus /\ UNCHANGED <<running, tree, leaves, focus>>
          /\ \/ Switch("config", "time") /\ target' = target
             \/ /\ tree[Focused].cfg.type = "Character"
                /\ Switch("config", "picker") /\ target' = Focused
        BY <1>22 DEF LeaveForModal, InMenu, ui
    <2>2. open = {"config"} /\ running /\ target = Root
        BY <1>1, <1>3, <2>1, HandlesIs
    <2>3. \/ open' = {"time"} /\ target' = Root
          \/ open' = {"picker"} /\ target' = Focused /\ tree[Focused].cfg.type = "Character"
        BY <2>1, <2>2 DEF Switch
    <2>4. Focused \in DOMAIN tree
        BY <1>1, <2>1, FocusedIs
    <2>5. \A i \in DOMAIN leaves : leaves[i] \in DOMAIN tree'
        BY <1>1, <2>1 DEF Pointers
    <2>6. {"search", "config"} \cap open' = {} /\ running'
        BY <2>1, <2>2, <2>3
    <2>7. /\ "picker" \in open' => target' \in DOMAIN tree' /\ tree'[target'].cfg.type = "Character"
          /\ "picker" \notin open' => target' = Root
        BY <2>1, <2>3, <2>4
    <2> QED
        BY <2>1, <2>5, <2>6, <2>7, ListKept
<1> QED
    BY <1>5, <1>6, <1>7, <1>8, <1>9, <1>10, <1>12, <1>13, <1>14, <1>15, <1>16, <1>17, <1>18, <1>19,
       <1>20, <1>21, <1>22 DEF Next

-----------------------------------------------------------------------------
(***************************************************************************)
(* Types, overlays and pointers                                            *)
(***************************************************************************)

LEMMA PaneInvKept == PaneInv /\ [Next]_vars => PaneInv'
<1> SUFFICES ASSUME PaneInv, [Next]_vars PROVE PaneInv'
    OBVIOUS
<1>1. CASE Next
    BY <1>1, ValuesKept, OneOpenKept, PointersKept DEF PaneInv
<1>2. CASE UNCHANGED vars
    BY <1>2 DEF vars, PaneInv, Values, OneOpen, Pointers, HasFocus
<1> QED
    BY <1>1, <1>2

\* Of two paths to the same place one continues the other.
LEMMA SamePlace ==
    ASSUME NEW p \in Paths, NEW q \in Paths, NEW r \in Paths, NEW s \in Paths, p \o r = q \o s
    PROVE  IsPrefix(p, q) \/ IsPrefix(q, p)
<1>1. /\ Len(p) \in Nat /\ Len(q) \in Nat
      /\ \A i \in 1..Len(p) : (p \o r)[i] = p[i]
      /\ \A i \in 1..Len(q) : (q \o s)[i] = q[i]
    BY PathConcat
<1>2. ASSUME NEW a \in Paths, NEW b \in Paths, Len(a) \in Nat, Len(b) \in Nat, Len(a) <= Len(b),
             \A i \in 1..Len(a) : a[i] = b[i]
      PROVE  IsPrefix(a, b)
    <2>1. \A i \in 1..Len(a) : a[i] \in Side /\ b[i] \in Side
        BY <1>2, ElementOfSeq DEF Paths
    <2>2. /\ SubSeq(a, 1, Len(a)) \in Paths /\ Len(SubSeq(a, 1, Len(a))) = Len(a)
          /\ \A i \in 1..Len(a) : SubSeq(a, 1, Len(a))[i] = a[i]
        BY <1>2, <2>1, SubSeqProperties DEF Paths
    <2>3. /\ SubSeq(b, 1, Len(a)) \in Paths /\ Len(SubSeq(b, 1, Len(a))) = Len(a)
          /\ \A i \in 1..Len(a) : SubSeq(b, 1, Len(a))[i] = b[i]
        BY <1>2, <2>1, SubSeqProperties DEF Paths
    <2>4. SubSeq(a, 1, Len(a)) = SubSeq(b, 1, Len(a))
        BY <1>2, <2>2, <2>3, SeqEqual DEF Paths
    <2> QED
        BY <1>2, <2>4 DEF IsPrefix
<1>3. CASE Len(p) <= Len(q)
    <2>1. \A i \in 1..Len(p) : p[i] = q[i]
        BY <1>1, <1>3
    <2> QED
        BY <1>1, <1>2, <1>3, <2>1
<1>4. CASE Len(q) <= Len(p)
    <2>1. \A i \in 1..Len(q) : q[i] = p[i]
        BY <1>1, <1>4
    <2> QED
        BY <1>1, <1>2, <1>4, <2>1
<1> QED
    BY <1>1, <1>3, <1>4

\* The list names at most as many panes as there are: each of its paths leads on to
\* a leaf of its own.
LEMMA ListIsNoLonger ==
    ASSUME PaneInv
    PROVE  Len(leaves) \in Nat /\ Len(leaves) <= Cardinality(Leaves(tree))
<1>1. Pointers /\ IsTree(tree)
    BY DEF PaneInv, Values
<1>2. Len(leaves) \in Nat /\ DOMAIN leaves = 1..Len(leaves)
      /\ \A i \in 1..Len(leaves) : leaves[i] \in Paths
    BY <1>1, LenProperties, ElementOfSeq DEF Pointers
<1> DEFINE Below(i) == {l \in Leaves(tree) : IsPrefix(leaves[i], l)}
           g == [i \in 1..Len(leaves) |-> CHOOSE l \in Below(i) : TRUE]
<1>3. Leaves(tree) \subseteq Paths /\ IsFiniteSet(Leaves(tree))
    BY <1>1, TreeIs, FlattenIs DEF Leaves
<1>4. ASSUME NEW i \in 1..Len(leaves)
      PROVE  g[i] \in Leaves(tree) /\ IsPrefix(leaves[i], g[i])
    <2>1. leaves[i] \in DOMAIN tree /\ leaves[i] \in Paths
        BY <1>1, <1>2 DEF Pointers
    <2>2. PICK r \in Paths : leaves[i] \o r \in Leaves(tree)
        BY <1>1, <2>1, LeafBelow
    <2>3. IsPrefix(leaves[i], leaves[i] \o r)
        BY <1>3, <2>1, <2>2, PrefixIs
    <2>4. leaves[i] \o r \in Below(i)
        BY <2>2, <2>3
    <2>5. (CHOOSE l \in Below(i) : TRUE) \in Below(i)
        BY <2>4
    <2> QED
        BY <2>5
<1> HIDE DEF g, Below
<1>5. ASSUME NEW i \in 1..Len(leaves), NEW j \in 1..Len(leaves), g[i] = g[j]
      PROVE  i = j
    <2>1. leaves[i] \in Paths /\ leaves[j] \in Paths /\ g[i] \in Paths
        BY <1>2, <1>3, <1>4
    <2>2. PICK r \in Paths : g[i] = leaves[i] \o r
        BY <1>4, <2>1, PrefixIs
    <2>3. PICK s \in Paths : g[i] = leaves[j] \o s
        BY <1>4, <1>5, <2>1, PrefixIs
    <2>4. IsPrefix(leaves[i], leaves[j]) \/ IsPrefix(leaves[j], leaves[i])
        BY <2>1, <2>2, <2>3, SamePlace
    <2> QED
        BY <1>1, <1>2, <2>4 DEF Pointers
<1>6. g \in [1..Len(leaves) -> Leaves(tree)]
    BY <1>4 DEF g
<1>7. g \in Injection(1..Len(leaves), Leaves(tree))
    BY <1>5, <1>6 DEF Injection, IsInjective
<1>8. IsFiniteSet(1..Len(leaves)) /\ Cardinality(1..Len(leaves)) = Len(leaves)
    BY <1>2, FS_Interval
<1> QED
    BY <1>2, <1>3, <1>7, <1>8, FS_Injection

LEMMA PaneInvTypeOK == PaneInv => TypeOK
<1> SUFFICES ASSUME PaneInv PROVE TypeOK
    OBVIOUS
<1>1. open \subseteq Overlays
    BY DEF PaneInv, OneOpen
<1>2. focus \in 1..Cardinality(Leaves(tree))
    <2>1. Cardinality(Leaves(tree)) \in Nat \ {0}
        BY FlattenIs DEF PaneInv, Values
    <2>2. CASE leaves = <<>> /\ focus = 1
        BY <2>1, <2>2
    <2>3. CASE HasFocus
        <3>1. focus \in 1..Len(leaves)
            BY <2>3, LenProperties DEF HasFocus, PaneInv, Pointers
        <3> QED
            BY <2>1, <3>1, ListIsNoLonger
    <2> QED
        BY <2>2, <2>3 DEF PaneInv, Pointers
<1> QED
    BY <1>1, <1>2 DEF TypeOK, PaneInv, Values

\* The values keep their types, whatever keys come between two frames: the tree and
\* the stored layout are trees (no split without two children, nothing below a
\* leaf), the policy is one that can be typed, and the focus is a pane's position.
THEOREM TypeCorrect == Spec => []TypeOK
<1>1. Spec => []PaneInv
    BY InitOk, PaneInvKept, PTL DEF Spec
<1> QED
    BY <1>1, PaneInvTypeOK, PTL

\* No sequence of keys opens two overlays.
THEOREM OneAtATime == Spec => []OneOverlay
<1>1. PaneInv => OneOverlay
    <2> SUFFICES ASSUME PaneInv PROVE OneOverlay
        OBVIOUS
    <2>1. CASE open = {}
        BY <2>1, FS_EmptySet DEF OneOverlay
    <2>2. CASE \E o \in Overlays : open = {o}
        BY <2>2, FS_Singleton DEF OneOverlay
    <2> QED
        BY <2>1, <2>2 DEF PaneInv, OneOpen
<1> QED
    BY <1>1, InitOk, PaneInvKept, PTL DEF Spec

\* No key follows a pointer to a pane that is gone.
THEOREM PointersStayAlive == Spec => []PointersAlive
<1>1. PaneInv => PointersAlive
    <2> SUFFICES ASSUME PaneInv PROVE PointersAlive
        OBVIOUS
    <2>1. Pointers /\ Root \in DOMAIN tree
        BY TreeIs DEF PaneInv, Values
    <2> QED
        BY <2>1 DEF Pointers, PointersAlive, ToSet
<1> QED
    BY <1>1, InitOk, PaneInvKept, PTL DEF Spec

-----------------------------------------------------------------------------
(***************************************************************************)
(* One pane per category                                                   *)
(***************************************************************************)

\* While the menu is open the pane it configures may be a second one; no others are.
SetAside == IF "config" \in open THEN {Focused} ELSE {}
SingleInv == running /\ clean => Distinct(tree, SetAside)

LEMMA SetAsideIs ==
    ASSUME PaneInv, NEW o, Handles(o), running /\ clean => Distinct(tree, SetAside)
    PROVE  /\ o # "config" /\ clean => Distinct(tree, {})
           /\ o = "config" /\ clean => Distinct(tree, {Focused})
BY HandlesIs DEF PaneInv, SetAside

LEMMA DistinctWhenClosed ==
    ASSUME NEW t, Distinct(t, {})
    PROVE  \A X : Distinct(t, X)
BY DEF Distinct

LEMMA SingleKept ==
    ASSUME PaneInv, SingleInv, [Next]_vars
    PROVE  SingleInv'
<1>1. OneOpen /\ Pointers /\ IsTree(tree) /\ Leaves(tree) \subseteq DOMAIN tree
    BY DEF PaneInv, Values, Leaves
<1>2. ASSUME open' = {}, clean' => Distinct(tree', {}) PROVE SingleInv'
    BY <1>2 DEF SingleInv, SetAside
<1>3. ASSUME "config" \notin open', clean' => Distinct(tree', {}) PROVE SingleInv'
    BY <1>3 DEF SingleInv, SetAside
<1>4. CASE UNCHANGED vars
    BY <1>4 DEF vars, SingleInv, SetAside, Focused
<1>5. CASE Start
    <2>1. open' = {}
        BY <1>1, <1>5 DEF Start, OneOpen
    <2>2. IsTree(tree')
        BY <1>5, ValuesKept DEF Values, Next
    <2>3. clean' => Distinct(tree', {})
        BY <1>5, <2>2, NoDuplicatesIs DEF Start
    <2> QED
        BY <1>2, <2>1, <2>3
<1>6. CASE Quit \/ Crash
    <2>1. running' = FALSE
        BY <1>6, StopIs DEF Quit, Crash
    <2> QED
        BY <2>1 DEF SingleInv
<1>7. CASE Render
    <2>1. /\ running /\ open' = open /\ tree' = tree
          /\ clean' = (clean /\ ("config" \in open => leaves'[focus'] = Focused))
        BY <1>7 DEF Render
    <2> QED
        BY <2>1 DEF SingleInv, SetAside, Focused
<1>8. CASE MoveFocus
    <2>1. open = {} /\ running /\ open' = open /\ tree' = tree /\ clean' = clean
        BY <1>8 DEF MoveFocus, NormalMode, ui
    <2> QED
        BY <1>2, <2>1 DEF SingleInv, SetAside
<1>9. ASSUME NEW p \in DOMAIN tree, NEW c \in PaneConfig, tree' = SetConfig(tree, p, c), NEW X,
             Distinct(tree, X), p \in X \/ (c.type = tree[p].cfg.type /\ c.category = tree[p].cfg.category)
      PROVE  Distinct(tree', X)
    BY <1>1, <1>9, DistinctAfterConfig
<1>10. ASSUME NEW p \in DOMAIN tree, NEW X, Distinct(tree, X)
       PROVE  /\ \A v \in {"Summary", "Detail"} :
                    tree' = [tree EXCEPT ![p].cfg.view = v] => Distinct(tree', X)
              /\ \A v \in BOOLEAN : tree' = [tree EXCEPT ![p].cfg.query = v] => Distinct(tree', X)
              /\ \A v \in Characters \cup {""} :
                    tree' = [tree EXCEPT ![p].cfg.character = v] => Distinct(tree', X)
    <2>1. tree[p].cfg \in PaneConfig
        BY <1>1, NodeFields
    <2>2. ASSUME NEW v \in {"Summary", "Detail"}, tree' = [tree EXCEPT ![p].cfg.view = v]
          PROVE  Distinct(tree', X)
        <3>1. PICK c \in PaneConfig : c = [tree[p].cfg EXCEPT !.view = v]
            BY <1>1, FieldIs
        <3>2. tree' = SetConfig(tree, p, c)
            BY <2>2, <3>1 DEF SetConfig
        <3>3. c.type = tree[p].cfg.type /\ c.category = tree[p].cfg.category
            BY <2>1, <3>1 DEF PaneConfig
        <3> QED
            BY <1>9, <1>10, <3>2, <3>3
    <2>3. ASSUME NEW v \in BOOLEAN, tree' = [tree EXCEPT ![p].cfg.query = v]
          PROVE  Distinct(tree', X)
        <3>1. PICK c \in PaneConfig : c = [tree[p].cfg EXCEPT !.query = v]
            BY <1>1, FieldIs
        <3>2. tree' = SetConfig(tree, p, c)
            BY <2>3, <3>1 DEF SetConfig
        <3>3. c.type = tree[p].cfg.type /\ c.category = tree[p].cfg.category
            BY <2>1, <3>1 DEF PaneConfig
        <3> QED
            BY <1>9, <1>10, <3>2, <3>3
    <2>4. ASSUME NEW v \in Characters \cup {""}, tree' = [tree EXCEPT ![p].cfg.character = v]
          PROVE  Distinct(tree', X)
        <3>1. PICK c \in PaneConfig : c = [tree[p].cfg EXCEPT !.character = v]
            BY <1>1, FieldIs
        <3>2. tree' = SetConfig(tree, p, c)
            BY <2>4, <3>1 DEF SetConfig
        <3>3. c.type = tree[p].cfg.type /\ c.category = tree[p].cfg.category
            BY <2>1, <3>1 DEF PaneConfig
        <3> QED
            BY <1>9, <1>10, <3>2, <3>3
    <2> QED
        BY <2>2, <2>3, <2>4
<1>11. CASE DrillBackups
    <2>1. Focused \in DOMAIN tree
        BY <1>1, <1>11, FocusedIs DEF DrillBackups
    <2>2. PICK v \in {"Summary", "Detail"} : tree' = [tree EXCEPT ![Focused].cfg.view = v]
        <3>1. CASE tree[Focused].cfg.view = "Summary"
            BY <1>11, <3>1 DEF DrillBackups
        <3>2. CASE tree[Focused].cfg.view # "Summary"
            BY <1>11, <3>2 DEF DrillBackups
        <3> QED
            BY <3>1, <3>2
    <2>3. open = {} /\ open' = {} /\ clean' = clean /\ running
        BY <1>11 DEF DrillBackups, NormalMode, ui
    <2>4. clean => Distinct(tree, {})
        BY <2>3 DEF SingleInv, SetAside
    <2> QED
        BY <1>2, <1>10, <2>1, <2>2, <2>3, <2>4
<1>12. ASSUME NEW o \in Overlays, OpenOverlay(o)
       PROVE  SingleInv'
    <2>1. open = {} /\ running /\ clean' = clean /\ tree' = tree
        BY <1>12 DEF OpenOverlay, NormalMode, ui
    <2>2. clean => Distinct(tree, {})
        BY <2>1 DEF SingleInv, SetAside
    <2> QED
        BY <2>1, <2>2, DistinctWhenClosed DEF SingleInv
<1>13. ASSUME NEW o, Handles(o), o # "config", open' \subseteq open, clean' = clean,
              clean /\ Distinct(tree, {}) => Distinct(tree', {})
       PROVE  SingleInv'
    <2>1. clean => Distinct(tree, {})
        BY <1>13, SetAsideIs DEF SingleInv
    <2>2. open = {o}
        BY <1>1, <1>13, HandlesIs
    <2> QED
        BY <1>3, <1>13, <2>1, <2>2
<1>14. ASSUME NEW o \in Overlays, CloseModal(o)
       PROVE  SingleInv'
    BY <1>13, <1>14 DEF CloseModal, Close, ui
<1>15. CASE EditRetentionField
    BY <1>13, <1>15 DEF EditRetentionField, ui
<1>16. CASE SaveRetention \/ CancelRetention
    BY <1>13, <1>16 DEF SaveRetention, CancelRetention, Close, ui
<1>17. CASE TypeQuery
    <2>1. Focused \in DOMAIN tree
        BY <1>1, <1>17, FocusedIs DEF TypeQuery
    <2>2. PICK v \in BOOLEAN : tree' = [tree EXCEPT ![Focused].cfg.query = v]
        BY <1>17 DEF TypeQuery
    <2> QED
        BY <1>10, <1>13, <1>17, <2>1, <2>2 DEF TypeQuery, ui
<1>18. CASE EndSearch
    <2>1. Distinct(tree, {}) => Distinct(tree', {})
        <3>1. CASE HasFocus
            <4>1. Focused \in DOMAIN tree
                BY <1>1, <3>1, FocusedIs
            <4>2. tree' = tree \/ tree' = [tree EXCEPT ![Focused].cfg.query = FALSE]
                BY <1>18, <3>1 DEF EndSearch
            <4> QED
                BY <1>10, <4>1, <4>2
        <3>2. CASE ~ HasFocus
            BY <1>18, <3>2 DEF EndSearch
        <3> QED
            BY <3>1, <3>2
    <2> QED
        BY <1>13, <1>18, <2>1 DEF EndSearch, Close, ui
<1>19. CASE PickCharacter
    <2>1. target \in DOMAIN tree
        BY <1>1, <1>19 DEF PickCharacter, Handles, Pointers
    <2>2. PICK v \in Characters \cup {""} : tree' = [tree EXCEPT ![target].cfg.character = v]
        BY <1>19 DEF PickCharacter
    <2> QED
        BY <1>10, <1>13, <1>19, <2>1, <2>2 DEF PickCharacter, Close, ui
<1>20. CASE CancelPicker
    BY <1>13, <1>20 DEF CancelPicker, Close, ui
<1>21. ASSUME Handles("config"), HasFocus, clean' = clean
       PROVE  /\ clean => Distinct(tree, {Focused})
              /\ Focused \in DOMAIN tree
              /\ open = {"config"}
              /\ Close("config") => open' = {}
    BY <1>1, <1>21, SetAsideIs, FocusedIs, HandlesIs DEF SingleInv
<1>22. CASE CycleItem
    <2>1. Handles("config") /\ HasFocus /\ clean' = clean /\ UNCHANGED <<open, leaves, focus>>
        BY <1>22 DEF CycleItem, ui
    <2>2. PICK c \in PaneConfig : tree' = SetConfig(tree, Focused, c)
        BY <1>22, CycleItemIs
    <2>3. clean => Distinct(tree', {Focused})
        BY <1>9, <1>21, <2>1, <2>2
    <2> QED
        BY <1>21, <2>1, <2>3 DEF SingleInv, SetAside, Focused
<1>23. CASE CloseConfig
    <2>1. Handles("config") /\ HasFocus /\ clean' = clean /\ Close("config")
          /\ tree' = ApplySingletons(tree, Focused)
        BY <1>23 DEF CloseConfig, ui
    <2>2. clean => Distinct(tree', {})
        <3>1. /\ Leaves(tree') = Leaves(tree)
              /\ \A q \in Leaves(tree) \ {Focused} : ~ Clash(tree'[Focused].cfg, tree'[q].cfg)
              /\ Distinct(tree, {Focused}) => Distinct(tree', {Focused})
            BY <1>1, <1>21, <2>1, ApplySingletonsIs
        <3> QED
            BY <1>21, <2>1, <3>1, DistinctAlone
    <2> QED
        BY <1>2, <1>21, <2>1, <2>2
<1>24. CASE SplitPane
    <2> DEFINE t == ApplySingletons(tree, Focused)
    <2>1. Handles("config") /\ HasFocus /\ clean' = clean /\ Close("config")
        BY <1>24 DEF SplitPane, ui
    <2>2. PICK dir \in Directions : tree' = SplitLeaf(t, Focused, dir)
        BY <1>24 DEF SplitPane, Directions
    <2>3. /\ IsTree(t) /\ Focused \in DOMAIN t
          /\ \A q \in Leaves(t) \ {Focused} : ~ Clash(t[Focused].cfg, t[q].cfg)
          /\ Distinct(tree, {Focused}) => Distinct(t, {Focused})
        BY <1>1, <1>21, <2>1, ApplySingletonsIs
    <2> HIDE DEF t
    <2>4. clean => Distinct(tree', {})
        BY <1>21, <2>1, <2>2, <2>3, DistinctAfterSplit
    <2> QED
        BY <1>2, <1>21, <2>1, <2>4
<1>25. CASE RemovePane
    <2>1. Handles("config") /\ HasFocus /\ clean' = clean /\ Close("config")
          /\ tree' = DeletePane(tree, Focused) /\ Focused # Root
        BY <1>25 DEF RemovePane, InMenu, HasParent, ui
    <2>2. clean => Distinct(tree', {})
        BY <1>1, <1>21, <2>1, DistinctAfterDelete
    <2> QED
        BY <1>2, <1>21, <2>1, <2>2
<1>26. ASSUME Handles("config"), HasFocus, clean' = clean,
              tree[Focused].cfg.type \in {"Session", "SessionLoot", "Character"}
       PROVE  clean => Distinct(tree, {})
    <2>1. \A q \in Leaves(tree) \ {Focused} : ~ Clash(tree[Focused].cfg, tree[q].cfg)
        BY <1>26 DEF Clash
    <2> QED
        BY <1>21, <1>26, <2>1, DistinctAlone
<1>27. CASE LeaveForModal
    <2>1. /\ Handles("config") /\ HasFocus /\ clean' = clean /\ tree' = tree
          /\ tree[Focused].cfg.type \in {"Session", "SessionLoot", "Character"}
          /\ Switch("config", "time") \/ Switch("config", "picker")
        BY <1>27 DEF LeaveForModal, InMenu, ui
    <2>2. "config" \notin open'
        BY <2>1 DEF Switch
    <2> QED
        BY <1>3, <1>26, <2>1, <2>2
<1>28. CASE ResetCharacterToAuto
    <2>1. /\ Handles("config") /\ HasFocus /\ clean' = clean /\ Close("config")
          /\ tree[Focused].cfg.type = "Character"
          /\ tree' = [tree EXCEPT ![Focused].cfg.character = ""]
        BY <1>28 DEF ResetCharacterToAuto, InMenu, ui
    <2>2. "" \in Characters \cup {""}
        OBVIOUS
    <2>3. clean => Distinct(tree', {})
        BY <1>10, <1>21, <1>26, <2>1, <2>2
    <2> QED
        BY <1>2, <1>21, <2>1, <2>3
<1> QED
    BY <1>4, <1>5, <1>6, <1>7, <1>8, <1>11, <1>12, <1>14, <1>15, <1>16, <1>17, <1>18, <1>19, <1>20,
       <1>22, <1>23, <1>24, <1>25, <1>27, <1>28 DEF Next

\* Whatever the keys, and however many of them between two frames: once the menu is
\* closed no category has two panes and the inventory has one, unless the layout was
\* stored with a pane twice or a frame moved the open menu to another pane.
THEOREM NoPaneTwice == Spec => []SingletonPanes
<1>1. Init => SingleInv
    BY DEF Init, SingleInv
<1>2. PaneInv /\ SingleInv /\ [Next]_vars => SingleInv'
    BY SingleKept
<1>3. PaneInv /\ SingleInv => SingletonPanes
    <2> SUFFICES ASSUME PaneInv, SingleInv, running, clean, "config" \notin open PROVE NoDuplicates(tree)
        BY DEF SingletonPanes
    <2> QED
        BY NoDuplicatesIs DEF SingleInv, SetAside, PaneInv, Values
<1> QED
    BY <1>1, <1>2, <1>3, InitOk, PaneInvKept, PTL DEF Spec

-----------------------------------------------------------------------------
(***************************************************************************)
(* What a crash leaves                                                     *)
(***************************************************************************)

LEMMA SameLayoutIsReflexive ==
    ASSUME NEW t
    PROVE  SameLayout(t, t)
BY DEF SameLayout

\* Drilling into a Backups pane does not count as a change of the layout.
LEMMA DrillKeepsLooks ==
    ASSUME NEW t, IsTree(t), NEW p \in DOMAIN t, NEW v \in {"Summary", "Detail"}
    PROVE  LET u == SetConfig(t, p, [t[p].cfg EXCEPT !.view = v])
           IN  /\ \A s : SameLayout(s, t) => SameLayout(s, u)
               /\ TreeHasTopRowPane(u) => TreeHasTopRowPane(t)
<1>1. PICK c \in PaneConfig : c = [t[p].cfg EXCEPT !.view = v]
    BY FieldIs
<1> DEFINE u == SetConfig(t, p, c)
<1>2. /\ DOMAIN u = DOMAIN t /\ Leaves(u) = Leaves(t) /\ u[p].cfg = c
      /\ \A q \in DOMAIN t : u[q].split = t[q].split /\ u[q].dir = t[q].dir
      /\ \A q \in DOMAIN t \ {p} : u[q] = t[q]
    BY SetConfigIs
<1>3. Looks(c) = Looks(t[p].cfg) /\ c.type = t[p].cfg.type
    <2>1. PICK d \in PaneConfig : d = t[p].cfg
        BY NodeFields
    <2>2. /\ c.type = d.type /\ c.weight = d.weight /\ c.category = d.category /\ c.sort = d.sort
          /\ c.character = d.character /\ c.query = d.query
        BY <1>1, <2>1 DEF PaneConfig
    <2> QED
        BY <2>1, <2>2 DEF Looks
<1> HIDE DEF u
<1>4. \A q \in DOMAIN t : Looks(u[q].cfg) = Looks(t[q].cfg) /\ u[q].cfg.type = t[q].cfg.type
    BY <1>2, <1>3
<1>5. ASSUME NEW s, SameLayout(s, t) PROVE SameLayout(s, u)
    BY <1>2, <1>4, <1>5 DEF SameLayout
<1>6. TreeHasTopRowPane(u) => TreeHasTopRowPane(t)
    BY <1>2, <1>4 DEF TreeHasTopRowPane, Leaves
<1> QED
    BY <1>1, <1>5, <1>6 DEF u

LEMMA PersistSurvives ==
    ASSUME IsTree(tree'), PersistLayout(tree'), hasDb
    PROVE  LayoutSurvives'
<1>1. CASE layoutRow' = ToJson(tree')
    BY <1>1, StoredIsLoaded DEF LayoutSurvives
<1>2. CASE lost' = lost \cup {"layout"}
    BY <1>2 DEF LayoutSurvives
<1> QED
    BY <1>1, <1>2 DEF PersistLayout

LEMMA SurviveKept ==
    ASSUME PaneInv, SettingsSurvive, [Next]_vars
    PROVE  SettingsSurvive'
<1>1. OneOpen /\ Pointers /\ Values
    BY DEF PaneInv
<1>2. ASSUME running /\ hasDb => LayoutSurvives /\ PolicySurvives,
             UNCHANGED <<running, hasDb, policy, policyRow>>,
             "policy" \in lost => "policy" \in lost',
             running /\ hasDb => LayoutSurvives'
      PROVE  SettingsSurvive'
    BY <1>2 DEF SettingsSurvive, PolicySurvives
<1>3. ASSUME UNCHANGED <<running, hasDb, policy, policyRow, tree, layoutRow, lost>>,
             {"config", "search"} \cap open \subseteq open'
      PROVE  SettingsSurvive'
    <2>1. LayoutSurvives => LayoutSurvives'
        <3>1. {"config", "search"} \cap open' = {} => {"config", "search"} \cap open = {}
            BY <1>3
        <3>2. open \cap {"config", "search"} = {"config", "search"} \cap open
              /\ open' \cap {"config", "search"} = {"config", "search"} \cap open'
            OBVIOUS
        <3> QED
            BY <1>3, <3>1, <3>2 DEF LayoutSurvives
    <2> QED
        BY <1>2, <1>3, <2>1 DEF SettingsSurvive
<1>4. ASSUME UNCHANGED <<running, hasDb, policy, policyRow>>, IsTree(tree'), PersistLayout(tree')
      PROVE  SettingsSurvive'
    <2>1. "policy" \in lost => "policy" \in lost'
        BY <1>4 DEF PersistLayout
    <2>2. running /\ hasDb => LayoutSurvives'
        BY <1>4, PersistSurvives
    <2> QED
        BY <1>2, <1>4, <2>1, <2>2 DEF SettingsSurvive
<1>5. CASE UNCHANGED vars
    BY <1>3, <1>5 DEF vars
<1>6. CASE Start
    <2>1. hasDb' => /\ "policy" \notin lost' => policy' = policyRow'
                    /\ "layout" \notin lost' => tree' = LoadPaneTree(layoutRow', TRUE)
        BY <1>6 DEF Start, LoadBackupRetention
    <2> QED
        BY <2>1, SameLayoutIsReflexive DEF SettingsSurvive, LayoutSurvives, PolicySurvives
<1>7. CASE Quit \/ Crash
    <2>1. running' = FALSE
        BY <1>7, StopIs DEF Quit, Crash
    <2> QED
        BY <2>1 DEF SettingsSurvive
<1>8. CASE Render \/ MoveFocus \/ EditRetentionField
    BY <1>3, <1>8 DEF Render, MoveFocus, EditRetentionField, ui
<1>9. CASE DrillBackups
    <2>1. Focused \in DOMAIN tree
        BY <1>1, <1>9, FocusedIs DEF DrillBackups
    <2>2. PICK v \in {"Summary", "Detail"} : tree' = [tree EXCEPT ![Focused].cfg.view = v]
        <3>1. CASE tree[Focused].cfg.view = "Summary"
            BY <1>9, <3>1 DEF DrillBackups
        <3>2. CASE tree[Focused].cfg.view # "Summary"
            BY <1>9, <3>2 DEF DrillBackups
        <3> QED
            BY <3>1, <3>2
    <2>3. tree' = SetConfig(tree, Focused, [tree[Focused].cfg EXCEPT !.view = v])
        BY <2>2 DEF SetConfig
    <2>4. /\ \A s : SameLayout(s, tree) => SameLayout(s, tree')
          /\ TreeHasTopRowPane(tree') => TreeHasTopRowPane(tree)
        BY <1>1, <2>1, <2>3, DrillKeepsLooks DEF Values
    <2>5. UNCHANGED <<running, hasDb, policy, policyRow, open, layoutRow, lost>>
        BY <1>9 DEF DrillBackups, ui
    <2>6. LayoutSurvives => LayoutSurvives'
        BY <2>4, <2>5 DEF LayoutSurvives
    <2> QED
        BY <1>2, <2>5, <2>6 DEF SettingsSurvive
<1>10. ASSUME NEW o \in Overlays, OpenOverlay(o)
       PROVE  SettingsSurvive'
    <2>1. open = {} /\ UNCHANGED <<running, hasDb, policy, policyRow, tree, layoutRow, lost>>
        BY <1>10 DEF OpenOverlay, NormalMode, ui
    <2> QED
        BY <1>3, <2>1
<1>11. ASSUME NEW o \in Overlays, CloseModal(o)
       PROVE  SettingsSurvive'
    BY <1>3, <1>11 DEF CloseModal, Close, ui
<1>12. CASE SaveRetention
    <2>1. UNCHANGED <<running, hasDb, tree, layoutRow>> /\ open' = open \ {"retention"}
        BY <1>12 DEF SaveRetention, Close
    <2>2. hasDb => PolicySurvives' /\ ("layout" \in lost => "layout" \in lost')
        BY <1>12 DEF SaveRetention, PolicySurvives
    <2>3. {"config", "search"} \cap open' = {} => {"config", "search"} \cap open = {}
        BY <2>1
    <2>4. open \cap {"config", "search"} = {"config", "search"} \cap open
          /\ open' \cap {"config", "search"} = {"config", "search"} \cap open'
        OBVIOUS
    <2>5. hasDb /\ LayoutSurvives => LayoutSurvives'
        BY <2>1, <2>2, <2>3, <2>4 DEF LayoutSurvives
    <2> QED
        BY <2>1, <2>2, <2>5 DEF SettingsSurvive
<1>13. CASE CancelRetention \/ CancelPicker
    BY <1>3, <1>13 DEF CancelRetention, CancelPicker, Close, ui
<1>14. CASE TypeQuery
    <2>1. open' = {"search"} /\ UNCHANGED <<running, hasDb, policy, policyRow, lost>>
        BY <1>1, <1>14, HandlesIs DEF TypeQuery, ui
    <2>2. LayoutSurvives'
        BY <2>1 DEF LayoutSurvives
    <2> QED
        BY <1>2, <2>1, <2>2 DEF SettingsSurvive
<1>15. CASE EndSearch \/ PickCharacter \/ CycleItem \/ CloseConfig \/ ResetCharacterToAuto
    <2>1. IsTree(tree')
        BY <1>15, RelabelsKept DEF Relabels
    <2>2. EndSearch => HasFocus
        BY <1>1, HandlesIs DEF EndSearch, Pointers
    <2>3. PersistLayout(tree') /\ UNCHANGED <<running, hasDb, policy, policyRow>>
        <3>1. CASE EndSearch
            BY <2>2, <3>1 DEF EndSearch, ui
        <3>2. CASE PickCharacter \/ CycleItem
            BY <3>2 DEF PickCharacter, CycleItem, ui
        <3>3. CASE CloseConfig \/ ResetCharacterToAuto
            BY <3>3 DEF CloseConfig, ResetCharacterToAuto, ui
        <3> QED
            BY <1>15, <3>1, <3>2, <3>3
    <2> QED
        BY <1>4, <2>1, <2>3
<1>16. CASE SplitPane
    <2>1. IsTree(tree')
        BY <1>16, SplitKept
    <2> QED
        BY <1>4, <1>16, <2>1 DEF SplitPane, ui
<1>17. CASE RemovePane
    <2>1. IsTree(tree')
        BY <1>17, RemoveKept
    <2> QED
        BY <1>4, <1>17, <2>1 DEF RemovePane, ui
<1>18. CASE LeaveForModal
    <2>1. tree' = tree /\ PersistLayout(tree) /\ UNCHANGED <<running, hasDb, policy, policyRow>>
        BY <1>18 DEF LeaveForModal, ui
    <2>2. PersistLayout(tree')
        BY <2>1
    <2> QED
        BY <1>1, <1>4, <2>1, <2>2 DEF Values
<1> QED
    BY <1>5, <1>6, <1>7, <1>8, <1>9, <1>10, <1>11, <1>12, <1>13, <1>14, <1>15, <1>16, <1>17, <1>18
    DEF Next

\* A crash at any moment costs nothing the user has finished doing, as long as the last
\* read or write of that table went through: what a start that can read it loads looks
\* like what was on the screen, for every layout and every policy.
THEOREM NothingIsLost == Spec => []SettingsSurvive
<1>1. Init => SettingsSurvive
    BY DEF Init, SettingsSurvive
<1>2. PaneInv /\ SettingsSurvive /\ [Next]_vars => SettingsSurvive'
    BY SurviveKept
<1> QED
    BY <1>1, <1>2, InitOk, PaneInvKept, PTL DEF Spec

-----------------------------------------------------------------------------
(***************************************************************************)
(* Induction on a tree                                                     *)
(***************************************************************************)
\* The nodes at or below q.
Under(t, q) == {s \in DOMAIN t : \E r \in Paths : s = q \o r}

\* The two nodes below a split.
LEMMA ChildrenAre ==
    ASSUME NEW t, IsTree(t), NEW p \in DOMAIN t, t[p].split
    PROVE  LET a == p \o <<1>>
               b == p \o <<2>>
           IN  /\ a \in DOMAIN t /\ b \in DOMAIN t /\ a # b /\ p # a /\ p # b
               /\ Front(a) = p /\ Front(b) = p /\ a # Root /\ b # Root
               /\ Under(t, p) = {p} \cup Under(t, a) \cup Under(t, b)
               /\ Under(t, a) \cap Under(t, b) = {}
               /\ p \notin Under(t, a) /\ p \notin Under(t, b)
<1> DEFINE a == p \o <<1>>
           b == p \o <<2>>
<1>1. p \in Paths /\ DOMAIN t \subseteq Paths /\ Shape(t) /\ 1 \in Side /\ 2 \in Side
    BY TreeIs DEF Side
<1>2. a \in DOMAIN t /\ b \in DOMAIN t
    BY <1>1 DEF Shape
<1>3. /\ Front(a) = p /\ Last(a) = 1 /\ a # Root
      /\ Front(b) = p /\ Last(b) = 2 /\ b # Root
    BY <1>1, LastStep
<1>4. \A r \in Paths : a \o r = p \o (<<1>> \o r) /\ <<1>> \o r \in Paths
                       /\ b \o r = p \o (<<2>> \o r) /\ <<2>> \o r \in Paths
    BY <1>1, StepInto
<1>5. \A r, s \in Paths : <<1>> \o r # <<2>> \o s /\ <<1>> \o r # Root /\ <<2>> \o r # Root
    <2>1. \A r \in Paths : /\ (<<1>> \o r)[1] = 1 /\ <<1>> \o r # Root
                           /\ (<<2>> \o r)[1] = 2 /\ <<2>> \o r # Root
        BY <1>1, FirstStep
    <2>2. \A r, s \in Paths : (<<1>> \o r)[1] # (<<2>> \o s)[1]
        BY <2>1
    <2> QED
        BY <2>1, <2>2
<1>6. ASSUME NEW r \in Paths, p \o r \in DOMAIN t
      PROVE  p \o r \in {p} \cup Under(t, a) \cup Under(t, b)
    <2>1. CASE r = Root
        BY <1>1, <2>1, PathAlgebra
    <2>2. CASE r # Root
        <3>1. PICK q \in Paths, x \in Side : r = <<x>> \o q
            BY <2>2, Steps
        <3>2. CASE x = 1
            <4>1. p \o r = a \o q
                BY <1>4, <3>1, <3>2
            <4> QED
                BY <1>6, <4>1 DEF Under
        <3>3. CASE x = 2
            <4>1. p \o r = b \o q
                BY <1>4, <3>1, <3>3
            <4> QED
                BY <1>6, <4>1 DEF Under
        <3> QED
            BY <3>1, <3>2, <3>3 DEF Side
    <2> QED
        BY <2>1, <2>2
<1>7. Under(t, p) \subseteq {p} \cup Under(t, a) \cup Under(t, b)
    <2> HIDE DEF a, b
    <2> QED
        BY <1>6 DEF Under
<1>8. {p} \cup Under(t, a) \cup Under(t, b) \subseteq Under(t, p)
    <2>1. p \in Under(t, p)
        BY <1>1, PathAlgebra DEF Under
    <2> HIDE DEF a, b
    <2>2. ASSUME NEW s \in Under(t, a) \cup Under(t, b) PROVE s \in Under(t, p)
        <3>1. PICK r \in Paths : s = a \o r \/ s = b \o r
            BY DEF Under
        <3>2. s \in DOMAIN t
            BY DEF Under
        <3>4. CASE s = a \o r
            <4>1. s = p \o (<<1>> \o r) /\ <<1>> \o r \in Paths
                BY <1>4, <3>4
            <4> QED
                BY <3>2, <4>1 DEF Under
        <3>5. CASE s = b \o r
            <4>1. s = p \o (<<2>> \o r) /\ <<2>> \o r \in Paths
                BY <1>4, <3>5
            <4> QED
                BY <3>2, <4>1 DEF Under
        <3> QED
            BY <3>1, <3>4, <3>5
    <2> QED
        BY <2>1, <2>2
<1>9. Under(t, a) \cap Under(t, b) = {}
    <2> SUFFICES ASSUME NEW r \in Paths, NEW s \in Paths, a \o r = b \o s PROVE FALSE
        BY DEF Under
    <2>1. PICK u \in Paths : u = <<1>> \o r
        BY <1>4
    <2>2. PICK v \in Paths : v = <<2>> \o s
        BY <1>4
    <2>3. p \o u = p \o v
        BY <1>4, <2>1, <2>2
    <2>4. u = v
        <3>1. p \in Paths
            BY <1>1
        <3> HIDE DEF a, b
        <3> QED
            BY <2>3, <3>1, ConcatSimplifications DEF Paths
    <2> QED
        BY <1>5, <2>1, <2>2, <2>4
<1>10. p \notin Under(t, a) /\ p \notin Under(t, b)
    <2> SUFFICES ASSUME NEW r \in Paths, p = a \o r \/ p = b \o r PROVE FALSE
        BY DEF Under
    <2>1. PICK u \in Paths : p = p \o u /\ u # Root
        BY <1>4, <1>5
    <2> QED
        BY <1>1, <2>1, PathAlgebra
<1>11. a # b /\ p # a /\ p # b
    <2>1. a \in Under(t, a) /\ b \in Under(t, b)
        BY <1>1, <1>2, PathAlgebra DEF Under
    <2> HIDE DEF a, b
    <2> QED
        BY <1>9, <1>10, <2>1
<1> HIDE DEF a, b
<1>12. Under(t, p) = {p} \cup Under(t, a) \cup Under(t, b)
    BY <1>7, <1>8
<1> QED
    BY <1>2, <1>3, <1>9, <1>10, <1>11, <1>12 DEF a, b

\* What is below a node is a finite part of the tree, and a leaf has nothing below it.
LEMMA UnderIs ==
    ASSUME NEW t, IsTree(t), NEW p \in DOMAIN t
    PROVE  /\ p \in Under(t, p) /\ Under(t, p) \subseteq DOMAIN t
           /\ IsFiniteSet(Under(t, p)) /\ Cardinality(Under(t, p)) \in Nat
           /\ ~ t[p].split => Under(t, p) = {p}
<1>1. p \in Paths /\ DOMAIN t \subseteq Paths /\ IsFiniteSet(DOMAIN t)
    BY TreeIs
<1>2. p \in Under(t, p) /\ Under(t, p) \in SUBSET DOMAIN t
    BY <1>1, PathAlgebra DEF Under
<1>3. ASSUME ~ t[p].split PROVE Under(t, p) = {p}
    <2>1. p \in Leaves(t)
        BY <1>3 DEF Leaves
    <2>2. \A r \in Paths : p \o r \in DOMAIN t => r = Root
        BY <2>1, LeafEnds
    <2>3. p \o Root = p
        BY <1>1, PathAlgebra
    <2> QED
        BY <1>2, <2>2, <2>3 DEF Under
<1> QED
    BY <1>1, <1>2, <1>3, FS_Subset, FS_CardinalityType

\* Both nodes below a split are in W.
BothIn(W, p) == p \o <<1>> \in W /\ p \o <<2>> \in W

\* What holds of a node if it holds of those below it holds of every node.
LEMMA FromTheLeaves ==
    ASSUME NEW t, IsTree(t), NEW W \in SUBSET DOMAIN t,
           \A p \in DOMAIN t : (t[p].split => BothIn(W, p)) => p \in W
    PROVE  W = DOMAIN t
<1> SUFFICES ASSUME DOMAIN t \ W # {} PROVE FALSE
    OBVIOUS
<1> DEFINE S == {Cardinality(Under(t, q)) : q \in DOMAIN t \ W}
<1>1. PICK m \in S : \A k \in S : m <= k
    <2>1. S \in SUBSET Nat /\ S # {}
        BY UnderIs
    <2> HIDE DEF S
    <2> QED
        BY <2>1, HasLeast
<1>2. PICK p \in DOMAIN t \ W : m = Cardinality(Under(t, p))
    OBVIOUS
<1>3. t[p].split
    BY <1>2
<1>4. ASSUME NEW c \in DOMAIN t \ W, Under(t, c) \subseteq Under(t, p), p \notin Under(t, c) PROVE FALSE
    <2>1. /\ IsFiniteSet(Under(t, p)) /\ Cardinality(Under(t, p)) \in Nat /\ p \in Under(t, p)
          /\ Cardinality(Under(t, c)) \in Nat
        BY UnderIs
    <2>2. Under(t, c) \in SUBSET Under(t, p) /\ Under(t, c) # Under(t, p)
        BY <1>4, <2>1
    <2>3. Cardinality(Under(t, c)) < Cardinality(Under(t, p))
        BY <2>1, <2>2, FS_Subset
    <2>4. Cardinality(Under(t, c)) \in S
        BY <1>4
    <2> HIDE DEF S
    <2> QED
        BY <1>1, <1>2, <2>1, <2>3, <2>4
<1>5. /\ p \o <<1>> \in DOMAIN t /\ Under(t, p \o <<1>>) \subseteq Under(t, p) /\ p \notin Under(t, p \o <<1>>)
      /\ p \o <<2>> \in DOMAIN t /\ Under(t, p \o <<2>>) \subseteq Under(t, p) /\ p \notin Under(t, p \o <<2>>)
    BY <1>3, ChildrenAre
<1> QED
    BY <1>2, <1>4, <1>5 DEF BothIn

\* What holds of the root, and below a node if it holds of it, holds of every node.
LEMMA FromTheRoot ==
    ASSUME NEW t, IsTree(t), NEW W \in SUBSET DOMAIN t, Root \in W,
           \A p \in W : t[p].split => BothIn(W, p)
    PROVE  W = DOMAIN t
<1> SUFFICES ASSUME DOMAIN t \ W # {} PROVE FALSE
    OBVIOUS
<1>1. DOMAIN t \subseteq Paths /\ Shape(t)
    BY TreeIs
<1> DEFINE S == {Len(q) : q \in DOMAIN t \ W}
<1>2. PICK m \in S : \A k \in S : m <= k
    <2>0. \A q \in Paths : Len(q) \in Nat
        BY LenProperties DEF Paths
    <2>1. S \in SUBSET Nat /\ S # {}
        BY <1>1, <2>0
    <2> HIDE DEF S
    <2> QED
        BY <2>1, HasLeast
<1>3. PICK p \in DOMAIN t \ W : m = Len(p)
    OBVIOUS
<1>4. PICK q \in Paths, x \in Side : p = q \o <<x>>
    BY <1>1, <1>3, Steps
<1>5. q \in DOMAIN t /\ t[q].split
    BY <1>1, <1>3, <1>4 DEF Shape
<1>6. q \in W
    <2>1. Len(p) = Len(q) + 1 /\ Len(q) \in Nat
        BY <1>4, LastStep
    <2>2. q \notin W => Len(q) \in S
        BY <1>5
    <2> HIDE DEF S
    <2> QED
        BY <1>2, <1>3, <2>1, <2>2
<1>7. q \o <<1>> \in W /\ q \o <<2>> \in W
    BY <1>5, <1>6 DEF BothIn
<1> QED
    BY <1>3, <1>4, <1>7 DEF Side

-----------------------------------------------------------------------------
(***************************************************************************)
(* Sums over a set of nodes                                                *)
(***************************************************************************)
\* Induction on the numbers, by a least counterexample.
LEMMA CountUp ==
    ASSUME NEW W \in SUBSET Nat, 0 \in W, \A n \in W : n + 1 \in W
    PROVE  W = Nat
<1> SUFFICES ASSUME Nat \ W # {} PROVE FALSE
    OBVIOUS
<1>1. PICK m \in Nat \ W : \A e \in Nat \ W : m <= e
    <2>1. Nat \ W \in SUBSET Nat
        OBVIOUS
    <2> QED
        BY <2>1, HasLeast
<1>2. m - 1 \in Nat /\ m = (m - 1) + 1 /\ ~ (m <= m - 1)
    BY <1>1
<1> QED
    BY <1>1, <1>2

\* The cells of a node, and of a set of them.
Area(e, p) == e[p].w * e[p].h
Covered(e, S) == MapThenSumSet(LAMBDA p : Area(e, p), S)

\* One element of a set and what is left of it.
Pick(s) == CHOOSE x \in s : TRUE

\* One step of the fold that sums up a set, from the sums of smaller ones.
SumsUp(it, e, s) == IF s = {} THEN 0 ELSE Area(e, Pick(s)) + it[s \ {Pick(s)}]

\* If some function meets the recursion of the fold, the fold meets it.
LEMMA CoveredIs ==
    ASSUME NEW e, NEW S, NEW f, f = [s \in SUBSET S |-> SumsUp(f, e, s)]
    PROVE  \E g : g = [s \in SUBSET S |-> SumsUp(g, e, s)] /\ Covered(e, S) = g[S]
<1> DEFINE R(g) == [s \in SUBSET S |-> SumsUp(g, e, s)]
           it == CHOOSE g : g = R(g)
<1>1. Covered(e, S) = it[S]
    BY DEF Covered, MapThenSumSet, MapThenFoldSet, SumsUp, Pick
<1> HIDE DEF R
<1>2. f = R(f)
    BY DEF R
<1>3. it = R(it)
    BY <1>2
<1> QED
    BY <1>1, <1>3 DEF R

\* it sums up every subset of S.
Sums(it, e, S) == it = [s \in SUBSET S |-> SumsUp(it, e, s)]

\* Smaller sets are summed up first.
LEMMA SumExists ==
    ASSUME NEW e, NEW S, IsFiniteSet(S)
    PROVE  \E it : Sums(it, e, S)
<1> DEFINE Small(n) == {s \in SUBSET S : Cardinality(s) <= n}
           Good(it, n) == DOMAIN it = Small(n) /\ \A s \in Small(n) : it[s] = SumsUp(it, e, s)
           W == {n \in Nat : \E it : Good(it, n)}
<1>1. \A s \in SUBSET S : IsFiniteSet(s) /\ Cardinality(s) \in Nat
    BY FS_Subset, FS_CardinalityType
<1>2. \A s \in SUBSET S : s # {} => /\ Pick(s) \in s /\ s \ {Pick(s)} \in SUBSET S
                                    /\ Cardinality(s \ {Pick(s)}) = Cardinality(s) - 1
    <2> SUFFICES ASSUME NEW s \in SUBSET S, s # {}
                 PROVE  /\ Pick(s) \in s /\ s \ {Pick(s)} \in SUBSET S
                        /\ Cardinality(s \ {Pick(s)}) = Cardinality(s) - 1
        OBVIOUS
    <2>1. Pick(s) \in s
        BY DEF Pick
    <2> QED
        BY <1>1, <2>1, FS_RemoveElement
<1>3. 0 \in W
    <2> DEFINE it == [s \in Small(0) |-> 0]
    <2>1. \A s \in Small(0) : s = {}
        BY <1>1, FS_EmptySet
    <2>2. Good(it, 0)
        BY <2>1 DEF SumsUp
    <2> QED
        BY <2>2
<1>4. ASSUME NEW n \in W PROVE n + 1 \in W
    <2>1. n \in Nat
        OBVIOUS
    <2>2. PICK it : Good(it, n)
        OBVIOUS
    <2> DEFINE jt == [s \in Small(n + 1) |-> IF s \in Small(n) THEN it[s] ELSE SumsUp(it, e, s)]
    <2>3. \A s \in Small(n + 1) : s # {} => s \ {Pick(s)} \in Small(n) /\ s \ {Pick(s)} \in Small(n + 1)
        BY <1>1, <1>2, <2>1
    <2>4. \A s \in Small(n + 1) : SumsUp(jt, e, s) = SumsUp(it, e, s)
        BY <2>3 DEF SumsUp
    <2>5. \A s \in Small(n) : s \in Small(n + 1) /\ it[s] = SumsUp(it, e, s)
        BY <1>1, <2>1, <2>2
    <2>6. Good(jt, n + 1)
        <3>1. \A s \in Small(n + 1) : jt[s] = SumsUp(it, e, s)
            BY <2>5
        <3>2. DOMAIN jt = Small(n + 1)
            OBVIOUS
        <3> HIDE DEF jt
        <3> QED
            BY <2>4, <3>1, <3>2
    <2>7. n + 1 \in Nat
        BY <2>1
    <2> HIDE DEF Good, jt
    <2> QED
        BY <2>6, <2>7
<1>5. W = Nat
    <2>1. W \in SUBSET Nat
        OBVIOUS
    <2> HIDE DEF W
    <2> QED
        BY <1>3, <1>4, <2>1, CountUp
<1>6. PICK it : Good(it, Cardinality(S))
    <2>1. Cardinality(S) \in Nat
        BY FS_CardinalityType
    <2> HIDE DEF Good
    <2> QED
        BY <1>5, <2>1
<1>7. \A s \in SUBSET S : s \in Small(Cardinality(S))
    BY FS_Subset
<1>8. Small(Cardinality(S)) = SUBSET S
    BY <1>7
<1>9. Sums([s \in SUBSET S |-> it[s]], e, S)
    <2> DEFINE jt == [s \in SUBSET S |-> it[s]]
    <2>1. \A s \in SUBSET S : SumsUp(jt, e, s) = SumsUp(it, e, s)
        BY <1>2 DEF SumsUp
    <2>2. \A s \in SUBSET S : jt[s] = SumsUp(jt, e, s)
        BY <1>6, <1>8, <2>1
    <2> HIDE DEF Good, Small
    <2> QED
        BY <2>2 DEF Sums
<1> QED
    BY <1>9

\* Two ways to sum the same areas agree where both are defined.
LEMMA SumIsUnique ==
    ASSUME NEW e, NEW S, NEW T, IsFiniteSet(S), IsFiniteSet(T),
           NEW it, Sums(it, e, S), NEW jt, Sums(jt, e, T)
    PROVE  \A s \in (SUBSET S) \cap (SUBSET T) : it[s] = jt[s]
<1> DEFINE W == {n \in Nat : \A s \in (SUBSET S) \cap (SUBSET T) : Cardinality(s) <= n => it[s] = jt[s]}
<1>1. \A s \in SUBSET S : IsFiniteSet(s) /\ Cardinality(s) \in Nat
    BY FS_Subset, FS_CardinalityType
<1>2. \A s \in (SUBSET S) \cap (SUBSET T) :
          it[s] = SumsUp(it, e, s) /\ jt[s] = SumsUp(jt, e, s)
    BY DEF Sums
<1>3. 0 \in W
    <2>1. \A s \in SUBSET S : Cardinality(s) <= 0 => s = {}
        BY <1>1, FS_EmptySet
    <2> QED
        BY <1>2, <2>1 DEF SumsUp
<1>4. ASSUME NEW n \in W PROVE n + 1 \in W
    <2>1. n \in Nat /\ n + 1 \in Nat
        OBVIOUS
    <2>2. ASSUME NEW s \in (SUBSET S) \cap (SUBSET T), Cardinality(s) <= n + 1, s # {}
          PROVE  it[s] = jt[s]
        <3>1. Pick(s) \in s
            BY <2>2 DEF Pick
        <3>2. Cardinality(s \ {Pick(s)}) = Cardinality(s) - 1
            BY <1>1, <3>1, FS_RemoveElement
        <3>3. it[s \ {Pick(s)}] = jt[s \ {Pick(s)}]
            BY <1>1, <2>1, <2>2, <3>2
        <3> QED
            BY <1>2, <2>2, <3>3 DEF SumsUp
    <2>3. it[{}] = jt[{}]
        BY <1>2 DEF SumsUp
    <2> QED
        BY <2>1, <2>2, <2>3
<1>5. W = Nat
    <2>1. W \in SUBSET Nat
        OBVIOUS
    <2> HIDE DEF W
    <2> QED
        BY <1>3, <1>4, <2>1, CountUp
<1> QED
    BY <1>1, <1>5

\* A sum does not depend on the set it is taken in.
LEMMA SumIs ==
    ASSUME NEW e, NEW S, IsFiniteSet(S), NEW it, Sums(it, e, S)
    PROVE  \A s \in SUBSET S : Covered(e, s) = it[s]
<1> SUFFICES ASSUME NEW s \in SUBSET S PROVE Covered(e, s) = it[s]
    OBVIOUS
<1>1. IsFiniteSet(s)
    BY FS_Subset
<1>2. PICK f : Sums(f, e, s)
    BY <1>1, SumExists
<1>3. PICK g : Sums(g, e, s) /\ Covered(e, s) = g[s]
    BY <1>2, CoveredIs DEF Sums
<1> QED
    BY <1>1, <1>3, SumIsUnique

\* Whatever element is picked, the sum of a set is that of the rest and one more.
LEMMA SumOfMore ==
    ASSUME NEW e, NEW S, IsFiniteSet(S), \A x \in S : Area(e, x) \in Nat
    PROVE  /\ Covered(e, {}) = 0
           /\ \A s \in SUBSET S : Covered(e, s) \in Nat
           /\ \A s \in SUBSET S : \A x \in s : Covered(e, s) = Area(e, x) + Covered(e, s \ {x})
<1>1. PICK it : Sums(it, e, S)
    BY SumExists
<1>2. \A s \in SUBSET S : Covered(e, s) = it[s] /\ it[s] = SumsUp(it, e, s)
    <2>1. \A s \in SUBSET S : Covered(e, s) = it[s]
        BY <1>1, SumIs
    <2>2. \A s \in SUBSET S : it[s] = SumsUp(it, e, s)
        BY <1>1 DEF Sums
    <2> QED
        BY <2>1, <2>2
<1>3. \A s \in SUBSET S : s # {} =>
          Pick(s) \in s /\ Covered(e, s) = Area(e, Pick(s)) + Covered(e, s \ {Pick(s)})
    <2> SUFFICES ASSUME NEW s \in SUBSET S, s # {}
                 PROVE  Pick(s) \in s /\ Covered(e, s) = Area(e, Pick(s)) + Covered(e, s \ {Pick(s)})
        OBVIOUS
    <2>1. Pick(s) \in s
        BY DEF Pick
    <2>2. it[s] = Area(e, Pick(s)) + it[s \ {Pick(s)}]
        BY <1>2 DEF SumsUp
    <2> QED
        BY <1>2, <2>1, <2>2
<1>4. Covered(e, {}) = 0
    BY <1>2 DEF SumsUp
<1> DEFINE Good(s) == Covered(e, s) \in Nat /\ \A x \in s : Covered(e, s) = Area(e, x) + Covered(e, s \ {x})
           W == {n \in Nat : \A s \in SUBSET S : Cardinality(s) <= n => Good(s)}
<1>5. \A s \in SUBSET S : IsFiniteSet(s) /\ Cardinality(s) \in Nat
    BY FS_Subset, FS_CardinalityType
<1>6. 0 \in W
    <2>1. \A s \in SUBSET S : Cardinality(s) <= 0 => s = {}
        BY <1>5, FS_EmptySet
    <2>2. Good({})
        BY <1>4
    <2> HIDE DEF Good
    <2> QED
        BY <2>1, <2>2
<1>7. ASSUME NEW n \in W PROVE n + 1 \in W
    <2>1. n \in Nat /\ n + 1 \in Nat
        OBVIOUS
    <2>0. \A s \in SUBSET S : Cardinality(s) <= n => Good(s)
        OBVIOUS
    <2>2. ASSUME NEW s \in SUBSET S, Cardinality(s) <= n + 1, s # {} PROVE Good(s)
        <3> DEFINE c == Pick(s)
        <3>1. c \in s /\ Covered(e, s) = Area(e, c) + Covered(e, s \ {c})
            BY <1>3, <2>2
        <3> HIDE DEF c
        <3>2. \A x \in s : Cardinality(s \ {x}) = Cardinality(s) - 1 /\ s \ {x} \in SUBSET S
            BY <1>5, FS_RemoveElement
        <3>3. \A x \in s : Good(s \ {x})
            <4> HIDE DEF Good
            <4> QED
                BY <1>5, <2>0, <2>1, <2>2, <3>2
        <3>4. Covered(e, s) \in Nat
            BY <3>1, <3>3
        <3>5. ASSUME NEW x \in s, x # c PROVE Covered(e, s) = Area(e, x) + Covered(e, s \ {x})
            <4>1. x \in s \ {c} /\ c \in s \ {x} /\ (s \ {c}) \ {x} = (s \ {x}) \ {c}
                BY <3>1, <3>5
            <4>2. Covered(e, s \ {c}) = Area(e, x) + Covered(e, (s \ {c}) \ {x})
                BY <3>1, <3>3, <4>1
            <4>3. Covered(e, s \ {x}) = Area(e, c) + Covered(e, (s \ {x}) \ {c})
                BY <3>3, <4>1
            <4>4. PICK k : k = Covered(e, (s \ {x}) \ {c})
                OBVIOUS
            <4>5. k \in Nat
                <5>1. Cardinality((s \ {x}) \ {c}) <= n /\ (s \ {x}) \ {c} \in SUBSET S
                    <6>1. IsFiniteSet(s \ {x}) /\ Cardinality(s \ {x}) \in Nat
                        BY <1>5, <3>2
                    <6>2. Cardinality((s \ {x}) \ {c}) = Cardinality(s \ {x}) - 1
                        BY <4>1, <6>1, FS_RemoveElement
                    <6> QED
                        BY <1>5, <2>1, <2>2, <3>2, <6>1, <6>2
                <5>2. Good((s \ {x}) \ {c})
                    BY <2>0, <5>1
                <5> QED
                    BY <4>4, <5>2
            <4>6. Area(e, x) \in Nat /\ Area(e, c) \in Nat
                BY <3>1
            <4> QED
                BY <3>1, <4>1, <4>2, <4>3, <4>4, <4>5, <4>6
        <3> QED
            BY <3>1, <3>4, <3>5
    <2>3. Good({})
        BY <1>4
    <2> HIDE DEF Good
    <2> QED
        BY <2>1, <2>2, <2>3
<1>8. W = Nat
    <2>1. W \in SUBSET Nat
        OBVIOUS
    <2> HIDE DEF W
    <2> QED
        BY <1>6, <1>7, <2>1, CountUp
<1>9. \A s \in SUBSET S : Good(s)
    <2> HIDE DEF Good
    <2> QED
        BY <1>5, <1>8
<1> QED
    BY <1>4, <1>9

\* Two sets without a common element add up.
LEMMA SumOfBoth ==
    ASSUME NEW e, NEW S, IsFiniteSet(S), \A x \in S : Area(e, x) \in Nat,
           NEW A \in SUBSET S, NEW B \in SUBSET S, A \cap B = {}
    PROVE  Covered(e, A \cup B) = Covered(e, A) + Covered(e, B)
<1> DEFINE W == {n \in Nat : \A b \in SUBSET B : Cardinality(b) <= n =>
                                Covered(e, A \cup b) = Covered(e, A) + Covered(e, b)}
<1>1. \A b \in SUBSET B : IsFiniteSet(b) /\ Cardinality(b) \in Nat
    BY FS_Subset, FS_CardinalityType
<1>2. /\ Covered(e, {}) = 0
      /\ \A s \in SUBSET S : Covered(e, s) \in Nat
      /\ \A s \in SUBSET S : \A x \in s : Covered(e, s) = Area(e, x) + Covered(e, s \ {x})
    BY SumOfMore
<1>3. Covered(e, A \cup {}) = Covered(e, A) + Covered(e, {})
    BY <1>2
<1>4. 0 \in W
    <2>1. \A b \in SUBSET B : Cardinality(b) <= 0 => b = {}
        BY <1>1, FS_EmptySet
    <2> QED
        BY <1>3, <2>1
<1>5. ASSUME NEW n \in W PROVE n + 1 \in W
    <2>1. n \in Nat /\ n + 1 \in Nat
        OBVIOUS
    <2>2. ASSUME NEW b \in SUBSET B, Cardinality(b) <= n + 1, b # {}
          PROVE  Covered(e, A \cup b) = Covered(e, A) + Covered(e, b)
        <3>1. PICK x \in b : TRUE
            BY <2>2
        <3>2. Cardinality(b \ {x}) = Cardinality(b) - 1
            BY <1>1, <3>1, FS_RemoveElement
        <3>3. Covered(e, A \cup (b \ {x})) = Covered(e, A) + Covered(e, b \ {x})
            BY <1>1, <2>1, <2>2, <3>2
        <3>4. (A \cup b) \ {x} = A \cup (b \ {x}) /\ x \in A \cup b /\ A \cup b \in SUBSET S
            BY <3>1
        <3>5. /\ Covered(e, A \cup b) = Area(e, x) + Covered(e, A \cup (b \ {x}))
              /\ Covered(e, b) = Area(e, x) + Covered(e, b \ {x})
            BY <1>2, <3>1, <3>4
        <3>6. /\ Covered(e, A) \in Nat /\ Covered(e, b \ {x}) \in Nat /\ Area(e, x) \in Nat
            BY <1>2, <3>1
        <3> QED
            BY <3>3, <3>5, <3>6
    <2> QED
        BY <1>3, <2>1, <2>2
<1>6. W = Nat
    <2>1. W \in SUBSET Nat
        OBVIOUS
    <2> HIDE DEF W
    <2> QED
        BY <1>4, <1>5, <2>1, CountUp
<1>7. B \in SUBSET B
    OBVIOUS
<1> QED
    BY <1>1, <1>6, <1>7

-----------------------------------------------------------------------------
(***************************************************************************)
(* Dividing a strip                                                        *)
(***************************************************************************)
\* What the truncating division of the layout promises.
LEMMA Division ==
    ASSUME NEW x \in Nat, NEW d \in Nat \ {0}
    PROVE  x \div d \in Nat /\ d * (x \div d) <= x /\ x < d * ((x \div d) + 1)
OBVIOUS

\* A common factor can be dropped from an inequality.
LEMMA LessTimes ==
    ASSUME NEW a \in Nat, NEW b \in Nat, NEW d \in Nat \ {0}, d * a < d * b
    PROVE  a < b
<1>1. SUFFICES ASSUME b <= a PROVE FALSE
    OBVIOUS
<1>2. PICK k \in Nat : a = b + k
    <2>1. a - b \in Nat /\ a = b + (a - b)
        BY <1>1
    <2> QED
        BY <2>1
<1>3. d * a = d * b + d * k /\ d * k \in Nat /\ d * b \in Nat
    BY <1>2
<1> QED
    BY <1>3

\* A strip that has a cell for every unit of its two parts is divided without a rest,
\* and each part has a cell for every unit of its own: the step in the descent from the
\* screen to a pane.
THEOREM PartsFit ==
    ASSUME NEW a \in Nat \ {0}, NEW b \in Nat \ {0}, NEW room \in Nat, room >= a + b
    PROVE  /\ FirstPart(room, a, b) \in Nat /\ FirstPart(room, a, b) >= a
           /\ SecondPart(room, a, b) \in Nat /\ SecondPart(room, a, b) >= b
           /\ FirstPart(room, a, b) + SecondPart(room, a, b) = room
<1> DEFINE d == a + b
           q == (room * a) \div d
<1>0. d \in Nat \ {0} /\ room * a \in Nat
    OBVIOUS
<1>1. q \in Nat /\ d * q <= room * a /\ room * a < d * (q + 1)
    BY <1>0, Division
<1> HIDE DEF q, d
<1>2. d * a <= room * a
    <2>1. PICK k \in Nat : room = d + k
        <3>1. room - d \in Nat /\ room = d + (room - d)
            BY <1>0 DEF d
        <3> QED
            BY <3>1
    <2>2. room * a = d * a + k * a /\ k * a \in Nat /\ d * a \in Nat
        BY <2>1, <1>0
    <2> QED
        BY <2>2
<1>3. q >= a
    <2>1. d * a < d * (q + 1)
        <3>1. d * a \in Nat /\ d * (q + 1) \in Nat
            BY <1>0, <1>1
        <3> QED
            BY <3>1, <1>0, <1>1, <1>2
    <2>2. a < q + 1
        BY <2>1, <1>0, <1>1, LessTimes
    <2> QED
        BY <2>2, <1>1
<1>4. room - q >= b
    <2>1. SUFFICES ASSUME room < b + q PROVE FALSE
        BY <1>1
    <2>2. PICK k \in Nat : b + q = room + 1 + k
        <3>1. (b + q) - (room + 1) \in Nat
            BY <2>1, <1>1
        <3> QED
            BY <3>1, <1>1
    <2>3. d * q + d * b = d * room + d + d * k
        <3>1. d * (b + q) = d * (room + 1 + k)
            BY <2>2
        <3> QED
            BY <3>1, <1>0, <1>1
    <2>4. d * room = room * a + room * b
        BY <1>0 DEF d
    <2>5. d * b <= room * b
        <3>1. PICK j \in Nat : room = d + j
            <4>1. room - d \in Nat /\ room = d + (room - d)
                BY <1>0 DEF d
            <4> QED
                BY <4>1
        <3>2. room * b = d * b + j * b /\ j * b \in Nat /\ d * b \in Nat
            BY <3>1, <1>0
        <3> QED
            BY <3>2
    <2>6. /\ d * q \in Nat /\ d * b \in Nat /\ d * room \in Nat /\ d * k \in Nat
          /\ room * a \in Nat /\ room * b \in Nat
        BY <1>0, <1>1
    <2> HIDE DEF d
    <2> QED
        BY <2>3, <2>4, <2>5, <2>6, <1>0, <1>1
<1>5. FirstPart(room, a, b) = q
    BY <1>1, <1>3 DEF FirstPart, q, d
<1>6. SecondPart(room, a, b) = room - q
    BY <1>1, <1>4, <1>5 DEF SecondPart
<1> QED
    BY <1>1, <1>3, <1>4, <1>5, <1>6

-----------------------------------------------------------------------------
(***************************************************************************)
(* Shares and extents                                                      *)
(***************************************************************************)
\* The two nodes below one at or below q are below q.
LEMMA BelowUnder ==
    ASSUME NEW t, IsTree(t), NEW q \in DOMAIN t, NEW s \in Under(t, q), t[s].split
    PROVE  s \o <<1>> \in Under(t, q) /\ s \o <<2>> \in Under(t, q)
<1>1. q \in Paths /\ s \in DOMAIN t /\ 1 \in Side /\ 2 \in Side
    BY TreeIs DEF Under, Side
<1>2. PICK r \in Paths : s = q \o r
    BY DEF Under
<1>3. /\ q \o (r \o <<1>>) = s \o <<1>> /\ r \o <<1>> \in Paths
      /\ q \o (r \o <<2>>) = s \o <<2>> /\ r \o <<2>> \in Paths
    BY <1>1, <1>2, StepInto
<1>4. s \o <<1>> \in DOMAIN t /\ s \o <<2>> \in DOMAIN t
    BY <1>1, ChildrenAre
<1>5. (\E u \in Paths : s \o <<1>> = q \o u) /\ (\E u \in Paths : s \o <<2>> = q \o u)
    BY <1>3
<1> QED
    BY <1>4, <1>5 DEF Under

\* The share of a node from the shares f of those below it.
ShareIn(f, t, along, p) ==
    IF ~ t[p].split THEN t[p].cfg.weight
    ELSE IF t[p].dir = along THEN f[p \o <<1>>] + f[p \o <<2>>]
    ELSE IF f[p \o <<1>>] > f[p \o <<2>>] THEN f[p \o <<1>>] ELSE f[p \o <<2>>]

\* f gives the nodes of S, and with each the ones below it, their shares.
Shares(f, t, along, S) ==
    f \in [S -> Nat \ {0}] /\ \A s \in S : f[s] = ShareIn(f, t, along, s)

\* Every tree has shares: from the leaves up.
LEMMA ShareExists ==
    ASSUME NEW t, IsTree(t), NEW along
    PROVE  \E f : Shares(f, t, along, DOMAIN t)
<1> DEFINE W == {p \in DOMAIN t : \E f : Shares(f, t, along, Under(t, p))}
<1>1. ASSUME NEW p \in DOMAIN t, ~ t[p].split PROVE p \in W
    <2>1. Under(t, p) = {p}
        BY <1>1, UnderIs
    <2>2. t[p].cfg.weight \in Nat \ {0}
        BY TreeIs DEF PaneNode, PaneConfig
    <2> DEFINE f == [s \in {p} |-> t[p].cfg.weight]
    <2>3. Shares(f, t, along, {p})
        BY <1>1, <2>2 DEF Shares, ShareIn
    <2> QED
        BY <2>1, <2>3
<1>2. ASSUME NEW p \in DOMAIN t, t[p].split, BothIn(W, p) PROVE p \in W
    <2> DEFINE a == p \o <<1>>
               b == p \o <<2>>
    <2>1. PICK f : Shares(f, t, along, Under(t, a))
        BY <1>2 DEF BothIn
    <2>2. PICK g : Shares(g, t, along, Under(t, b))
        BY <1>2 DEF BothIn
    <2>3. /\ a \in DOMAIN t /\ b \in DOMAIN t /\ a # b /\ p # a /\ p # b
          /\ Under(t, p) = {p} \cup Under(t, a) \cup Under(t, b)
          /\ Under(t, a) \cap Under(t, b) = {}
          /\ p \notin Under(t, a) /\ p \notin Under(t, b)
        BY <1>2, ChildrenAre
    <2>4. a \in Under(t, a) /\ b \in Under(t, b)
        BY <2>3, UnderIs
    <2>5. /\ \A s \in Under(t, a) : t[s].split => s \o <<1>> \in Under(t, a) /\ s \o <<2>> \in Under(t, a)
          /\ \A s \in Under(t, b) : t[s].split => s \o <<1>> \in Under(t, b) /\ s \o <<2>> \in Under(t, b)
        BY <2>3, BelowUnder
    <2> DEFINE top == IF t[p].dir = along THEN f[a] + g[b] ELSE IF f[a] > g[b] THEN f[a] ELSE g[b]
               h == [s \in Under(t, p) |-> IF s \in Under(t, a) THEN f[s]
                                           ELSE IF s \in Under(t, b) THEN g[s] ELSE top]
    <2>6. /\ h[p] = top
          /\ \A s \in Under(t, a) : h[s] = f[s]
          /\ \A s \in Under(t, b) : h[s] = g[s]
          /\ DOMAIN h = Under(t, p)
        BY <2>3
    <2>7. top \in Nat \ {0}
        BY <2>1, <2>2, <2>4 DEF Shares
    <2> HIDE DEF top, h, W
    <2>8. \A s \in Under(t, p) : h[s] \in Nat \ {0}
        BY <2>1, <2>2, <2>3, <2>6, <2>7 DEF Shares
    <2>9. h[p] = ShareIn(h, t, along, p)
        BY <1>2, <2>4, <2>6 DEF ShareIn, top
    <2>10. \A s \in Under(t, a) : h[s] = ShareIn(h, t, along, s)
        BY <2>1, <2>5, <2>6 DEF Shares, ShareIn
    <2>11. \A s \in Under(t, b) : h[s] = ShareIn(h, t, along, s)
        BY <2>2, <2>5, <2>6 DEF Shares, ShareIn
    <2>12. h \in [Under(t, p) -> Nat \ {0}]
        <3>1. h = [s \in Under(t, p) |-> h[s]]
            BY DEF h
        <3> QED
            BY <2>8, <3>1
    <2>13. Shares(h, t, along, Under(t, p))
        BY <2>3, <2>9, <2>10, <2>11, <2>12 DEF Shares
    <2> QED
        BY <2>13 DEF W
<1>3. W = DOMAIN t
    <2>1. W \in SUBSET DOMAIN t
        OBVIOUS
    <2>2. \A p \in DOMAIN t : (t[p].split => BothIn(W, p)) => p \in W
        <3> HIDE DEF W
        <3> QED
            BY <1>1, <1>2
    <2> HIDE DEF W
    <2> QED
        BY <2>1, <2>2, FromTheLeaves
<1>4. Root \in DOMAIN t /\ Under(t, Root) = DOMAIN t
    <2>1. Root \in DOMAIN t /\ DOMAIN t \subseteq Paths /\ \A s \in Paths : s = Root \o s
        BY TreeIs, PathAlgebra
    <2> QED
        BY <2>1 DEF Under
<1> QED
    BY <1>3, <1>4

\* If some function meets the recursion of Share, Share meets it.
LEMMA ShareUnfolds ==
    ASSUME NEW t, NEW along, NEW f, f = [p \in DOMAIN t |-> ShareIn(f, t, along, p)]
    PROVE  Share(t, along) = [p \in DOMAIN t |-> ShareIn(Share(t, along), t, along, p)]
<1> DEFINE R(g) == [p \in DOMAIN t |-> ShareIn(g, t, along, p)]
<1>1. Share(t, along) = CHOOSE g : g = R(g)
    BY DEF Share, ShareIn
<1> HIDE DEF R
<1>2. f = R(f)
    BY DEF R
<1>3. Share(t, along) = R(Share(t, along))
    BY <1>1, <1>2
<1> QED
    BY <1>3 DEF R

\* The share of a node is positive, and that of a split comes from the two below it.
LEMMA ShareIs ==
    ASSUME NEW t, IsTree(t), NEW along
    PROVE  LET f == Share(t, along)
           IN  /\ \A p \in DOMAIN t : f[p] \in Nat \ {0}
               /\ \A p \in DOMAIN t : t[p].split => f[p] = ShareIn(f, t, along, p)
<1> DEFINE f == Share(t, along)
<1>1. PICK g : Shares(g, t, along, DOMAIN t)
    BY ShareExists
<1>2. g = [p \in DOMAIN t |-> ShareIn(g, t, along, p)]
    BY <1>1 DEF Shares
<1>3. f = [p \in DOMAIN t |-> ShareIn(f, t, along, p)]
    BY <1>2, ShareUnfolds
<1> HIDE DEF f
<1>4. \A p \in DOMAIN t : f[p] = ShareIn(f, t, along, p)
    BY <1>3
<1> DEFINE W == {p \in DOMAIN t : f[p] \in Nat \ {0}}
<1>5. \A p \in DOMAIN t : t[p].cfg.weight \in Nat \ {0}
    BY TreeIs DEF PaneNode, PaneConfig
<1>6. \A p \in DOMAIN t : (t[p].split => BothIn(W, p)) => p \in W
    BY <1>4, <1>5 DEF ShareIn, BothIn
<1>7. W = DOMAIN t
    <2>1. W \in SUBSET DOMAIN t
        OBVIOUS
    <2> HIDE DEF W
    <2> QED
        BY <1>6, <2>1, FromTheLeaves
<1> QED
    BY <1>4, <1>7 DEF f

\* Extents of whole cells.
Cells == [w : Nat, h : Nat]

\* The extent of a node from the extents f of those above it.
ExtentIn(f, t, width, height, p) ==
    LET wide == Share(t, "Vertical")
        high == Share(t, "Horizontal")
    IN  IF p = Root THEN [w |-> width, h |-> height]
        ELSE LET up == f[Front(p)]
                 a == Front(p) \o <<1>>
                 b == Front(p) \o <<2>>
                 Part(room, share) == IF p = a THEN FirstPart(room, share[a], share[b])
                                      ELSE SecondPart(room, share[a], share[b])
             IN IF t[Front(p)].dir = "Vertical"
                THEN [up EXCEPT !.w = Part(up.w, wide)]
                ELSE [up EXCEPT !.h = Part(up.h, high)]

\* If some function meets the recursion of Extent, Extent meets it.
LEMMA ExtentUnfolds ==
    ASSUME NEW t, NEW w, NEW h, NEW f, f = [p \in DOMAIN t |-> ExtentIn(f, t, w, h, p)]
    PROVE  Extent(t, w, h) = [p \in DOMAIN t |-> ExtentIn(Extent(t, w, h), t, w, h, p)]
<1> DEFINE R(g) == [p \in DOMAIN t |-> ExtentIn(g, t, w, h, p)]
<1>1. Extent(t, w, h) = CHOOSE g : g = R(g)
    BY DEF Extent, ExtentIn
<1> HIDE DEF R
<1>2. f = R(f)
    BY DEF R
<1>3. Extent(t, w, h) = R(Extent(t, w, h))
    BY <1>1, <1>2
<1> QED
    BY <1>3 DEF R

\* A path of a tree is not longer than some number.
LEMMA HeightIs ==
    ASSUME NEW t, IsTree(t)
    PROVE  \E n \in Nat : \A s \in DOMAIN t : Len(s) <= n
<1> DEFINE W == {p \in DOMAIN t : \E n \in Nat : \A s \in Under(t, p) : Len(s) <= n}
<1>0. \A s \in DOMAIN t : Len(s) \in Nat
    BY TreeIs, LenProperties DEF Paths
<1>1. ASSUME NEW p \in DOMAIN t, ~ t[p].split PROVE p \in W
    <2>1. Under(t, p) = {p} /\ Len(p) \in Nat
        BY <1>0, <1>1, UnderIs
    <2>2. \A s \in Under(t, p) : Len(s) <= Len(p)
        BY <2>1
    <2> QED
        BY <2>1, <2>2
<1>2. ASSUME NEW p \in DOMAIN t, t[p].split, BothIn(W, p) PROVE p \in W
    <2> DEFINE a == p \o <<1>>
               b == p \o <<2>>
    <2>1. PICK m \in Nat : \A s \in Under(t, a) : Len(s) <= m
        BY <1>2 DEF BothIn
    <2>2. PICK n \in Nat : \A s \in Under(t, b) : Len(s) <= n
        BY <1>2 DEF BothIn
    <2>3. Under(t, p) = {p} \cup Under(t, a) \cup Under(t, b) /\ Under(t, p) \subseteq DOMAIN t
        BY <1>2, ChildrenAre, UnderIs
    <2> HIDE DEF a, b
    <2>4. \A s \in Under(t, p) : Len(s) <= Len(p) + m + n
        <3> SUFFICES ASSUME NEW s \in Under(t, p) PROVE Len(s) <= Len(p) + m + n
            OBVIOUS
        <3>1. Len(s) \in Nat /\ Len(p) \in Nat
            BY <1>0, <2>3
        <3>2. Len(s) <= m \/ Len(s) <= n \/ s = p
            BY <2>1, <2>2, <2>3
        <3> QED
            BY <3>1, <3>2
    <2>5. Len(p) + m + n \in Nat
        BY <1>0
    <2> QED
        BY <2>4, <2>5
<1>3. W = DOMAIN t
    <2>1. W \in SUBSET DOMAIN t
        OBVIOUS
    <2>2. \A p \in DOMAIN t : (t[p].split => BothIn(W, p)) => p \in W
        <3> HIDE DEF W
        <3> QED
            BY <1>1, <1>2
    <2> HIDE DEF W
    <2> QED
        BY <2>1, <2>2, FromTheLeaves
<1>4. Root \in DOMAIN t /\ Under(t, Root) = DOMAIN t
    <2>1. Root \in DOMAIN t /\ DOMAIN t \subseteq Paths /\ \A s \in Paths : s = Root \o s
        BY TreeIs, PathAlgebra
    <2> QED
        BY <2>1 DEF Under
<1> QED
    BY <1>3, <1>4

\* The two parts of any strip are whole cells.
LEMMA PartsAre ==
    ASSUME NEW a \in Nat \ {0}, NEW b \in Nat \ {0}, NEW room \in Nat
    PROVE  FirstPart(room, a, b) \in Nat /\ SecondPart(room, a, b) \in Nat
<1>0. a + b \in Nat \ {0} /\ room * a \in Nat
    OBVIOUS
<1>1. (room * a) \div (a + b) \in Nat
    BY <1>0, Division
<1>2. FirstPart(room, a, b) \in Nat
    <2>1. FirstPart(room, a, b) = 1 \/ FirstPart(room, a, b) = (room * a) \div (a + b)
        BY <1>1 DEF FirstPart
    <2> QED
        BY <1>1, <2>1
<1>3. SecondPart(room, a, b) \in Nat
    <2>1. \/ SecondPart(room, a, b) = 1
          \/ /\ SecondPart(room, a, b) = room - FirstPart(room, a, b)
             /\ 1 <= room - FirstPart(room, a, b)
        BY <1>2 DEF SecondPart
    <2> QED
        BY <1>2, <2>1
<1> QED
    BY <1>2, <1>3

\* What is above a node is as wide and high as it was found to be, and a node's extent
\* is made of whole cells.
LEMMA ExtentInIs ==
    ASSUME NEW t, IsTree(t), NEW w \in Nat, NEW h \in Nat, NEW p \in DOMAIN t,
           NEW f, p # Root => f[Front(p)] \in Cells
    PROVE  ExtentIn(f, t, w, h, p) \in Cells
<1>1. CASE p = Root
    BY <1>1 DEF ExtentIn, Cells
<1>2. CASE p # Root
    <2> DEFINE q == Front(p)
               a == q \o <<1>>
               b == q \o <<2>>
               wide == Share(t, "Vertical")
               high == Share(t, "Horizontal")
               up == f[q]
    <2>1. q \in DOMAIN t /\ t[q].split
        BY <1>2 DEF IsTree
    <2>2. a \in DOMAIN t /\ b \in DOMAIN t
        BY <2>1, ChildrenAre
    <2>3. /\ wide[a] \in Nat \ {0} /\ wide[b] \in Nat \ {0}
          /\ high[a] \in Nat \ {0} /\ high[b] \in Nat \ {0}
        BY <2>2, ShareIs
    <2>4. up \in Cells /\ up.w \in Nat /\ up.h \in Nat
        BY <1>2 DEF Cells
    <2> HIDE DEF a, b, wide, high, up
    <2>5. /\ FirstPart(up.w, wide[a], wide[b]) \in Nat /\ SecondPart(up.w, wide[a], wide[b]) \in Nat
          /\ FirstPart(up.h, high[a], high[b]) \in Nat /\ SecondPart(up.h, high[a], high[b]) \in Nat
        BY <2>3, <2>4, PartsAre
    <2>6. \E k \in Nat : \/ ExtentIn(f, t, w, h, p) = [up EXCEPT !.w = k]
                         \/ ExtentIn(f, t, w, h, p) = [up EXCEPT !.h = k]
        <3>1. \/ \E k \in Nat : ExtentIn(f, t, w, h, p) = [up EXCEPT !.w = k]
              \/ \E k \in Nat : ExtentIn(f, t, w, h, p) = [up EXCEPT !.h = k]
            BY <1>2, <2>5 DEF ExtentIn, a, b, wide, high, up
        <3> QED
            BY <3>1
    <2> QED
        BY <2>4, <2>6 DEF Cells
<1> QED
    BY <1>1, <1>2

\* Every node has an extent: from the root down.
LEMMA ExtentExists ==
    ASSUME NEW t, IsTree(t), NEW w \in Nat, NEW h \in Nat
    PROVE  \E f : f = [p \in DOMAIN t |-> ExtentIn(f, t, w, h, p)]
<1> DEFINE Short(n) == {p \in DOMAIN t : Len(p) <= n}
           Good(f, n) == /\ DOMAIN f = Short(n)
                         /\ \A p \in Short(n) : f[p] = ExtentIn(f, t, w, h, p) /\ f[p] \in Cells
           W == {n \in Nat : \E f : Good(f, n)}
<1>0. \A s \in DOMAIN t : Len(s) \in Nat /\ s \in Paths
    BY TreeIs, LenProperties DEF Paths
<1>1. ASSUME NEW p \in DOMAIN t, p # Root
      PROVE  Front(p) \in DOMAIN t /\ Len(Front(p)) = Len(p) - 1
    <2>1. PICK q \in Paths, x \in Side : p = q \o <<x>>
        BY <1>0, <1>1, Steps
    <2>2. Front(p) = q /\ Len(p) = Len(q) + 1 /\ Len(q) \in Nat
        BY <2>1, LastStep
    <2>3. Front(p) \in DOMAIN t
        BY <1>1 DEF IsTree
    <2> QED
        BY <2>2, <2>3
<1>2. 0 \in W
    <2> DEFINE f == [p \in Short(0) |-> [w |-> w, h |-> h]]
    <2>1. \A p \in Short(0) : p = Root
        BY <1>0, <1>1
    <2>2. Good(f, 0)
        BY <2>1 DEF ExtentIn, Cells
    <2> QED
        BY <2>2
<1>3. ASSUME NEW n \in W PROVE n + 1 \in W
    <2>1. n \in Nat /\ n + 1 \in Nat
        OBVIOUS
    <2>2. PICK f : Good(f, n)
        OBVIOUS
    <2> DEFINE g == [p \in Short(n + 1) |-> IF p \in Short(n) THEN f[p] ELSE ExtentIn(f, t, w, h, p)]
    <2>3. \A p \in Short(n + 1) : p # Root => Front(p) \in Short(n) /\ g[Front(p)] = f[Front(p)]
        BY <1>0, <1>1, <2>1
    <2>4. \A p \in Short(n + 1) : ExtentIn(g, t, w, h, p) = ExtentIn(f, t, w, h, p)
        <3> SUFFICES ASSUME NEW p \in Short(n + 1)
                     PROVE  ExtentIn(g, t, w, h, p) = ExtentIn(f, t, w, h, p)
            OBVIOUS
        <3>1. p # Root => g[Front(p)] = f[Front(p)]
            BY <2>3
        <3> HIDE DEF g
        <3> QED
            BY <3>1 DEF ExtentIn
    <2>5. \A p \in Short(n + 1) : g[p] = ExtentIn(f, t, w, h, p)
        BY <2>2
    <2>6. \A p \in Short(n + 1) : ExtentIn(f, t, w, h, p) \in Cells
        <3> SUFFICES ASSUME NEW p \in Short(n + 1) PROVE ExtentIn(f, t, w, h, p) \in Cells
            OBVIOUS
        <3>1. p # Root => f[Front(p)] \in Cells
            BY <2>2, <2>3
        <3>2. p \in DOMAIN t
            OBVIOUS
        <3> HIDE DEF g, Short, Good
        <3> QED
            BY <3>1, <3>2, ExtentInIs
    <2>7. DOMAIN g = Short(n + 1)
        OBVIOUS
    <2> HIDE DEF g
    <2>8. Good(g, n + 1)
        BY <2>4, <2>5, <2>6, <2>7
    <2> HIDE DEF Good
    <2> QED
        BY <2>1, <2>8
<1>4. W = Nat
    <2>1. W \in SUBSET Nat
        OBVIOUS
    <2> HIDE DEF W
    <2> QED
        BY <1>2, <1>3, <2>1, CountUp
<1>5. PICK n \in Nat : \A s \in DOMAIN t : Len(s) <= n
    BY HeightIs
<1>6. PICK f : Good(f, n)
    BY <1>4
<1>7. Short(n) = DOMAIN t
    BY <1>5
<1> DEFINE g == [p \in DOMAIN t |-> f[p]]
<1>8. \A p \in DOMAIN t : ExtentIn(g, t, w, h, p) = ExtentIn(f, t, w, h, p)
    <2> SUFFICES ASSUME NEW p \in DOMAIN t
                 PROVE  ExtentIn(g, t, w, h, p) = ExtentIn(f, t, w, h, p)
        OBVIOUS
    <2>1. p # Root => g[Front(p)] = f[Front(p)]
        BY <1>1
    <2> HIDE DEF g
    <2> QED
        BY <2>1 DEF ExtentIn
<1>9. \A p \in DOMAIN t : g[p] = ExtentIn(g, t, w, h, p)
    BY <1>6, <1>7, <1>8
<1>10. g = [p \in DOMAIN t |-> g[p]]
    OBVIOUS
<1> HIDE DEF g
<1>11. g = [p \in DOMAIN t |-> ExtentIn(g, t, w, h, p)]
    BY <1>9, <1>10
<1> QED
    BY <1>11

\* The extents of the two nodes below a split are the two parts of its own.
Divided(e, wide, high, t, p) ==
    LET a == p \o <<1>>
        b == p \o <<2>>
    IN  IF t[p].dir = "Vertical"
        THEN /\ e[a] = [e[p] EXCEPT !.w = FirstPart(e[p].w, wide[a], wide[b])]
             /\ e[b] = [e[p] EXCEPT !.w = SecondPart(e[p].w, wide[a], wide[b])]
        ELSE /\ e[a] = [e[p] EXCEPT !.h = FirstPart(e[p].h, high[a], high[b])]
             /\ e[b] = [e[p] EXCEPT !.h = SecondPart(e[p].h, high[a], high[b])]

\* The extents of the two nodes below a split divide its own.
LEMMA ExtentIs ==
    ASSUME NEW t, IsTree(t), NEW w \in Nat, NEW h \in Nat
    PROVE  LET e == Extent(t, w, h)
               wide == Share(t, "Vertical")
               high == Share(t, "Horizontal")
           IN  /\ e[Root] = [w |-> w, h |-> h]
               /\ \A p \in DOMAIN t : e[p] \in Cells
               /\ \A p \in DOMAIN t : t[p].split => Divided(e, wide, high, t, p)
<1> DEFINE e == Extent(t, w, h)
           wide == Share(t, "Vertical")
           high == Share(t, "Horizontal")
<1>1. e = [p \in DOMAIN t |-> ExtentIn(e, t, w, h, p)]
    BY ExtentExists, ExtentUnfolds
<1> HIDE DEF e
<1>2. \A p \in DOMAIN t : e[p] = ExtentIn(e, t, w, h, p)
    BY <1>1
<1>3. Root \in DOMAIN t
    BY TreeIs
<1>4. e[Root] = [w |-> w, h |-> h]
    BY <1>2, <1>3 DEF ExtentIn
<1> DEFINE W == {p \in DOMAIN t : e[p] \in Cells}
<1>5. Root \in W
    BY <1>3, <1>4 DEF Cells
<1>6. ASSUME NEW p \in DOMAIN t, t[p].split
      PROVE  LET a == p \o <<1>>
                 b == p \o <<2>>
             IN  /\ a \in DOMAIN t /\ b \in DOMAIN t /\ a # b /\ a # Root /\ b # Root
                 /\ Front(a) = p /\ Front(b) = p
    BY <1>6, ChildrenAre
<1>7. ASSUME NEW p \in W, t[p].split PROVE BothIn(W, p)
    BY <1>2, <1>6, <1>7, ExtentInIs DEF BothIn
<1>8. W = DOMAIN t
    <2>1. W \in SUBSET DOMAIN t
        OBVIOUS
    <2> HIDE DEF W
    <2> QED
        BY <1>5, <1>7, <2>1, FromTheRoot
<1>9. ASSUME NEW p \in DOMAIN t, t[p].split
      PROVE  Divided(e, wide, high, t, p)
    <2> DEFINE a == p \o <<1>>
               b == p \o <<2>>
    <2>1. /\ a \in DOMAIN t /\ b \in DOMAIN t /\ a # b /\ a # Root /\ b # Root
          /\ Front(a) = p /\ Front(b) = p
        BY <1>6, <1>9
    <2>2. e[a] = ExtentIn(e, t, w, h, a) /\ e[b] = ExtentIn(e, t, w, h, b)
        BY <1>2, <2>1
    <2> QED
        BY <2>1, <2>2 DEF ExtentIn, Divided
<1> QED
    BY <1>4, <1>8, <1>9 DEF e

\* The cells of a split are those of the two nodes below it.
Parted(e, p) == Area(e, p) = Area(e, p \o <<1>>) + Area(e, p \o <<2>>)

\* On a screen with a cell for every unit of the tree's shares, every node has one for
\* every unit of its own, and the two below a split have its cells.
LEMMA RoomIs ==
    ASSUME NEW t, IsTree(t), NEW w \in Nat, NEW h \in Nat,
           w >= Share(t, "Vertical")[Root], h >= Share(t, "Horizontal")[Root]
    PROVE  LET e == Extent(t, w, h)
           IN  /\ \A p \in DOMAIN t : e[p].w \in Nat \ {0} /\ e[p].h \in Nat \ {0}
               /\ Area(e, Root) = w * h
               /\ \A p \in DOMAIN t : Area(e, p) \in Nat
               /\ \A p \in DOMAIN t : t[p].split => Parted(e, p)
<1> DEFINE e == Extent(t, w, h)
           wide == Share(t, "Vertical")
           high == Share(t, "Horizontal")
           W == {p \in DOMAIN t : e[p].w >= wide[p] /\ e[p].h >= high[p]}
<1>1. e[Root] = [w |-> w, h |-> h]
    BY ExtentIs
<1>2. ASSUME NEW p \in DOMAIN t
      PROVE  /\ e[p] \in Cells /\ e[p].w \in Nat /\ e[p].h \in Nat
             /\ wide[p] \in Nat \ {0} /\ high[p] \in Nat \ {0}
    <2>1. e[p] \in Cells
        BY ExtentIs
    <2>2. wide[p] \in Nat \ {0} /\ high[p] \in Nat \ {0}
        BY ShareIs
    <2> QED
        BY <2>1, <2>2 DEF Cells
<1>3. ASSUME NEW p \in W, t[p].split
      PROVE  LET a == p \o <<1>>
                 b == p \o <<2>>
             IN  a \in W /\ b \in W /\ Area(e, p) = Area(e, a) + Area(e, b)
    <2> DEFINE a == p \o <<1>>
               b == p \o <<2>>
    <2>1. p \in DOMAIN t /\ e[p].w >= wide[p] /\ e[p].h >= high[p]
        OBVIOUS
    <2>2. a \in DOMAIN t /\ b \in DOMAIN t
        BY <1>3, <2>1, ChildrenAre
    <2>3. PICK c \in Cells : c = e[p] /\ c.w \in Nat /\ c.h \in Nat
        BY <1>2, <2>1
    <2>0. Divided(e, wide, high, t, p)
        BY <1>3, <2>1, ExtentIs
    <2>4. IF t[p].dir = "Vertical"
          THEN /\ e[a] = [c EXCEPT !.w = FirstPart(c.w, wide[a], wide[b])]
               /\ e[b] = [c EXCEPT !.w = SecondPart(c.w, wide[a], wide[b])]
          ELSE /\ e[a] = [c EXCEPT !.h = FirstPart(c.h, high[a], high[b])]
               /\ e[b] = [c EXCEPT !.h = SecondPart(c.h, high[a], high[b])]
        <3> HIDE DEF e, wide, high
        <3> QED
            BY <2>0, <2>3 DEF Divided
    <2>5. wide[p] = ShareIn(wide, t, "Vertical", p) /\ high[p] = ShareIn(high, t, "Horizontal", p)
        BY <1>3, <2>1, ShareIs
    <2>6. /\ wide[a] \in Nat \ {0} /\ wide[b] \in Nat \ {0} /\ wide[p] \in Nat \ {0}
          /\ high[a] \in Nat \ {0} /\ high[b] \in Nat \ {0} /\ high[p] \in Nat \ {0}
        BY <1>2, <2>1, <2>2
    <2>7. t[p].dir \in {"Vertical", "Horizontal"}
        BY <2>1, TreeIs DEF PaneNode
    <2>8. c.w >= wide[p] /\ c.h >= high[p]
        BY <2>1, <2>3
    <2>9. CASE t[p].dir = "Vertical"
        <3>1. wide[p] = wide[a] + wide[b]
            BY <1>3, <2>5, <2>9 DEF ShareIn
        <3>2. high[a] <= high[p] /\ high[b] <= high[p]
            <4>1. high[p] = IF high[a] > high[b] THEN high[a] ELSE high[b]
                BY <1>3, <2>5, <2>9 DEF ShareIn
            <4> HIDE DEF a, b, high, wide
            <4> QED
                BY <2>6, <4>1
        <3> DEFINE x == FirstPart(c.w, wide[a], wide[b])
                   y == SecondPart(c.w, wide[a], wide[b])
        <3>3. /\ x \in Nat /\ x >= wide[a] /\ y \in Nat /\ y >= wide[b] /\ x + y = c.w
            <4>1. c.w >= wide[a] + wide[b]
                BY <2>8, <3>1
            <4>2. PICK i \in Nat \ {0}, j \in Nat \ {0}, k \in Nat : i = wide[a] /\ j = wide[b] /\ k = c.w
                BY <2>3, <2>6
            <4>3. /\ FirstPart(k, i, j) \in Nat /\ FirstPart(k, i, j) >= i
                  /\ SecondPart(k, i, j) \in Nat /\ SecondPart(k, i, j) >= j
                  /\ FirstPart(k, i, j) + SecondPart(k, i, j) = k
                BY <4>1, <4>2, PartsFit
            <4> QED
                BY <4>2, <4>3
        <3>4. e[a].w = x /\ e[a].h = c.h /\ e[b].w = y /\ e[b].h = c.h
            BY <2>3, <2>4, <2>9 DEF Cells
        <3> HIDE DEF a, b, high, wide, e, x, y
        <3>5. a \in W /\ b \in W
            BY <2>2, <2>3, <2>6, <2>8, <3>2, <3>3, <3>4
        <3>6. c.w * c.h = x * c.h + y * c.h
            <4>1. (x + y) * c.h = x * c.h + y * c.h
                BY <2>3, <3>3
            <4> QED
                BY <3>3, <4>1
        <3>7. Area(e, p) = Area(e, a) + Area(e, b)
            BY <2>3, <3>4, <3>6 DEF Area
        <3> QED
            BY <3>5, <3>7 DEF a, b
    <2>10. CASE t[p].dir = "Horizontal"
        <3>1. high[p] = high[a] + high[b]
            BY <1>3, <2>5, <2>10 DEF ShareIn
        <3>2. wide[a] <= wide[p] /\ wide[b] <= wide[p]
            <4>1. wide[p] = IF wide[a] > wide[b] THEN wide[a] ELSE wide[b]
                BY <1>3, <2>5, <2>10 DEF ShareIn
            <4> HIDE DEF a, b, high, wide
            <4> QED
                BY <2>6, <4>1
        <3> DEFINE x == FirstPart(c.h, high[a], high[b])
                   y == SecondPart(c.h, high[a], high[b])
        <3>3. /\ x \in Nat /\ x >= high[a] /\ y \in Nat /\ y >= high[b] /\ x + y = c.h
            <4>1. c.h >= high[a] + high[b]
                BY <2>8, <3>1
            <4>2. PICK i \in Nat \ {0}, j \in Nat \ {0}, k \in Nat : i = high[a] /\ j = high[b] /\ k = c.h
                BY <2>3, <2>6
            <4>3. /\ FirstPart(k, i, j) \in Nat /\ FirstPart(k, i, j) >= i
                  /\ SecondPart(k, i, j) \in Nat /\ SecondPart(k, i, j) >= j
                  /\ FirstPart(k, i, j) + SecondPart(k, i, j) = k
                BY <4>1, <4>2, PartsFit
            <4> QED
                BY <4>2, <4>3
        <3>4. e[a].h = x /\ e[a].w = c.w /\ e[b].h = y /\ e[b].w = c.w
            BY <2>3, <2>4, <2>10 DEF Cells
        <3> HIDE DEF a, b, high, wide, e, x, y
        <3>5. a \in W /\ b \in W
            BY <2>2, <2>3, <2>6, <2>8, <3>2, <3>3, <3>4
        <3>6. c.w * c.h = c.w * x + c.w * y
            <4>1. c.w * (x + y) = c.w * x + c.w * y
                BY <2>3, <3>3
            <4> QED
                BY <3>3, <4>1
        <3>7. Area(e, p) = Area(e, a) + Area(e, b)
            BY <2>3, <3>4, <3>6 DEF Area
        <3> QED
            BY <3>5, <3>7 DEF a, b
    <2> QED
        BY <2>7, <2>9, <2>10
<1>4. W = DOMAIN t
    <2>1. W \in SUBSET DOMAIN t
        OBVIOUS
    <2>2. Root \in W
        <3>1. Root \in DOMAIN t
            BY TreeIs
        <3> QED
            BY <1>1, <3>1
    <2>3. \A p \in W : t[p].split => BothIn(W, p)
        BY <1>3 DEF BothIn
    <2> HIDE DEF W
    <2> QED
        BY <2>1, <2>2, <2>3, FromTheRoot
<1>5. \A p \in DOMAIN t : e[p].w \in Nat \ {0} /\ e[p].h \in Nat \ {0}
    <2> SUFFICES ASSUME NEW p \in DOMAIN t PROVE e[p].w \in Nat \ {0} /\ e[p].h \in Nat \ {0}
        OBVIOUS
    <2>1. e[p].w >= wide[p] /\ e[p].h >= high[p]
        BY <1>4
    <2> HIDE DEF e, wide, high
    <2> QED
        BY <1>2, <2>1
<1>6. \A p \in DOMAIN t : Area(e, p) \in Nat
    <2> SUFFICES ASSUME NEW p \in DOMAIN t PROVE Area(e, p) \in Nat
        OBVIOUS
    <2>1. e[p].w \in Nat /\ e[p].h \in Nat
        BY <1>5
    <2> HIDE DEF e
    <2> QED
        BY <2>1 DEF Area
<1>7. Area(e, Root) = w * h
    BY <1>1 DEF Area
<1>8. \A p \in DOMAIN t : t[p].split => Parted(e, p)
    BY <1>3, <1>4 DEF Parted
<1> QED
    BY <1>5, <1>6, <1>7, <1>8

\* The leaves below a node cover it.
LEMMA LeavesCover ==
    ASSUME NEW t, IsTree(t), NEW e, \A p \in DOMAIN t : Area(e, p) \in Nat,
           \A p \in DOMAIN t : t[p].split => Parted(e, p)
    PROVE  Covered(e, Leaves(t)) = Area(e, Root)
<1> DEFINE Of(p) == Leaves(t) \cap Under(t, p)
           W == {p \in DOMAIN t : Covered(e, Of(p)) = Area(e, p)}
<1>1. /\ IsFiniteSet(DOMAIN t)
      /\ \A p : Of(p) \in SUBSET DOMAIN t
      /\ Covered(e, {}) = 0
    <2>1. IsFiniteSet(DOMAIN t)
        BY TreeIs
    <2>2. Covered(e, {}) = 0
        BY <2>1, SumOfMore
    <2> QED
        BY <2>1, <2>2 DEF Leaves
<1>2. ASSUME NEW p \in DOMAIN t, ~ t[p].split PROVE p \in W
    <2>1. Of(p) = {p}
        BY <1>2, UnderIs DEF Leaves
    <2>2. Covered(e, {p}) = Area(e, p) + Covered(e, {p} \ {p})
        <3>1. {p} \in SUBSET DOMAIN t /\ p \in {p}
            OBVIOUS
        <3> QED
            BY <1>1, <3>1, SumOfMore
    <2>3. {p} \ {p} = {} /\ Area(e, p) \in Nat
        OBVIOUS
    <2>4. Covered(e, {p}) = Area(e, p)
        <3>1. PICK k \in Nat : k = Area(e, p)
            BY <2>3
        <3>2. Covered(e, {p} \ {p}) = 0
            BY <1>1, <2>3
        <3>3. k + 0 = k
            BY <3>1
        <3> QED
            BY <2>2, <3>1, <3>2, <3>3
    <2>5. Covered(e, Of(p)) = Area(e, p)
        <3> HIDE DEF Of
        <3> QED
            BY <2>1, <2>4
    <2> QED
        BY <1>2, <2>5
<1>3. ASSUME NEW p \in DOMAIN t, t[p].split, BothIn(W, p) PROVE p \in W
    <2> DEFINE a == p \o <<1>>
               b == p \o <<2>>
    <2>1. /\ Under(t, p) = {p} \cup Under(t, a) \cup Under(t, b)
          /\ Under(t, a) \cap Under(t, b) = {}
        BY <1>3, ChildrenAre
    <2>2. p \notin Leaves(t)
        BY <1>3 DEF Leaves
    <2> HIDE DEF a, b
    <2>3. Of(p) = Of(a) \cup Of(b) /\ Of(a) \cap Of(b) = {}
        BY <2>1, <2>2
    <2>4. Covered(e, Of(a) \cup Of(b)) = Covered(e, Of(a)) + Covered(e, Of(b))
        <3> HIDE DEF Of
        <3> QED
            BY <1>1, <2>3, SumOfBoth
    <2>5. Area(e, p) = Area(e, a) + Area(e, b)
        BY <1>3 DEF Parted, a, b
    <2>6. Covered(e, Of(a)) = Area(e, a) /\ Covered(e, Of(b)) = Area(e, b)
        BY <1>3 DEF BothIn, a, b
    <2>7. Covered(e, Of(p)) = Area(e, p)
        <3> HIDE DEF Of
        <3> QED
            BY <2>3, <2>4, <2>5, <2>6
    <2> QED
        BY <1>3, <2>7
<1>4. W = DOMAIN t
    <2>1. W \in SUBSET DOMAIN t
        OBVIOUS
    <2>2. \A p \in DOMAIN t : (t[p].split => BothIn(W, p)) => p \in W
        <3> HIDE DEF W
        <3> QED
            BY <1>2, <1>3
    <2> HIDE DEF W
    <2> QED
        BY <2>1, <2>2, FromTheLeaves
<1>5. Root \in DOMAIN t /\ Of(Root) = Leaves(t)
    <2>1. Root \in DOMAIN t /\ DOMAIN t \subseteq Paths /\ \A s \in Paths : s = Root \o s
        BY TreeIs, PathAlgebra
    <2> QED
        BY <2>1 DEF Under, Leaves
<1> QED
    BY <1>4, <1>5

-----------------------------------------------------------------------------
(***************************************************************************)
(* Panes cover the screen                                                  *)
(***************************************************************************)
\* Whatever keys were pressed, on every screen that has a cell for every unit of the
\* tree's shares each pane gets at least one cell either way, and the panes together
\* have exactly the cells of the screen (renderPane hands out what it is given).
THEOREM ScreenIsCovered == Spec => []PanesTile
<1>1. ASSUME PaneInv PROVE PanesTile
    <2> SUFFICES ASSUME NEW s \in Screens,
                        s.w >= Share(tree, "Vertical")[Root], s.h >= Share(tree, "Horizontal")[Root]
                 PROVE  LET e == Extent(tree, s.w, s.h)
                        IN  /\ \A p \in Leaves(tree) : e[p].w >= 1 /\ e[p].h >= 1
                            /\ MapThenSumSet(LAMBDA p : e[p].w * e[p].h, Leaves(tree)) = s.w * s.h
        BY DEF PanesTile
    <2> DEFINE e == Extent(tree, s.w, s.h)
    <2>1. IsTree(tree) /\ s.w \in Nat /\ s.h \in Nat
        BY <1>1, LayoutAssumption DEF PaneInv, Values
    <2>2. /\ \A p \in DOMAIN tree : e[p].w \in Nat \ {0} /\ e[p].h \in Nat \ {0}
          /\ Area(e, Root) = s.w * s.h
          /\ \A p \in DOMAIN tree : Area(e, p) \in Nat
          /\ \A p \in DOMAIN tree : tree[p].split => Parted(e, p)
        BY <2>1, RoomIs
    <2> HIDE DEF e
    <2>3. Covered(e, Leaves(tree)) = s.w * s.h
        BY <2>1, <2>2, LeavesCover
    <2>4. MapThenSumSet(LAMBDA p : e[p].w * e[p].h, Leaves(tree)) = s.w * s.h
        BY <2>3 DEF Covered, Area
    <2>5. \A p \in Leaves(tree) : e[p].w >= 1 /\ e[p].h >= 1
        BY <2>2 DEF Leaves
    <2> QED
        BY <2>4, <2>5 DEF e
<1> QED
    BY <1>1, InitOk, PaneInvKept, PTL DEF Spec
=============================================================================
