-------------------------- MODULE ListPanes_proofs --------------------------
(***************************************************************************)
(* Proofs about the panes that draw lists, for every catalogue, inventory, *)
(* set of files, history and set of uniques, whatever is folded, searched  *)
(* or pruned:                                                              *)
(*   TypesHold         the state has its type                              *)
(*   EveryItemHasARow  an item is drawn once when nothing is folded        *)
(*   LeftGoesUp        Left goes from a row to the header above it         *)
(*   RunsTakeUpAll     the runs of a file take up each of its backups      *)
(*   KeysAgree         the keys act on the row that is highlighted         *)
(*   GridIsComplete    every unique is in one cell, below its banner       *)
(*   SessionsAreTiled  the runs of a session take up its time up to the    *)
(*                     last exit, or to its end while a game is running    *)
(*                                                                         *)
(* The invariant Inv itself is easily inductive: what the panes draw is a  *)
(* function of the state.  The work is in these functions, which sort,     *)
(* filter, group, fold and flatten sets and sequences of any size.  Where  *)
(* the library defines them by recursion or by a choice, it is first shown *)
(* that something meets the definition, with a least counterexample        *)
(* (WellFoundedInduction), and then what follows from it.                  *)
(***************************************************************************)
EXTENDS ListPanes, SequenceTheorems, WellFoundedInduction, FiniteSetTheorems, TLAPS

-----------------------------------------------------------------------------
(***************************************************************************)
(* Sets in order.  Sorted, Filtered and the sums are folds and choices of  *)
(* the library; what each returns is shown with a least counterexample.    *)
(***************************************************************************)

\* A set of numbers that has a member has a least one.
LEMMA HasLeast ==
    ASSUME NEW S \in SUBSET Nat, S # {}
    PROVE  \E m \in S : \A e \in S : m <= e
<1>1. PICK m \in S : \A e \in S : ~ (<<e, m>> \in OpToRel(<, Nat))
    BY NatLessThanWellFounded, WFMin
<1>2. \A e \in S : ~ (e < m)
    BY <1>1 DEF OpToRel
<1> QED
    BY <1>2

\* A set of numbers that has zero and with each number the next has all of them.
LEMMA CountUp ==
    ASSUME NEW W \in SUBSET Nat, 0 \in W, \A n \in W : n + 1 \in W
    PROVE  W = Nat
<1> SUFFICES ASSUME Nat \ W # {} PROVE FALSE
    OBVIOUS
<1>1. PICK m \in Nat \ W : \A k \in Nat \ W : m <= k
    <2>1. Nat \ W \in SUBSET Nat
        OBVIOUS
    <2> QED
        BY <2>1, HasLeast
<1>2. m - 1 \in Nat /\ m = (m - 1) + 1 /\ ~ (m <= m - 1)
    BY <1>1
<1> QED
    BY <1>1, <1>2

\* One element of a set and what is left of it.
Pick(s) == CHOOSE x \in s : TRUE

\* A set counts what one of its elements and the rest count.
Step(it, F, s) == IF s = {} THEN 0 ELSE F[Pick(s)] + it[s \ {Pick(s)}]

\* The fold of the library takes some function that follows these steps.
LEMMA SumIsFold ==
    ASSUME NEW F, NEW S, NEW f, f = [s \in SUBSET S |-> Step(f, F, s)]
    PROVE  \E g : g = [s \in SUBSET S |-> Step(g, F, s)] /\ SumOf(F, S) = g[S]
<1> DEFINE R(g) == [s \in SUBSET S |-> Step(g, F, s)]
           it == CHOOSE g : g = R(g)
<1>1. SumOf(F, S) = it[S]
    BY DEF SumOf, MapThenSumSet, MapThenFoldSet, Step, Pick
<1> HIDE DEF R
<1>2. f = R(f)
    BY DEF R
<1>3. it = R(it)
    BY <1>2
<1> QED
    BY <1>1, <1>3 DEF R

\* A function that sums up every subset of a set.
Sums(it, F, S) == it = [s \in SUBSET S |-> Step(it, F, s)]

\* Smaller sets are summed up first.
LEMMA SumExists ==
    ASSUME NEW F, NEW S, IsFiniteSet(S)
    PROVE  \E it : Sums(it, F, S)
<1> DEFINE Small(n) == {s \in SUBSET S : Cardinality(s) <= n}
           Good(it, n) == DOMAIN it = Small(n) /\ \A s \in Small(n) : it[s] = Step(it, F, s)
           W == {n \in Nat : \E it : Good(it, n)}
<1>1. \A s \in SUBSET S : IsFiniteSet(s) /\ Cardinality(s) \in Nat
    BY FS_Subset, FS_CardinalityType
<1>2. \A s \in SUBSET S : s # {} => /\ Pick(s) \in s /\ s \ {Pick(s)} \in SUBSET S
                                    /\ Cardinality(s \ {Pick(s)}) = Cardinality(s) - 1
    <2> SUFFICES ASSUME NEW s \in SUBSET S, s # {}
                 PROVE  /\ Pick(s) \in s /\ s \ {Pick(s)} \in SUBSET S
                        /\ Cardinality(s \ {Pick(s)}) = Cardinality(s) - 1
        OBVIOUS
    <2>1. Pick(s) \in s
        BY DEF Pick
    <2> QED
        BY <1>1, <2>1, FS_RemoveElement
<1>3. 0 \in W
    <2> DEFINE it == [s \in Small(0) |-> 0]
    <2>1. \A s \in Small(0) : s = {}
        BY <1>1, FS_EmptySet
    <2>2. Good(it, 0)
        BY <2>1 DEF Step
    <2> QED
        BY <2>2
<1>4. ASSUME NEW n \in W PROVE n + 1 \in W
    <2>1. n \in Nat
        OBVIOUS
    <2>2. PICK it : Good(it, n)
        OBVIOUS
    <2> DEFINE jt == [s \in Small(n + 1) |-> IF s \in Small(n) THEN it[s] ELSE Step(it, F, s)]
    <2>3. \A s \in Small(n + 1) : s # {} => s \ {Pick(s)} \in Small(n) /\ s \ {Pick(s)} \in Small(n + 1)
        BY <1>1, <1>2, <2>1
    <2>4. \A s \in Small(n + 1) : Step(jt, F, s) = Step(it, F, s)
        BY <2>3 DEF Step
    <2>5. \A s \in Small(n) : s \in Small(n + 1) /\ it[s] = Step(it, F, s)
        BY <1>1, <2>1, <2>2
    <2>6. Good(jt, n + 1)
        <3>1. \A s \in Small(n + 1) : jt[s] = Step(it, F, s)
            BY <2>5
        <3>2. DOMAIN jt = Small(n + 1)
            OBVIOUS
        <3> HIDE DEF jt
        <3> QED
            BY <2>4, <3>1, <3>2
    <2>7. n + 1 \in Nat
        BY <2>1
    <2> HIDE DEF Good, jt
    <2> QED
        BY <2>6, <2>7
<1>5. W = Nat
    <2>1. W \in SUBSET Nat
        OBVIOUS
    <2> HIDE DEF W
    <2> QED
        BY <1>3, <1>4, <2>1, CountUp
<1>6. PICK it : Good(it, Cardinality(S))
    <2>1. Cardinality(S) \in Nat
        BY FS_CardinalityType
    <2> HIDE DEF Good
    <2> QED
        BY <1>5, <2>1
<1>7. \A s \in SUBSET S : s \in Small(Cardinality(S))
    BY FS_Subset
<1>8. Small(Cardinality(S)) = SUBSET S
    BY <1>7
<1>9. Sums([s \in SUBSET S |-> it[s]], F, S)
    <2> DEFINE jt == [s \in SUBSET S |-> it[s]]
    <2>1. \A s \in SUBSET S : Step(jt, F, s) = Step(it, F, s)
        BY <1>2 DEF Step
    <2>2. \A s \in SUBSET S : jt[s] = Step(jt, F, s)
        BY <1>6, <1>8, <2>1
    <2> HIDE DEF Good, Small
    <2> QED
        BY <2>2 DEF Sums
<1> QED
    BY <1>9

\* Two ways to sum the same elements agree where both are defined.
LEMMA SumIsUnique ==
    ASSUME NEW F, NEW S, NEW T, IsFiniteSet(S), IsFiniteSet(T),
           NEW it, Sums(it, F, S), NEW jt, Sums(jt, F, T)
    PROVE  \A s \in (SUBSET S) \cap (SUBSET T) : it[s] = jt[s]
<1> DEFINE W == {n \in Nat : \A s \in (SUBSET S) \cap (SUBSET T) : Cardinality(s) <= n => it[s] = jt[s]}
<1>1. \A s \in SUBSET S : IsFiniteSet(s) /\ Cardinality(s) \in Nat
    BY FS_Subset, FS_CardinalityType
<1>2. \A s \in (SUBSET S) \cap (SUBSET T) :
          it[s] = Step(it, F, s) /\ jt[s] = Step(jt, F, s)
    BY DEF Sums
<1>3. 0 \in W
    <2>1. \A s \in SUBSET S : Cardinality(s) <= 0 => s = {}
        BY <1>1, FS_EmptySet
    <2> QED
        BY <1>2, <2>1 DEF Step
<1>4. ASSUME NEW n \in W PROVE n + 1 \in W
    <2>1. n \in Nat /\ n + 1 \in Nat
        OBVIOUS
    <2>2. ASSUME NEW s \in (SUBSET S) \cap (SUBSET T), Cardinality(s) <= n + 1, s # {}
          PROVE  it[s] = jt[s]
        <3>1. Pick(s) \in s
            BY <2>2 DEF Pick
        <3>2. Cardinality(s \ {Pick(s)}) = Cardinality(s) - 1
            BY <1>1, <3>1, FS_RemoveElement
        <3>3. it[s \ {Pick(s)}] = jt[s \ {Pick(s)}]
            BY <1>1, <2>1, <2>2, <3>2
        <3> QED
            BY <1>2, <2>2, <3>3 DEF Step
    <2>3. it[{}] = jt[{}]
        BY <1>2 DEF Step
    <2> QED
        BY <2>1, <2>2, <2>3
<1>5. W = Nat
    <2>1. W \in SUBSET Nat
        OBVIOUS
    <2> HIDE DEF W
    <2> QED
        BY <1>3, <1>4, <2>1, CountUp
<1> QED
    BY <1>1, <1>5

\* Any function that sums up the subsets of a set gives their sums.
LEMMA SumIs ==
    ASSUME NEW F, NEW S, IsFiniteSet(S), NEW it, Sums(it, F, S)
    PROVE  \A s \in SUBSET S : SumOf(F, s) = it[s]
<1> SUFFICES ASSUME NEW s \in SUBSET S PROVE SumOf(F, s) = it[s]
    OBVIOUS
<1>1. IsFiniteSet(s)
    BY FS_Subset
<1>2. PICK f : Sums(f, F, s)
    BY <1>1, SumExists
<1>3. PICK g : Sums(g, F, s) /\ SumOf(F, s) = g[s]
    BY <1>2, SumIsFold DEF Sums
<1> QED
    BY <1>1, <1>3, SumIsUnique

\* Whatever element is picked, the sum of a set is that of the rest and one more.
LEMMA SumOfMore ==
    ASSUME NEW F, NEW S, IsFiniteSet(S), \A x \in S : F[x] \in Nat
    PROVE  /\ SumOf(F, {}) = 0
           /\ \A s \in SUBSET S : SumOf(F, s) \in Nat
           /\ \A s \in SUBSET S : \A x \in s : SumOf(F, s) = F[x] + SumOf(F, s \ {x})
<1>1. PICK it : Sums(it, F, S)
    BY SumExists
<1>2. \A s \in SUBSET S : SumOf(F, s) = it[s] /\ it[s] = Step(it, F, s)
    <2>1. \A s \in SUBSET S : SumOf(F, s) = it[s]
        BY <1>1, SumIs
    <2>2. \A s \in SUBSET S : it[s] = Step(it, F, s)
        BY <1>1 DEF Sums
    <2> QED
        BY <2>1, <2>2
<1>3. \A s \in SUBSET S : s # {} =>
          Pick(s) \in s /\ SumOf(F, s) = F[Pick(s)] + SumOf(F, s \ {Pick(s)})
    <2> SUFFICES ASSUME NEW s \in SUBSET S, s # {}
                 PROVE  Pick(s) \in s /\ SumOf(F, s) = F[Pick(s)] + SumOf(F, s \ {Pick(s)})
        OBVIOUS
    <2>1. Pick(s) \in s
        BY DEF Pick
    <2>2. it[s] = F[Pick(s)] + it[s \ {Pick(s)}]
        BY <1>2 DEF Step
    <2> QED
        BY <1>2, <2>1, <2>2
<1>4. SumOf(F, {}) = 0
    BY <1>2 DEF Step
<1> DEFINE Good(s) == SumOf(F, s) \in Nat /\ \A x \in s : SumOf(F, s) = F[x] + SumOf(F, s \ {x})
           W == {n \in Nat : \A s \in SUBSET S : Cardinality(s) <= n => Good(s)}
<1>5. \A s \in SUBSET S : IsFiniteSet(s) /\ Cardinality(s) \in Nat
    BY FS_Subset, FS_CardinalityType
<1>6. 0 \in W
    <2>1. \A s \in SUBSET S : Cardinality(s) <= 0 => s = {}
        BY <1>5, FS_EmptySet
    <2>2. Good({})
        BY <1>4
    <2> HIDE DEF Good
    <2> QED
        BY <2>1, <2>2
<1>7. ASSUME NEW n \in W PROVE n + 1 \in W
    <2>1. n \in Nat /\ n + 1 \in Nat
        OBVIOUS
    <2>0. \A s \in SUBSET S : Cardinality(s) <= n => Good(s)
        OBVIOUS
    <2>2. ASSUME NEW s \in SUBSET S, Cardinality(s) <= n + 1, s # {} PROVE Good(s)
        <3> DEFINE c == Pick(s)
        <3>1. c \in s /\ SumOf(F, s) = F[c] + SumOf(F, s \ {c})
            BY <1>3, <2>2
        <3> HIDE DEF c
        <3>2. \A x \in s : Cardinality(s \ {x}) = Cardinality(s) - 1 /\ s \ {x} \in SUBSET S
            BY <1>5, FS_RemoveElement
        <3>3. \A x \in s : Good(s \ {x})
            <4> HIDE DEF Good
            <4> QED
                BY <1>5, <2>0, <2>1, <2>2, <3>2
        <3>4. SumOf(F, s) \in Nat
            BY <3>1, <3>3
        <3>5. ASSUME NEW x \in s, x # c PROVE SumOf(F, s) = F[x] + SumOf(F, s \ {x})
            <4>1. x \in s \ {c} /\ c \in s \ {x} /\ (s \ {c}) \ {x} = (s \ {x}) \ {c}
                BY <3>1, <3>5
            <4>2. SumOf(F, s \ {c}) = F[x] + SumOf(F, (s \ {c}) \ {x})
                BY <3>1, <3>3, <4>1
            <4>3. SumOf(F, s \ {x}) = F[c] + SumOf(F, (s \ {x}) \ {c})
                BY <3>3, <4>1
            <4>4. PICK k : k = SumOf(F, (s \ {x}) \ {c})
                OBVIOUS
            <4>5. k \in Nat
                <5>1. Cardinality((s \ {x}) \ {c}) <= n /\ (s \ {x}) \ {c} \in SUBSET S
                    <6>1. IsFiniteSet(s \ {x}) /\ Cardinality(s \ {x}) \in Nat
                        BY <1>5, <3>2
                    <6>2. Cardinality((s \ {x}) \ {c}) = Cardinality(s \ {x}) - 1
                        BY <4>1, <6>1, FS_RemoveElement
                    <6> QED
                        BY <1>5, <2>1, <2>2, <3>2, <6>1, <6>2
                <5>2. Good((s \ {x}) \ {c})
                    BY <2>0, <5>1
                <5> QED
                    BY <4>4, <5>2
            <4>6. F[x] \in Nat /\ F[c] \in Nat
                BY <3>1
            <4> QED
                BY <3>1, <4>1, <4>2, <4>3, <4>4, <4>5, <4>6
        <3> QED
            BY <3>1, <3>4, <3>5
    <2>3. Good({})
        BY <1>4
    <2> HIDE DEF Good
    <2> QED
        BY <2>1, <2>2, <2>3
<1>8. W = Nat
    <2>1. W \in SUBSET Nat
        OBVIOUS
    <2> HIDE DEF W
    <2> QED
        BY <1>6, <1>7, <2>1, CountUp
<1>9. \A s \in SUBSET S : Good(s)
    <2> HIDE DEF Good
    <2> QED
        BY <1>5, <1>8
<1> QED
    BY <1>4, <1>9

\* Two sets that have nothing in common are summed up one after the other.
LEMMA SumOfBoth ==
    ASSUME NEW F, NEW S, IsFiniteSet(S), \A x \in S : F[x] \in Nat,
           NEW A \in SUBSET S, NEW B \in SUBSET S, A \cap B = {}
    PROVE  SumOf(F, A \cup B) = SumOf(F, A) + SumOf(F, B)
<1> DEFINE W == {n \in Nat : \A b \in SUBSET B : Cardinality(b) <= n =>
                                SumOf(F, A \cup b) = SumOf(F, A) + SumOf(F, b)}
<1>1. \A b \in SUBSET B : IsFiniteSet(b) /\ Cardinality(b) \in Nat
    BY FS_Subset, FS_CardinalityType
<1>2. /\ SumOf(F, {}) = 0
      /\ \A s \in SUBSET S : SumOf(F, s) \in Nat
      /\ \A s \in SUBSET S : \A x \in s : SumOf(F, s) = F[x] + SumOf(F, s \ {x})
    BY SumOfMore
<1>3. SumOf(F, A \cup {}) = SumOf(F, A) + SumOf(F, {})
    BY <1>2
<1>4. 0 \in W
    <2>1. \A b \in SUBSET B : Cardinality(b) <= 0 => b = {}
        BY <1>1, FS_EmptySet
    <2> QED
        BY <1>3, <2>1
<1>5. ASSUME NEW n \in W PROVE n + 1 \in W
    <2>1. n \in Nat /\ n + 1 \in Nat
        OBVIOUS
    <2>2. ASSUME NEW b \in SUBSET B, Cardinality(b) <= n + 1, b # {}
          PROVE  SumOf(F, A \cup b) = SumOf(F, A) + SumOf(F, b)
        <3>1. PICK x \in b : TRUE
            BY <2>2
        <3>2. Cardinality(b \ {x}) = Cardinality(b) - 1
            BY <1>1, <3>1, FS_RemoveElement
        <3>3. SumOf(F, A \cup (b \ {x})) = SumOf(F, A) + SumOf(F, b \ {x})
            BY <1>1, <2>1, <2>2, <3>2
        <3>4. (A \cup b) \ {x} = A \cup (b \ {x}) /\ x \in A \cup b /\ A \cup b \in SUBSET S
            BY <3>1
        <3>5. /\ SumOf(F, A \cup b) = F[x] + SumOf(F, A \cup (b \ {x}))
              /\ SumOf(F, b) = F[x] + SumOf(F, b \ {x})
            BY <1>2, <3>1, <3>4
        <3>6. /\ SumOf(F, A) \in Nat /\ SumOf(F, b \ {x}) \in Nat /\ F[x] \in Nat
            BY <1>2, <3>1
        <3> QED
            BY <3>3, <3>5, <3>6
    <2> QED
        BY <1>3, <2>1, <2>2
<1>6. W = Nat
    <2>1. W \in SUBSET Nat
        OBVIOUS
    <2> HIDE DEF W
    <2> QED
        BY <1>4, <1>5, <2>1, CountUp
<1>7. B \in SUBSET B
    OBVIOUS
<1> QED
    BY <1>1, <1>6, <1>7

\* A property of all small subsets of a finite set, if it holds of the empty one and
\* grows with one element, holds of all of them.
LEMMA SubsetsUp ==
    ASSUME NEW S, IsFiniteSet(S), NEW Q \in SUBSET (SUBSET S), {} \in Q,
           \A s \in SUBSET S : \A x \in s : s \ {x} \in Q => s \in Q
    PROVE  Q = SUBSET S
<1> DEFINE W == {n \in Nat : \A s \in SUBSET S : Cardinality(s) <= n => s \in Q}
<1>1. \A s \in SUBSET S : IsFiniteSet(s) /\ Cardinality(s) \in Nat
    BY FS_Subset, FS_CardinalityType
<1>2. 0 \in W
    <2>1. \A s \in SUBSET S : Cardinality(s) <= 0 => s = {}
        BY <1>1, FS_EmptySet
    <2> QED
        BY <2>1
<1>3. ASSUME NEW n \in W PROVE n + 1 \in W
    <2>1. n \in Nat /\ n + 1 \in Nat
        OBVIOUS
    <2>2. ASSUME NEW s \in SUBSET S, Cardinality(s) <= n + 1, s # {} PROVE s \in Q
        <3>1. PICK x \in s : TRUE
            BY <2>2
        <3>2. Cardinality(s \ {x}) = Cardinality(s) - 1
            BY <1>1, <3>1, FS_RemoveElement
        <3>3. s \ {x} \in Q
            BY <1>1, <2>1, <2>2, <3>2
        <3> QED
            BY <3>1, <3>3
    <2> QED
        BY <2>1, <2>2
<1>4. W = Nat
    <2>1. W \in SUBSET Nat
        OBVIOUS
    <2> HIDE DEF W
    <2> QED
        BY <1>2, <1>3, <2>1, CountUp
<1> QED
    BY <1>1, <1>4

\* A sum over elements that count the same is the same.
LEMMA SumOfSame ==
    ASSUME NEW F, NEW G, NEW S, IsFiniteSet(S), \A x \in S : F[x] = G[x]
    PROVE  SumOf(F, S) = SumOf(G, S)
<1>1. PICK it : Sums(it, F, S)
    BY SumExists
<1>2. \A s \in SUBSET S : Step(it, F, s) = Step(it, G, s)
    <2>1. \A s \in SUBSET S : s # {} => Pick(s) \in S
        BY DEF Pick
    <2> QED
        BY <2>1 DEF Step
<1>3. Sums(it, G, S)
    BY <1>1, <1>2 DEF Sums
<1> QED
    BY <1>1, <1>3, SumIs

\* What counts nothing can be left out.
LEMMA SumOfSome ==
    ASSUME NEW F, NEW S, IsFiniteSet(S), \A x \in S : F[x] \in Nat,
           NEW A \in SUBSET S, \A x \in S \ A : F[x] = 0
    PROVE  SumOf(F, S) = SumOf(F, A)
<1> DEFINE B == S \ A
           Q == {s \in SUBSET B : SumOf(F, s) = 0}
<1>1. /\ SumOf(F, {}) = 0
      /\ \A s \in SUBSET S : SumOf(F, s) \in Nat
      /\ \A s \in SUBSET S : \A x \in s : SumOf(F, s) = F[x] + SumOf(F, s \ {x})
    BY SumOfMore
<1>2. IsFiniteSet(B) /\ {} \in Q /\ Q \in SUBSET (SUBSET B)
    BY <1>1, FS_Subset
<1>3. \A s \in SUBSET B : \A x \in s : s \ {x} \in Q => s \in Q
    BY <1>1
<1>4. Q = SUBSET B
    <2> HIDE DEF Q
    <2> QED
        BY <1>2, <1>3, SubsetsUp
<1>5. SumOf(F, B) = 0
    BY <1>4
<1>6. SumOf(F, A \cup B) = SumOf(F, A) + SumOf(F, B)
    BY SumOfBoth
<1>7. A \cup B = S
    OBVIOUS
<1> HIDE DEF B
<1>8. SumOf(F, S) = SumOf(F, A) + 0 /\ SumOf(F, A) \in Nat
    BY <1>1, <1>5, <1>6, <1>7
<1> QED
    BY <1>8

\* The things of a set under other names.
Image(h, s) == {h[x] : x \in s}

\* Under their other names things count the same, and no two of them have one name.
Renames(h, F, G, S) ==
    /\ \A x \in S : F[x] \in Nat /\ G[h[x]] = F[x]
    /\ \A x, y \in S : h[x] = h[y] => x = y

\* Counting things under other names.
LEMMA SumOfImage ==
    ASSUME NEW F, NEW G, NEW h, NEW S, IsFiniteSet(S), Renames(h, F, G, S)
    PROVE  SumOf(G, Image(h, S)) = SumOf(F, S)
<1> DEFINE Q == {s \in SUBSET S : SumOf(G, Image(h, s)) = SumOf(F, s)}
           T == Image(h, S)
<1>1. IsFiniteSet(T)
    <2>1. [x \in S |-> h[x]] \in Surjection(S, T)
        BY DEF Surjection, Image
    <2> QED
        BY <2>1, FS_Surjection
<1>2. \A y \in T : G[y] \in Nat
    BY DEF Image, Renames
<1>3. /\ SumOf(F, {}) = 0
      /\ \A s \in SUBSET S : \A x \in s : SumOf(F, s) = F[x] + SumOf(F, s \ {x})
    <2>1. \A x \in S : F[x] \in Nat
        BY DEF Renames
    <2> QED
        BY <2>1, SumOfMore
<1>4. /\ SumOf(G, {}) = 0
      /\ \A s \in SUBSET T : \A y \in s : SumOf(G, s) = G[y] + SumOf(G, s \ {y})
    <2> HIDE DEF T
    <2> QED
        BY <1>1, <1>2, SumOfMore
<1>5. {} \in Q /\ Q \in SUBSET (SUBSET S)
    <2>1. Image(h, {}) = {}
        BY DEF Image
    <2> QED
        BY <1>3, <1>4, <2>1
<1>6. \A s \in SUBSET S : \A x \in s : s \ {x} \in Q => s \in Q
    <2> SUFFICES ASSUME NEW s \in SUBSET S, NEW x \in s, s \ {x} \in Q PROVE s \in Q
        OBVIOUS
    <2>1. Image(h, s) \in SUBSET T /\ h[x] \in Image(h, s) /\ Image(h, s) \ {h[x]} = Image(h, s \ {x})
        BY DEF Image, Renames
    <2>2. SumOf(G, Image(h, s)) = G[h[x]] + SumOf(G, Image(h, s \ {x}))
        BY <1>4, <2>1
    <2>3. SumOf(F, s) = F[x] + SumOf(F, s \ {x})
        BY <1>3
    <2>4. G[h[x]] = F[x]
        BY DEF Renames
    <2> QED
        BY <2>2, <2>3, <2>4
<1>7. Q = SUBSET S
    <2> HIDE DEF Q
    <2> QED
        BY <1>5, <1>6, SubsetsUp
<1> QED
    BY <1>7

\* A sum over sets that have nothing in common is the sum of their sums.
LEMMA SumOfParts ==
    ASSUME NEW G, NEW A, IsFiniteSet(A), NEW U, IsFiniteSet(U), NEW R \in [A -> SUBSET U],
           \A y \in U : G[y] \in Nat,
           \A a, b \in A : a # b => R[a] \cap R[b] = {}
    PROVE  SumOf(G, UNION {R[a] : a \in A}) = SumOf([a \in A |-> SumOf(G, R[a])], A)
<1> DEFINE F == [a \in A |-> SumOf(G, R[a])]
           Of(B) == UNION {R[a] : a \in B}
           Q == {B \in SUBSET A : SumOf(G, Of(B)) = SumOf(F, B)}
<1>1. \A s \in SUBSET U : SumOf(G, s) \in Nat
    BY SumOfMore
<1>2. \A a \in A : F[a] \in Nat /\ F[a] = SumOf(G, R[a])
    BY <1>1
<1>3. /\ SumOf(F, {}) = 0
      /\ \A s \in SUBSET A : \A x \in s : SumOf(F, s) = F[x] + SumOf(F, s \ {x})
    <2> HIDE DEF F
    <2> QED
        BY <1>2, SumOfMore
<1>4. {} \in Q /\ Q \in SUBSET (SUBSET A)
    <2>1. Of({}) = {}
        OBVIOUS
    <2>2. SumOf(G, {}) = 0
        BY SumOfMore
    <2> HIDE DEF Of, F
    <2> QED
        BY <1>3, <2>1, <2>2
<1>5. \A B \in SUBSET A : \A a \in B : B \ {a} \in Q => B \in Q
    <2> SUFFICES ASSUME NEW B \in SUBSET A, NEW a \in B, B \ {a} \in Q PROVE B \in Q
        OBVIOUS
    <2>1. Of(B) = R[a] \cup Of(B \ {a}) /\ R[a] \cap Of(B \ {a}) = {}
        OBVIOUS
    <2>2. R[a] \in SUBSET U /\ Of(B \ {a}) \in SUBSET U
        OBVIOUS
    <2> HIDE DEF Of
    <2>3. SumOf(G, Of(B)) = SumOf(G, R[a]) + SumOf(G, Of(B \ {a}))
        <3>1. PICK X \in SUBSET U, Y \in SUBSET U : X = R[a] /\ Y = Of(B \ {a})
            BY <2>2
        <3>2. SumOf(G, X \cup Y) = SumOf(G, X) + SumOf(G, Y)
            <4>1. X \cap Y = {}
                BY <2>1, <3>1
            <4> QED
                BY <4>1, SumOfBoth
        <3> QED
            BY <2>1, <3>1, <3>2
    <2> HIDE DEF F
    <2>4. SumOf(F, B) = F[a] + SumOf(F, B \ {a})
        BY <1>3
    <2> QED
        BY <1>2, <2>3, <2>4
<1>6. Q = SUBSET A
    <2> HIDE DEF Q
    <2> QED
        BY <1>4, <1>5, SubsetsUp
<1> QED
    BY <1>6

\* Functions that agree everywhere are the same.
LEMMA SameFunction ==
    ASSUME NEW A, NEW B, NEW f \in [A -> B], NEW g \in [A -> B], \A x \in A : f[x] = g[x]
    PROVE  f = g
OBVIOUS

\* A function on the first numbers is a sequence.
LEMMA IsSeq ==
    ASSUME NEW n \in Nat, NEW T, NEW s \in [1..n -> T]
    PROVE  s \in Seq(T) /\ Len(s) = n /\ DOMAIN s = 1..n
<1>1. s \in Seq(T)
    BY SeqDef
<1>2. DOMAIN s = 1..Len(s) /\ Len(s) \in Nat
    BY <1>1, LenProperties
<1>3. DOMAIN s = 1..n
    OBVIOUS
<1>4. \A i \in Nat : i \in 1..Len(s) <=> i \in 1..n
    BY <1>2, <1>3
<1>5. n # 0 => n \in 1..Len(s)
    BY <1>4
<1>6. Len(s) # 0 => Len(s) \in 1..n
    BY <1>2, <1>4
<1> QED
    BY <1>1, <1>2, <1>3, <1>5, <1>6

\* A finite set of numbers has a largest.
LEMMA MaxIs ==
    ASSUME NEW S, S \subseteq Int, IsFiniteSet(S), S # {}
    PROVE  Max(S) \in S /\ \A x \in S : x <= Max(S)
<1> DEFINE Q == {s \in SUBSET S : s # {} => \E m \in s : \A x \in s : x <= m}
<1>1. {} \in Q /\ Q \in SUBSET (SUBSET S)
    OBVIOUS
<1>2. ASSUME NEW s \in SUBSET S, NEW x \in s, s \ {x} \in Q PROVE s \in Q
    <2>1. x \in Int /\ s \subseteq Int
        OBVIOUS
    <2>2. CASE s \ {x} = {}
        BY <2>1, <2>2
    <2>3. CASE s \ {x} # {}
        <3>1. PICK m \in s \ {x} : \A y \in s \ {x} : y <= m
            BY <1>2, <2>3
        <3>2. \A y \in s : y <= IF x <= m THEN m ELSE x
            BY <2>1, <3>1
        <3> QED
            BY <3>1, <3>2
    <2> QED
        BY <2>2, <2>3
<1>3. Q = SUBSET S
    <2> HIDE DEF Q
    <2> QED
        BY <1>1, <1>2, SubsetsUp
<1>4. \E m \in S : \A x \in S : m >= x
    BY <1>3
<1> QED
    BY <1>4 DEF Max

\* S has as many numbers in order as it has elements, each element once, and the
\* numbers follow the order.
InOrderOf(q, S, before) ==
    LET n == Cardinality(S)
    IN  /\ n \in Nat /\ q \in [1..n -> S] /\ q \in Seq(S) /\ Len(q) = n /\ DOMAIN q = 1..n
        /\ \A x \in S : \E i \in 1..n : q[i] = x
        /\ \A i, j \in 1..n : i < j <=> q[i] \in before[q[j]]
        /\ \A i, j \in 1..n : q[i] = q[j] => i = j

\* What comes before what is an order of S.
IsOrder(before, S) ==
    /\ before \in [S -> SUBSET S]
    /\ \A x \in S : x \notin before[x]
    /\ \A x, y \in S : y \in before[x] => before[y] \subseteq before[x]
    /\ \A x, y \in S : x # y => x \in before[y] \/ y \in before[x]

\* Sorting: the numbers of elements before an element are different, hence all of
\* 0 .. n - 1.
LEMMA InOrderIs ==
    ASSUME NEW S, IsFiniteSet(S), NEW before, IsOrder(before, S)
    PROVE  InOrderOf(InOrder(S, before), S, before)
<1> DEFINE n == Cardinality(S)
           rank == [p \in S |-> Cardinality(before[p])]
           l == InOrder(S, before)
<1>1. n \in Nat
    BY FS_CardinalityType
<1>2. before \in [S -> SUBSET S]
    BY DEF IsOrder
<1>3. \A p \in S : IsFiniteSet(before[p]) /\ Cardinality(before[p]) \in Nat
    BY <1>2, FS_Subset, FS_CardinalityType
<1>4. \A p \in S : rank[p] = Cardinality(before[p])
    OBVIOUS
<1>5. ASSUME NEW p \in S, NEW q \in S, p \in before[q] PROVE rank[p] < rank[q]
    <2>1. before[p] \in SUBSET before[q] /\ before[p] # before[q]
        BY <1>5 DEF IsOrder
    <2>2. IsFiniteSet(before[q]) /\ Cardinality(before[p]) \in Nat /\ Cardinality(before[q]) \in Nat
        BY <1>3
    <2>3. Cardinality(before[p]) <= Cardinality(before[q]) /\ Cardinality(before[p]) # Cardinality(before[q])
        BY <2>1, <2>2, FS_Subset
    <2> HIDE DEF rank
    <2> QED
        BY <1>4, <2>2, <2>3
<1>6. \A p \in S : rank[p] \in 0..(n - 1)
    <2> SUFFICES ASSUME NEW p \in S PROVE rank[p] \in 0..(n - 1)
        OBVIOUS
    <2>1. before[p] \in SUBSET S /\ before[p] # S
        BY DEF IsOrder
    <2>2. Cardinality(before[p]) \in Nat
        BY <1>3
    <2>3. Cardinality(before[p]) <= n /\ Cardinality(before[p]) # n
        BY <2>1, FS_Subset
    <2> QED
        BY <1>1, <1>4, <2>2, <2>3
<1>7. \A p, q \in S : rank[p] = rank[q] => p = q
    <2> SUFFICES ASSUME NEW p \in S, NEW q \in S, rank[p] = rank[q], p # q PROVE FALSE
        OBVIOUS
    <2>1. p \in before[q] \/ q \in before[p]
        BY DEF IsOrder
    <2>2. rank[p] < rank[q] \/ rank[q] < rank[p]
        BY <1>5, <2>1
    <2>3. rank[p] \in 0..(n - 1) /\ rank[q] \in 0..(n - 1)
        BY <1>6
    <2> HIDE DEF rank, n
    <2> QED
        BY <2>2, <2>3
<1>8. ASSUME NEW i \in 1..n PROVE \E p \in S : Cardinality(before[p]) = i - 1
    <2> DEFINE T == 0..(n - 1)
    <2>1. rank \in Injection(S, T)
        <3>1. rank \in [S -> T]
            BY <1>6
        <3> HIDE DEF rank, T
        <3> QED
            BY <1>7, <3>1 DEF Injection, IsInjective
    <2>2. IsFiniteSet(T) /\ Cardinality(T) = n
        <3>1. 0 \in Int /\ n - 1 \in Int /\ ~ (0 > n - 1) /\ n - 1 - 0 + 1 = n
            BY <1>1
        <3> HIDE DEF n
        <3> QED
            BY <3>1, FS_Interval
    <2> HIDE DEF rank, T
    <2>3. rank \in Surjection(S, T)
        BY <2>1, <2>2, FS_Injection
    <2>4. i - 1 \in T
        BY <1>1 DEF T
    <2>5. PICK p \in S : rank[p] = i - 1
        BY <2>3, <2>4 DEF Surjection
    <2> QED
        BY <1>4, <2>5
<1>9. l = [i \in 1..n |-> CHOOSE x \in S : Cardinality(before[x]) = i - 1]
    BY DEF InOrder
<1>10. \A i \in 1..n : l[i] \in S /\ Cardinality(before[l[i]]) = i - 1
    <2> SUFFICES ASSUME NEW i \in 1..n PROVE l[i] \in S /\ Cardinality(before[l[i]]) = i - 1
        OBVIOUS
    <2>1. l[i] = CHOOSE p \in S : Cardinality(before[p]) = i - 1
        BY <1>9
    <2> HIDE DEF l, n
    <2> QED
        BY <1>8, <2>1
<1> HIDE DEF l, n
<1>11. l \in [1..n -> S]
    BY <1>9, <1>10
<1>12. l \in Seq(S) /\ Len(l) = n /\ DOMAIN l = 1..n
    BY <1>1, <1>11, IsSeq
<1>13. \A x \in S : \E i \in 1..n : l[i] = x
    <2> SUFFICES ASSUME NEW x \in S PROVE \E i \in 1..n : l[i] = x
        OBVIOUS
    <2>1. rank[x] \in 0..(n - 1) /\ rank[x] + 1 \in 1..n
        BY <1>1, <1>6
    <2>2. l[rank[x] + 1] \in S /\ Cardinality(before[l[rank[x] + 1]]) = (rank[x] + 1) - 1
        <3> HIDE DEF rank
        <3> QED
            BY <1>10, <2>1
    <2>3. rank[l[rank[x] + 1]] = rank[x]
        <3> HIDE DEF rank
        <3> QED
            BY <1>4, <2>1, <2>2
    <2> HIDE DEF rank
    <2> QED
        BY <1>7, <2>1, <2>2, <2>3
<1>14. \A i \in 1..n : l[i] \in S /\ rank[l[i]] = i - 1
    BY <1>4, <1>10
<1>15. \A i, j \in 1..n : i < j <=> l[i] \in before[l[j]]
    <2> SUFFICES ASSUME NEW i \in 1..n, NEW j \in 1..n PROVE i < j <=> l[i] \in before[l[j]]
        OBVIOUS
    <2>1. l[i] \in S /\ rank[l[i]] = i - 1 /\ l[j] \in S /\ rank[l[j]] = j - 1
        BY <1>14
    <2> HIDE DEF rank
    <2>2. ASSUME l[i] \in before[l[j]] PROVE i < j
        BY <1>1, <1>5, <2>1, <2>2
    <2>3. ASSUME i < j PROVE l[i] \in before[l[j]]
        <3>1. l[i] # l[j]
            BY <1>1, <2>1, <2>3
        <3>2. l[i] \in before[l[j]] \/ l[j] \in before[l[i]]
            BY <2>1, <3>1 DEF IsOrder
        <3>3. l[j] \in before[l[i]] => j - 1 < i - 1
            BY <1>5, <2>1
        <3> QED
            BY <1>1, <2>3, <3>2, <3>3
    <2> QED
        BY <2>2, <2>3
<1>16. \A i, j \in 1..n : l[i] = l[j] => i = j
    <2> HIDE DEF rank
    <2> QED
        BY <1>1, <1>14
<1> QED
    BY <1>1, <1>11, <1>12, <1>13, <1>15, <1>16 DEF l, n, InOrderOf

\* Any two sequences in the same order are the same.
LEMMA InOrderIsUnique ==
    ASSUME NEW S, NEW before, IsOrder(before, S), NEW p, NEW q,
           InOrderOf(p, S, before), InOrderOf(q, S, before)
    PROVE  p = q
<1> DEFINE n == Cardinality(S)
<1>1. /\ n \in Nat /\ p \in [1..n -> S] /\ q \in [1..n -> S]
      /\ \A x \in S : \E i \in 1..n : p[i] = x
      /\ \A x \in S : \E i \in 1..n : q[i] = x
      /\ \A i, j \in 1..n : i < j <=> p[i] \in before[p[j]]
      /\ \A i, j \in 1..n : i < j <=> q[i] \in before[q[j]]
    BY DEF InOrderOf
<1>2. \A i, j \in 1..n : p[i] = p[j] => i = j
    BY DEF InOrderOf
<1>3. \A i, j \in 1..n : q[i] = q[j] => i = j
    BY DEF InOrderOf
<1> HIDE DEF n
<1>4. ASSUME {i \in 1..n : p[i] # q[i]} # {} PROVE FALSE
    <2>1. {i \in 1..n : p[i] # q[i]} \in SUBSET Nat
        BY <1>1
    <2>2. PICK m \in {i \in 1..n : p[i] # q[i]} : \A e \in {i \in 1..n : p[i] # q[i]} : m <= e
        BY <1>4, <2>1, HasLeast
    <2>3. m \in 1..n /\ p[m] # q[m] /\ \A i \in 1..n : i < m => p[i] = q[i]
        BY <1>1, <2>2
    <2>4. PICK a \in 1..n : p[a] = q[m]
        BY <1>1, <2>3
    <2>5. PICK b \in 1..n : q[b] = p[m]
        BY <1>1, <2>3
    <2>6. a > m /\ b > m
        <3>1. a # m /\ b # m
            BY <2>3, <2>4, <2>5
        <3>2. ~ (a < m)
            BY <1>3, <2>3, <2>4
        <3>3. ~ (b < m)
            BY <1>2, <2>3, <2>5
        <3> QED
            BY <1>1, <2>3, <3>1, <3>2, <3>3
    <2>7. p[m] \in before[q[m]] /\ q[m] \in before[p[m]]
        BY <1>1, <2>3, <2>4, <2>5, <2>6
    <2>8. p[m] \in S /\ q[m] \in S
        BY <1>1, <2>3
    <2> QED
        BY <2>7, <2>8 DEF IsOrder
<1>5. \A i \in 1..n : p[i] = q[i]
    BY <1>4
<1>6. p \in [1..n -> S] /\ q \in [1..n -> S]
    BY <1>1
<1> DEFINE D == 1..n
<1>7. p \in [D -> S] /\ q \in [D -> S] /\ \A i \in D : p[i] = q[i]
    BY <1>5, <1>6
<1> HIDE DEF D
<1> QED
    BY <1>7, SameFunction

-----------------------------------------------------------------------------
(***************************************************************************)
(* Recursion and flattening.  FlattenSeq is recursive in the library: that *)
(* its parts lie one behind the other follows from the first parts, joined. *)
(***************************************************************************)

\* What is worked out step by step over the first n numbers exists.
CanRecur(n, T, base, step) == n \in Nat /\ base \in T /\ step \in [1..n -> [T -> T]]
Recurs(f, n, T, base, step) ==
    f \in [0..n -> T] /\ f[0] = base /\ \A k \in 1..n : f[k] = step[k][f[k - 1]]

\* It exists: a smallest number up to which it does not exist cannot be.
LEMMA Recursion ==
    ASSUME NEW n, NEW T, NEW base, NEW step, CanRecur(n, T, base, step)
    PROVE  \E f : Recurs(f, n, T, base, step)
<1> n \in Nat /\ base \in T /\ step \in [1..n -> [T -> T]]
    BY DEF CanRecur
<1> DEFINE Good(f, m) == f \in [0..m -> T] /\ f[0] = base /\ \A k \in 1..m : f[k] = step[k][f[k - 1]]
           W == {m \in Nat : m <= n => \E f : Good(f, m)}
<1>1. 0 \in W
    <2>1. Good([k \in 0..0 |-> base], 0)
        OBVIOUS
    <2> QED
        BY <2>1
<1>2. ASSUME NEW m \in W PROVE m + 1 \in W
    <2> SUFFICES ASSUME m + 1 <= n PROVE \E f : Good(f, m + 1)
        OBVIOUS
    <2>1. PICK f : Good(f, m)
        BY <1>2
    <2>2. m + 1 \in 1..n /\ m \in 0..m
        OBVIOUS
    <2>3. f[m] \in T
        BY <2>1, <2>2
    <2> DEFINE v == step[m + 1][f[m]]
               g == [k \in 0..m + 1 |-> IF k = m + 1 THEN v ELSE f[k]]
    <2>4. v \in T
        BY <2>2, <2>3
    <2> HIDE DEF v
    <2>5. \A k \in 0..m : g[k] = f[k] /\ g[k] \in T
        BY <2>1
    <2>6. g \in [0..m + 1 -> T]
        <3>1. \A k \in 0..m + 1 : (IF k = m + 1 THEN v ELSE f[k]) \in T
            <4>1. \A k \in 0..m + 1 : k # m + 1 => k \in 0..m
                OBVIOUS
            <4>2. \A k \in 0..m : f[k] \in T
                BY <2>1
            <4> QED
                BY <2>4, <4>1, <4>2
        <3> QED
            BY <3>1
    <2>7. \A k \in 1..m + 1 : g[k] = step[k][g[k - 1]]
        <3> SUFFICES ASSUME NEW k \in 1..m + 1 PROVE g[k] = step[k][g[k - 1]]
            OBVIOUS
        <3>1. CASE k = m + 1
            <4>1. g[k] = v /\ g[k - 1] = f[m]
                BY <3>1, <2>5
            <4> QED
                BY <3>1, <4>1 DEF v
        <3>2. CASE k # m + 1
            <4>1. k \in 1..m /\ k \in 0..m /\ k - 1 \in 0..m
                BY <3>2
            <4> HIDE DEF g
            <4> QED
                BY <2>1, <2>5, <4>1
        <3> QED
            BY <3>1, <3>2
    <2>8. Good(g, m + 1)
        <3>1. g[0] = base
            <4>1. 0 \in 0..m /\ f[0] = base
                BY <2>1
            <4> HIDE DEF g
            <4> QED
                BY <2>5, <4>1
        <3> HIDE DEF g
        <3> QED
            BY <2>6, <2>7, <3>1
    <2> QED
        BY <2>8
<1>3. W = Nat
    <2>1. W \in SUBSET Nat
        OBVIOUS
    <2> HIDE DEF W
    <2> QED
        BY <1>1, <1>2, <2>1, CountUp
<1>4. \E f : Good(f, n)
    <2> HIDE DEF Good
    <2>1. n \in W /\ n <= n
        BY <1>3
    <2> QED
        BY <2>1
<1> QED
    BY <1>4 DEF Recurs

\* Positions in their natural order.
Positions(at) == InOrder(at, [i \in at |-> {j \in at : j < i}])

\* The positions of a set of numbers are the numbers in ascending order.
LEMMA PositionsAre ==
    ASSUME NEW at, at \subseteq Int, IsFiniteSet(at)
    PROVE  /\ IsOrder([i \in at |-> {j \in at : j < i}], at)
           /\ InOrderOf(Positions(at), at, [i \in at |-> {j \in at : j < i}])
           /\ \A k, l \in 1..Cardinality(at) : k < l <=> Positions(at)[k] < Positions(at)[l]
<1> DEFINE b == [i \in at |-> {j \in at : j < i}]
<1>1. IsOrder(b, at)
    <2>1. b \in [at -> SUBSET at]
        OBVIOUS
    <2>2. \A x, y \in at : x \in b[y] <=> x < y
        OBVIOUS
    <2>3. \A x, y \in at : x \in Int /\ y \in Int
        OBVIOUS
    <2>4. \A x, y \in at : y \in b[x] => b[y] \subseteq b[x]
        <3> SUFFICES ASSUME NEW x \in at, NEW y \in at, y \in b[x], NEW z \in b[y] PROVE z \in b[x]
            OBVIOUS
        <3>1. z \in at
            BY <2>1
        <3> HIDE DEF b
        <3> QED
            BY <2>2, <2>3, <3>1
    <2> HIDE DEF b
    <2> QED
        BY <2>1, <2>2, <2>3, <2>4 DEF IsOrder
<1>2. InOrderOf(Positions(at), at, b)
    BY <1>1, InOrderIs DEF Positions
<1>3. \A k, l \in 1..Cardinality(at) : k < l <=> Positions(at)[k] < Positions(at)[l]
    <2> SUFFICES ASSUME NEW k \in 1..Cardinality(at), NEW l \in 1..Cardinality(at)
                 PROVE  k < l <=> Positions(at)[k] < Positions(at)[l]
        OBVIOUS
    <2>1. k < l <=> Positions(at)[k] \in b[Positions(at)[l]]
        BY <1>2 DEF InOrderOf
    <2>2. Positions(at)[k] \in at /\ Positions(at)[l] \in at
        BY <1>2 DEF InOrderOf
    <2> QED
        BY <2>1, <2>2
<1> QED
    BY <1>1, <1>2, <1>3

\* What a loop with a condition leaves of a sequence.
LEMMA SubsequenceIs ==
    ASSUME NEW T, NEW seq \in Seq(T), NEW at \in SUBSET DOMAIN seq
    PROVE  LET n == Cardinality(at)
               o == Positions(at)
               q == Subsequence(seq, at)
           IN  /\ IsFiniteSet(at) /\ n \in Nat
               /\ o \in [1..n -> at]
               /\ q \in [1..n -> T] /\ q \in Seq(T) /\ Len(q) = n /\ DOMAIN q = 1..n
               /\ \A k \in 1..n : q[k] = seq[o[k]]
               /\ \A i \in at : \E k \in 1..n : o[k] = i
               /\ \A k, l \in 1..n : k < l <=> o[k] < o[l]
               /\ \A k, l \in 1..n : o[k] = o[l] => k = l
<1> DEFINE n == Cardinality(at)
           o == Positions(at)
           q == Subsequence(seq, at)
<1>1. DOMAIN seq = 1..Len(seq) /\ Len(seq) \in Nat /\ \A i \in DOMAIN seq : seq[i] \in T
    BY LenProperties, ElementOfSeq
<1>2. at \subseteq Int /\ IsFiniteSet(at)
    <2>1. IsFiniteSet(1..Len(seq))
        BY <1>1, FS_Interval
    <2> QED
        BY <1>1, <2>1, FS_Subset
<1>3. InOrderOf(o, at, [i \in at |-> {j \in at : j < i}])
    BY <1>2, PositionsAre
<1>4. \A k, l \in 1..n : k < l <=> o[k] < o[l]
    BY <1>2, PositionsAre
<1>5. /\ n \in Nat /\ o \in [1..n -> at]
      /\ \A i \in at : \E k \in 1..n : o[k] = i
      /\ \A k, l \in 1..n : o[k] = o[l] => k = l
    BY <1>3 DEF InOrderOf
<1>6. q = [k \in 1..n |-> seq[o[k]]]
    BY DEF Subsequence, Positions
<1> HIDE DEF n, o, q
<1>7. q \in [1..n -> T] /\ \A k \in 1..n : q[k] = seq[o[k]]
    BY <1>1, <1>5, <1>6
<1>8. q \in Seq(T) /\ Len(q) = n /\ DOMAIN q = 1..n
    BY <1>5, <1>7, IsSeq
<1> QED
    BY <1>2, <1>4, <1>5, <1>7, <1>8 DEF n, o, q

\* One element more is kept at the end.
LEMMA SubsequenceStep ==
    ASSUME NEW T, NEW seq \in Seq(T), NEW m \in DOMAIN seq,
           NEW at \in SUBSET DOMAIN seq, \A i \in at : i < m
    PROVE  Subsequence(seq, at \cup {m}) = Append(Subsequence(seq, at), seq[m])
<1> DEFINE n == Cardinality(at)
           o == Positions(at)
           both == at \cup {m}
           p == [k \in 1..n + 1 |-> IF k = n + 1 THEN m ELSE o[k]]
           b == [i \in both |-> {j \in both : j < i}]
<1>1. DOMAIN seq = 1..Len(seq) /\ Len(seq) \in Nat /\ \A i \in DOMAIN seq : seq[i] \in T
    BY LenProperties, ElementOfSeq
<1>2. /\ IsFiniteSet(at) /\ n \in Nat /\ o \in [1..n -> at]
      /\ \A k \in 1..n : Subsequence(seq, at)[k] = seq[o[k]]
      /\ Subsequence(seq, at) \in Seq(T) /\ Len(Subsequence(seq, at)) = n
      /\ \A i \in at : \E k \in 1..n : o[k] = i
      /\ \A k, l \in 1..n : k < l <=> o[k] < o[l]
      /\ \A k, l \in 1..n : o[k] = o[l] => k = l
    BY SubsequenceIs
<1>3. m \notin at
    BY <1>1
<1>4. IsFiniteSet(both) /\ Cardinality(both) = n + 1
    BY <1>2, <1>3, FS_AddElement
<1>5. both \subseteq Int /\ both \in SUBSET DOMAIN seq
    BY <1>1
<1>6. IsOrder(b, both) /\ InOrderOf(Positions(both), both, b)
    BY <1>4, <1>5, PositionsAre
<1> HIDE DEF n, o
<1>7. InOrderOf(p, both, b)
    <2>1. p \in [1..n + 1 -> both] /\ \A k \in 1..n : p[k] = o[k] /\ p[k] < m
        BY <1>1, <1>2
    <2>2. p[n + 1] = m /\ n + 1 \in 1..n + 1
        BY <1>2
    <2>3. \A x \in both : \E i \in 1..n + 1 : p[i] = x
        <3> SUFFICES ASSUME NEW x \in at PROVE \E i \in 1..n + 1 : p[i] = x
            BY <2>2
        <3>1. PICK k \in 1..n : o[k] = x
            BY <1>2
        <3>2. k \in 1..n + 1 /\ p[k] = x
            BY <1>2, <2>1, <3>1
        <3> QED
            BY <3>2
    <2>4. \A i, j \in 1..n + 1 : (i < j <=> p[i] < p[j]) /\ (p[i] = p[j] => i = j)
        <3> SUFFICES ASSUME NEW i \in 1..n + 1, NEW j \in 1..n + 1
                     PROVE  (i < j <=> p[i] < p[j]) /\ (p[i] = p[j] => i = j)
            OBVIOUS
        <3>1. m \in Int /\ (i # n + 1 => i \in 1..n) /\ (j # n + 1 => j \in 1..n)
            BY <1>1, <1>2
        <3>2. \A k \in 1..n : o[k] \in Int
            BY <1>1, <1>2
        <3> HIDE DEF p
        <3>3. CASE i = n + 1 /\ j = n + 1
            BY <2>2, <3>1, <3>3, <1>2
        <3>4. CASE i = n + 1 /\ j # n + 1
            BY <2>1, <2>2, <3>1, <3>2, <3>4, <1>2
        <3>5. CASE i # n + 1 /\ j = n + 1
            BY <2>1, <2>2, <3>1, <3>2, <3>5, <1>2
        <3>6. CASE i # n + 1 /\ j # n + 1
            BY <2>1, <3>1, <3>6, <1>2
        <3> QED
            BY <3>3, <3>4, <3>5, <3>6
    <2>5. p \in Seq(both) /\ Len(p) = n + 1 /\ DOMAIN p = 1..n + 1
        <3> HIDE DEF p, both
        <3> QED
            BY <1>2, <2>1, IsSeq
    <2>6. \A i, j \in 1..n + 1 : i < j <=> p[i] \in b[p[j]]
        <3>1. \A x, y \in both : x < y <=> x \in b[y]
            OBVIOUS
        <3> HIDE DEF p, both, b
        <3> QED
            BY <2>1, <2>4, <3>1
    <2>7. n + 1 \in Nat
        BY <1>2
    <2> HIDE DEF p, both, b
    <2> QED
        BY <1>4, <2>1, <2>3, <2>4, <2>5, <2>6, <2>7 DEF InOrderOf
<1>8. Positions(both) = p
    <2> HIDE DEF p, both, b
    <2> QED
        BY <1>6, <1>7, InOrderIsUnique
<1>9. /\ Subsequence(seq, both) \in Seq(T) /\ Len(Subsequence(seq, both)) = n + 1
      /\ \A k \in 1..n + 1 : Subsequence(seq, both)[k] = seq[p[k]]
    <2>1. both \in SUBSET DOMAIN seq
        BY <1>5
    <2> HIDE DEF p, both, b
    <2>2. Len(Subsequence(seq, both)) = Cardinality(both) /\ Subsequence(seq, both) \in Seq(T)
        BY <2>1, SubsequenceIs
    <2>3. \A k \in 1..Cardinality(both) : Subsequence(seq, both)[k] = seq[Positions(both)[k]]
        BY <2>1, SubsequenceIs
    <2> QED
        BY <1>4, <1>8, <2>2, <2>3
<1>10. /\ Append(Subsequence(seq, at), seq[m]) \in Seq(T)
       /\ Len(Append(Subsequence(seq, at), seq[m])) = n + 1
       /\ \A k \in 1..n : Append(Subsequence(seq, at), seq[m])[k] = Subsequence(seq, at)[k]
       /\ Append(Subsequence(seq, at), seq[m])[n + 1] = seq[m]
    <2>1. Subsequence(seq, at) \in Seq(T) /\ seq[m] \in T /\ Len(Subsequence(seq, at)) = n
        BY <1>1, <1>2
    <2> QED
        BY <2>1, AppendProperties
<1>11. \A k \in 1..n + 1 : Subsequence(seq, both)[k] = Append(Subsequence(seq, at), seq[m])[k]
    <2> SUFFICES ASSUME NEW k \in 1..n + 1
                 PROVE  Subsequence(seq, both)[k] = Append(Subsequence(seq, at), seq[m])[k]
        OBVIOUS
    <2>1. CASE k = n + 1
        BY <1>9, <1>10, <2>1
    <2>2. CASE k # n + 1
        <3>1. k \in 1..n /\ p[k] = o[k]
            BY <1>2, <2>2
        <3> QED
            BY <1>2, <1>9, <1>10, <3>1
    <2> QED
        BY <2>1, <2>2
<1> QED
    <2> HIDE DEF p, both, b
    <2>1. Subsequence(seq, both) = Append(Subsequence(seq, at), seq[m])
        BY <1>9, <1>10, <1>11, SeqEqual
    <2> QED
        BY <2>1 DEF both

\* One sequence behind another.
LEMMA Behind ==
    ASSUME NEW T, NEW s \in Seq(T), NEW t \in Seq(T)
    PROVE  /\ s \o t \in Seq(T) /\ Len(s) \in Nat /\ Len(t) \in Nat
           /\ Len(s \o t) = Len(s) + Len(t)
           /\ \A p \in 1..Len(s) : (s \o t)[p] = s[p]
           /\ \A k \in 1..Len(t) : (s \o t)[Len(s) + k] = t[k]
<1>1. Len(s) \in Nat /\ Len(t) \in Nat
    BY LenProperties
<1>2. /\ s \o t \in Seq(T)
      /\ Len(s \o t) = Len(s) + Len(t)
      /\ \A i \in 1..Len(s) + Len(t) : (s \o t)[i] = IF i <= Len(s) THEN s[i] ELSE t[i - Len(s)]
    BY ConcatProperties
<1>3. \A p \in 1..Len(s) : (s \o t)[p] = s[p]
    BY <1>1, <1>2
<1>4. ASSUME NEW k \in 1..Len(t) PROVE (s \o t)[Len(s) + k] = t[k]
    <2>1. Len(s) + k \in 1..Len(s) + Len(t) /\ ~ (Len(s) + k <= Len(s)) /\ (Len(s) + k) - Len(s) = k
        BY <1>1
    <2> QED
        BY <1>2, <2>1
<1> QED
    BY <1>1, <1>2, <1>3, <1>4

\* What the first parts, one behind the other, come to.
FirstParts(P, ss, n, T) ==
    /\ P \in [0..n -> Seq(T)] /\ P[0] = << >>
    /\ \A i \in 1..n : P[i] = P[i - 1] \o ss[i]

\* The first parts of a sequence of sequences, joined: they exist ...
LEMMA PrefixesExist ==
    ASSUME NEW n \in Nat, NEW T, NEW ss \in [1..n -> Seq(T)]
    PROVE  \E P : FirstParts(P, ss, n, T)
<1> DEFINE step == [i \in 1..n |-> [s \in Seq(T) |-> s \o ss[i]]]
           S == Seq(T)
           e == << >>
<1>1. step \in [1..n -> [S -> S]]
    <2> SUFFICES ASSUME NEW i \in 1..n, NEW s \in Seq(T) PROVE s \o ss[i] \in Seq(T)
        OBVIOUS
    <2> QED
        BY ConcatProperties
<1>2. e \in S
    OBVIOUS
<1>3. \A i \in 1..n, s \in Seq(T) : step[i][s] = s \o ss[i]
    OBVIOUS
<1>4. PICK f \in [0..n -> S] : f[0] = e /\ \A k \in 1..n : f[k] = step[k][f[k - 1]]
    <2> HIDE DEF step, S, e
    <2>1. CanRecur(n, S, e, step)
        BY <1>1, <1>2 DEF CanRecur
    <2>2. PICK f : Recurs(f, n, S, e, step)
        BY <2>1, Recursion
    <2> QED
        BY <2>2 DEF Recurs
<1> HIDE DEF step
<1>5. \A k \in 1..n : f[k - 1] \in Seq(T)
    <2>1. \A k \in 1..n : k - 1 \in 0..n
        OBVIOUS
    <2> QED
        BY <1>4, <2>1
<1>6. \A k \in 1..n : f[k] = f[k - 1] \o ss[k]
    BY <1>3, <1>4, <1>5
<1>7. f \in [0..n -> Seq(T)] /\ f[0] = << >>
    BY <1>4
<1> QED
    BY <1>6, <1>7 DEF FirstParts

\* ... and are determined by those parts alone.
LEMMA PrefixesAreUnique ==
    ASSUME NEW n \in Nat, NEW T, NEW ss, NEW rr, NEW P, NEW R, NEW m \in Nat, m <= n,
           FirstParts(P, ss, n, T), FirstParts(R, rr, m, T), \A i \in 1..m : ss[i] = rr[i]
    PROVE  \A i \in 0..m : P[i] = R[i]
<1> DEFINE W == {i \in Nat : i <= m => P[i] = R[i]}
<1>1. 0 \in W
    BY DEF FirstParts
<1>2. ASSUME NEW i \in W PROVE i + 1 \in W
    <2> SUFFICES ASSUME i + 1 <= m PROVE P[i + 1] = R[i + 1]
        OBVIOUS
    <2>1. i + 1 \in 1..m /\ i + 1 \in 1..n /\ (i + 1) - 1 = i /\ P[i] = R[i]
        BY <1>2
    <2> QED
        BY <2>1 DEF FirstParts
<1>3. W = Nat
    <2>1. W \in SUBSET Nat
        OBVIOUS
    <2> HIDE DEF W
    <2> QED
        BY <1>1, <1>2, <2>1, CountUp
<1> QED
    BY <1>3

\* One sequence behind the other.
LEMMA FlattenIs ==
    ASSUME NEW n \in Nat, NEW T, NEW ss \in [1..n -> Seq(T)], NEW P, FirstParts(P, ss, n, T)
    PROVE  FlattenSeq(ss) = P[n] /\ P[n] \in Seq(T)
<1>1. ss \in Seq(Seq(T)) /\ Len(ss) = n /\ DOMAIN ss = 1..n
    BY IsSeq
<1>2. P[n] \in Seq(T)
    BY DEF FirstParts
<1>3. CASE n = 0
    <2>1. ss = << >>
        BY <1>1, <1>3, EmptySeq
    <2>2. FlattenSeq(ss) = ss
        BY <1>1, <1>3 DEF FlattenSeq
    <2>3. P[0] = << >>
        BY DEF FirstParts
    <2> QED
        BY <1>2, <1>3, <2>1, <2>2, <2>3
<1>4. CASE n # 0
    <2> DEFINE R(f) == [i \in 1..n |-> IF i = 1 THEN ss[i] ELSE f[i - 1] \o ss[i]]
               it == CHOOSE f : f = R(f)
               g == [i \in 1..n |-> P[i]]
    <2>1. FlattenSeq(ss) = it[n]
        BY <1>1, <1>4 DEF FlattenSeq
    <2>2. g = R(g)
        <3>1. \A i \in 1..n : P[i] = IF i = 1 THEN ss[i] ELSE P[i - 1] \o ss[i]
            <4> SUFFICES ASSUME NEW i \in 1..n PROVE P[i] = IF i = 1 THEN ss[i] ELSE P[i - 1] \o ss[i]
                OBVIOUS
            <4>1. P[i] = P[i - 1] \o ss[i]
                BY DEF FirstParts
            <4>2. i = 1 => P[i - 1] = << >>
                BY DEF FirstParts
            <4>3. ss[i] \in Seq(T)
                OBVIOUS
            <4>4. << >> \o ss[i] = ss[i]
                BY <4>3, ConcatEmptySeq
            <4> QED
                BY <4>1, <4>2, <4>4
        <3>2. \A i \in 1..n : i # 1 => i - 1 \in 1..n
            OBVIOUS
        <3>3. \A i \in 1..n : (IF i = 1 THEN ss[i] ELSE g[i - 1] \o ss[i]) = P[i]
            BY <3>1, <3>2
        <3>4. R(g) = [i \in 1..n |-> P[i]]
            <4> HIDE DEF g
            <4> QED
                BY <3>3
        <3> QED
            BY <3>4
    <2>3. it = R(it)
        <3> HIDE DEF R
        <3> QED
            BY <2>2
    <2> DEFINE W == {i \in Nat : i \in 1..n => it[i] = P[i]}
    <2>4. \A i \in 1..n : it[i] = IF i = 1 THEN ss[i] ELSE it[i - 1] \o ss[i]
        <3> HIDE DEF it
        <3> QED
            BY <2>3
    <2>5. \A i \in 1..n : P[i] = IF i = 1 THEN ss[i] ELSE P[i - 1] \o ss[i]
        <3>1. \A i \in 1..n : i # 1 => i - 1 \in 1..n
            OBVIOUS
        <3> HIDE DEF it
        <3> QED
            BY <2>2, <3>1
    <2> HIDE DEF it, R, g
    <2>6. 0 \in W
        OBVIOUS
    <2>7. ASSUME NEW i \in W PROVE i + 1 \in W
        <3> SUFFICES ASSUME i + 1 \in 1..n PROVE it[i + 1] = P[i + 1]
            OBVIOUS
        <3>1. (i + 1) - 1 = i /\ (i + 1 # 1 => i \in 1..n)
            OBVIOUS
        <3>2. i + 1 # 1 => it[i] = P[i]
            BY <2>7, <3>1
        <3> QED
            BY <2>4, <2>5, <3>1, <3>2
    <2>8. W = Nat
        <3>1. W \in SUBSET Nat
            OBVIOUS
        <3> HIDE DEF W
        <3> QED
            BY <2>6, <2>7, <3>1, CountUp
    <2>9. it[n] = P[n]
        BY <1>4, <2>8
    <2> QED
        BY <1>2, <2>1, <2>9
<1> QED
    BY <1>3, <1>4

\* Where the parts of a sequence lie: the i-th begins behind off[i - 1].
Laid(q, ss, n, off) ==
    /\ off \in [0..n -> Nat] /\ off[0] = 0 /\ Len(q) = off[n]
    /\ \A i \in 1..n : off[i] = off[i - 1] + Len(ss[i])
    /\ \A i \in 1..n : \A k \in 1..Len(ss[i]) :
          /\ off[i - 1] + k \in 1..Len(q)
          /\ q[off[i - 1] + k] = ss[i][k]
    /\ \A p \in 1..Len(q) : \E i \in 1..n : \E k \in 1..Len(ss[i]) : p = off[i - 1] + k
    /\ \A i, j \in 0..n : i <= j => off[i] <= off[j]

\* What is laid out stays where it is when one more part follows.
LEMMA LaidMore ==
    ASSUME NEW m \in Nat, NEW T, NEW u \in Seq(T), NEW v \in Seq(T), NEW ss, ss[m + 1] = v,
           NEW om, Laid(u, ss, m, om), NEW o \in [0..m + 1 -> Nat],
           \A i \in 0..m : o[i] = om[i], o[m + 1] = Len(u) + Len(v)
    PROVE  Laid(u \o v, ss, m + 1, o)
<1> DEFINE w == u \o v
           lu == Len(u)
           lv == Len(v)
           lw == Len(w)
<1>1. lu \in Nat /\ lv \in Nat /\ lw = lu + lv
    BY Behind
<1>2. /\ \A p \in 1..lu : w[p] = u[p]
      /\ \A k \in 1..lv : w[lu + k] = v[k]
    BY Behind
<1>3. /\ om[0] = 0 /\ lu = om[m]
      /\ \A i \in 1..m : om[i] = om[i - 1] + Len(ss[i])
      /\ \A i \in 1..m : \A k \in 1..Len(ss[i]) :
            /\ om[i - 1] + k \in 1..lu
            /\ u[om[i - 1] + k] = ss[i][k]
      /\ \A p \in 1..lu : \E i \in 1..m : \E k \in 1..Len(ss[i]) : p = om[i - 1] + k
      /\ \A i, j \in 0..m : i <= j => om[i] <= om[j]
    BY DEF Laid
<1>4. o[m + 1] = lw /\ lv = Len(ss[m + 1])
    BY <1>1
<1> HIDE DEF w, lu, lv, lw
<1>5. \A i \in 1..m : i \in 0..m /\ i - 1 \in 0..m /\ i \in 1..m + 1
    OBVIOUS
<1>6. 0 \in 0..m /\ m \in 0..m /\ m + 1 \in 1..m + 1 /\ (m + 1) - 1 = m
    OBVIOUS
<1>7. o[0] = 0 /\ o[m] = lu
    BY <1>3, <1>6
<1>8. \A i \in 1..m + 1 : i = m + 1 \/ i \in 1..m
    OBVIOUS
<1>9. \A i \in 1..m + 1 : o[i] = o[i - 1] + Len(ss[i])
    <2> SUFFICES ASSUME NEW i \in 1..m + 1 PROVE o[i] = o[i - 1] + Len(ss[i])
        OBVIOUS
    <2>1. CASE i = m + 1
        BY <1>1, <1>4, <1>6, <1>7, <2>1
    <2>2. CASE i \in 1..m
        BY <1>3, <1>5, <2>2
    <2> QED
        BY <1>8, <2>1, <2>2
<1>10. \A i \in 1..m + 1 : \A k \in 1..Len(ss[i]) :
          o[i - 1] + k \in 1..lw /\ w[o[i - 1] + k] = ss[i][k]
    <2> SUFFICES ASSUME NEW i \in 1..m + 1, NEW k \in 1..Len(ss[i])
                 PROVE  o[i - 1] + k \in 1..lw /\ w[o[i - 1] + k] = ss[i][k]
        OBVIOUS
    <2>1. CASE i = m + 1
        <3>1. o[i - 1] = lu /\ k \in 1..lv
            BY <1>4, <1>6, <1>7, <2>1
        <3>2. lu + k \in 1..lw
            BY <1>1, <3>1
        <3> QED
            BY <1>2, <2>1, <3>1, <3>2
    <2>2. CASE i \in 1..m
        <3>1. o[i - 1] = om[i - 1]
            BY <1>5, <2>2
        <3>2. om[i - 1] + k \in 1..lu /\ u[om[i - 1] + k] = ss[i][k]
            BY <1>3, <2>2
        <3>3. \A x \in 1..lu : x \in 1..lw
            BY <1>1
        <3> QED
            BY <1>2, <3>1, <3>2, <3>3
    <2> QED
        BY <1>8, <2>1, <2>2
<1>11. \A p \in 1..lw : \E i \in 1..m + 1 : \E k \in 1..Len(ss[i]) : p = o[i - 1] + k
    <2> SUFFICES ASSUME NEW p \in 1..lw
                 PROVE  \E i \in 1..m + 1 : \E k \in 1..Len(ss[i]) : p = o[i - 1] + k
        OBVIOUS
    <2>1. CASE p \in 1..lu
        <3>1. PICK i \in 1..m : \E k \in 1..Len(ss[i]) : p = om[i - 1] + k
            BY <1>3, <2>1
        <3>2. o[i - 1] = om[i - 1] /\ i \in 1..m + 1
            BY <1>5
        <3> QED
            BY <3>1, <3>2
    <2>2. CASE p \notin 1..lu
        <3>1. p - lu \in 1..lv /\ p = lu + (p - lu)
            BY <1>1, <2>2
        <3> QED
            BY <1>4, <1>6, <1>7, <3>1
    <2> QED
        BY <2>1, <2>2
<1>12. \A i, j \in 0..m + 1 : i <= j => o[i] <= o[j]
    <2> SUFFICES ASSUME NEW i \in 0..m + 1, NEW j \in 0..m + 1, i <= j PROVE o[i] <= o[j]
        OBVIOUS
    <2>1. \A a \in 0..m : o[a] <= lw
        <3> SUFFICES ASSUME NEW a \in 0..m PROVE o[a] <= lw
            OBVIOUS
        <3>1. o[a] = om[a] /\ om[a] <= lu
            BY <1>3, <1>6
        <3>2. o[a] \in Nat
            OBVIOUS
        <3> QED
            BY <1>1, <3>1, <3>2
    <2>2. CASE j = m + 1
        <3>1. i = m + 1 \/ i \in 0..m
            OBVIOUS
        <3>2. lw <= lw
            BY <1>1
        <3> QED
            BY <1>4, <2>1, <2>2, <3>1, <3>2
    <2>3. CASE j # m + 1
        <3>1. i \in 0..m /\ j \in 0..m
            BY <2>3
        <3> QED
            BY <1>3, <3>1
    <2> QED
        BY <2>2, <2>3
<1>13. Laid(w, ss, m + 1, o)
    BY <1>4, <1>7, <1>9, <1>10, <1>11, <1>12 DEF Laid, lw
<1> QED
    BY <1>13 DEF w

\* Each part lies in the joined sequence behind those before it.
LEMMA PrefixesLaid ==
    ASSUME NEW n \in Nat, NEW T, NEW ss \in [1..n -> Seq(T)], NEW P, FirstParts(P, ss, n, T)
    PROVE  \A m \in 0..n : Laid(P[m], ss, m, [i \in 0..m |-> Len(P[i])])
<1> DEFINE off(m) == [i \in 0..m |-> Len(P[i])]
           W == {m \in Nat : m <= n => Laid(P[m], ss, m, off(m))}
<1>1. 0 \in W
    <2>1. P[0] = << >> /\ Len(P[0]) = 0
        BY DEF FirstParts
    <2> QED
        BY <2>1 DEF Laid
<1>2. ASSUME NEW m \in W PROVE m + 1 \in W
    <2> SUFFICES ASSUME m + 1 <= n PROVE Laid(P[m + 1], ss, m + 1, off(m + 1))
        OBVIOUS
    <2>1. Laid(P[m], ss, m, off(m))
        BY <1>2
    <2>2. m + 1 \in 1..n /\ m \in 0..n /\ (m + 1) - 1 = m /\ m \in Nat
        BY <1>2
    <2>3. P[m] \in Seq(T) /\ ss[m + 1] \in Seq(T) /\ P[m + 1] = P[m] \o ss[m + 1]
        BY <2>2 DEF FirstParts
    <2>4. Len(P[m] \o ss[m + 1]) = Len(P[m]) + Len(ss[m + 1])
        <3> DEFINE u == P[m]  v == ss[m + 1]
        <3>1. u \in Seq(T) /\ v \in Seq(T)
            BY <2>3
        <3> HIDE DEF u, v
        <3>2. Len(u \o v) = Len(u) + Len(v)
            BY <3>1, Behind
        <3> QED
            BY <3>2 DEF u, v
    <2>5. off(m + 1) \in [0..m + 1 -> Nat]
        <3>1. \A i \in 0..m + 1 : Len(P[i]) \in Nat
            <4>1. \A i \in 0..m + 1 : i \in 0..n
                BY <2>2
            <4>2. \A i \in 0..n : P[i] \in Seq(T)
                BY DEF FirstParts
            <4> QED
                BY <4>1, <4>2, LenProperties
        <3> QED
            BY <3>1
    <2>6. \A i \in 0..m : off(m + 1)[i] = off(m)[i]
        BY <2>2
    <2>7. off(m + 1)[m + 1] = Len(P[m]) + Len(ss[m + 1])
        <3>1. m + 1 \in 0..m + 1
            BY <2>2
        <3>2. off(m + 1)[m + 1] = Len(P[m + 1])
            BY <3>1
        <3> HIDE DEF off
        <3> QED
            BY <2>3, <2>4, <3>2
    <2> DEFINE u == P[m]
               v == ss[m + 1]
               om == off(m)
               o == off(m + 1)
    <2>8. Laid(u \o v, ss, m + 1, o)
        <3>1. /\ m \in Nat /\ u \in Seq(T) /\ v \in Seq(T) /\ ss[m + 1] = v /\ Laid(u, ss, m, om)
              /\ o \in [0..m + 1 -> Nat] /\ (\A i \in 0..m : o[i] = om[i])
              /\ o[m + 1] = Len(u) + Len(v)
            <4> HIDE DEF off
            <4> QED
                BY <2>1, <2>2, <2>3, <2>5, <2>6, <2>7
        <3> HIDE DEF u, v, om, o
        <3> QED
            BY <3>1, LaidMore
    <2> HIDE DEF off
    <2> QED
        BY <2>3, <2>8
<1>3. W = Nat
    <2>1. W \in SUBSET Nat
        OBVIOUS
    <2> HIDE DEF W
    <2> QED
        BY <1>1, <1>2, <2>1, CountUp
<1> SUFFICES ASSUME NEW m \in 0..n PROVE Laid(P[m], ss, m, [i \in 0..m |-> Len(P[i])])
    OBVIOUS
<1>4. Laid(P[m], ss, m, off(m))
    <2>1. m \in Nat /\ m <= n
        OBVIOUS
    <2> HIDE DEF off
    <2> QED
        BY <1>3, <2>1
<1> QED
    BY <1>4

\* The parts of a flattened sequence.
LEMMA Flattened ==
    ASSUME NEW n \in Nat, NEW T, NEW ss \in [1..n -> Seq(T)]
    PROVE  FlattenSeq(ss) \in Seq(T) /\ \E off : Laid(FlattenSeq(ss), ss, n, off)
<1>1. PICK P : FirstParts(P, ss, n, T)
    BY PrefixesExist
<1>2. FlattenSeq(ss) = P[n] /\ P[n] \in Seq(T)
    BY <1>1, FlattenIs
<1>3. Laid(P[n], ss, n, [i \in 0..n |-> Len(P[i])])
    <2>1. n \in 0..n
        OBVIOUS
    <2> QED
        BY <1>1, <2>1, PrefixesLaid
<1> QED
    BY <1>2, <1>3

\* One part more.
LEMMA FlattenMore ==
    ASSUME NEW n \in Nat, NEW T, NEW ss \in [1..n + 1 -> Seq(T)], NEW rr \in [1..n -> Seq(T)],
           \A i \in 1..n : ss[i] = rr[i]
    PROVE  FlattenSeq(ss) = FlattenSeq(rr) \o ss[n + 1]
<1>1. PICK P : FirstParts(P, ss, n + 1, T)
    BY PrefixesExist
<1>2. PICK R : FirstParts(R, rr, n, T)
    BY PrefixesExist
<1>3. FlattenSeq(ss) = P[n + 1]
    BY <1>1, FlattenIs
<1>4. FlattenSeq(rr) = R[n]
    BY <1>2, FlattenIs
<1>5. P[n] = R[n]
    BY <1>1, <1>2, PrefixesAreUnique
<1>6. P[n + 1] = P[n] \o ss[n + 1]
    <2>1. n + 1 \in 1..n + 1 /\ (n + 1) - 1 = n
        OBVIOUS
    <2> QED
        BY <1>1, <2>1 DEF FirstParts
<1> QED
    BY <1>3, <1>4, <1>5, <1>6

-----------------------------------------------------------------------------
(***************************************************************************)
(* The runs of a file.  The walk over its rows is a fold; its invariant says *)
(* what it has taken up so far.                                            *)
(***************************************************************************)

\* The backups of a file as the rows of the table have them, and the runs they make.
RowStates == {"Autosave", "SaveAndExit", "Deleted"}
HistRow == [date : 1..MaxDate, state : RowStates]
RunType == [start : 0..MaxDate, end : 0..MaxDate, autosaves : Seq(1..MaxDate)]

\* The rows of a file, oldest first, as the walk meets them.
OldestFirst(r) ==
    /\ r \in Seq(HistRow)
    /\ \A i, j \in 1..Len(r) : i < j => r[i].date <= r[j].date
    /\ \A i, j \in 1..Len(r) : r[i].state = "SaveAndExit" /\ r[i] = r[j] => i = j

\* The first n rows that have one of the states, and the dates of rows.
Kept(r, states, n) == Subsequence(r, {k \in 1..n : r[k].state \in states})
\* The dates of rows, and the exits and the autosaves of runs.
DatesOf(s) == [i \in DOMAIN s |-> s[i].date]
EndsOf(runs) == [i \in DOMAIN runs |-> runs[i].end]
SavesOf(runs) == FlattenSeq([i \in DOMAIN runs |-> runs[i].autosaves])

\* A function applied to what is appended.
LEMMA DatesOfMore ==
    ASSUME NEW s \in Seq(HistRow), NEW e \in HistRow
    PROVE  DatesOf(Append(s, e)) = Append(DatesOf(s), e.date) /\ DatesOf(s) \in Seq(1..MaxDate)
<1> DEFINE n == Len(s)
           a == Append(s, e)
<1>1. n \in Nat /\ DOMAIN s = 1..n /\ \A i \in 1..n : s[i] \in HistRow
    BY LenProperties, ElementOfSeq
<1>2. /\ a \in Seq(HistRow) /\ Len(a) = n + 1 /\ a[n + 1] = e /\ \A i \in 1..n : a[i] = s[i]
    BY AppendProperties
<1> HIDE DEF a, n
<1>3. DOMAIN a = 1..n + 1
    BY <1>2, LenProperties
<1>4. DatesOf(s) \in [1..n -> 1..MaxDate] /\ \A i \in 1..n : DatesOf(s)[i] = s[i].date
    BY <1>1 DEF DatesOf, HistRow
<1>5. DatesOf(s) \in Seq(1..MaxDate) /\ Len(DatesOf(s)) = n
    BY <1>1, <1>4, IsSeq
<1>6. \A i \in 1..n + 1 : a[i] \in HistRow
    BY <1>2, ElementOfSeq
<1>7. DatesOf(a) \in [1..n + 1 -> 1..MaxDate] /\ \A i \in 1..n + 1 : DatesOf(a)[i] = a[i].date
    BY <1>3, <1>6 DEF DatesOf, HistRow
<1>8. DatesOf(a) \in Seq(1..MaxDate) /\ Len(DatesOf(a)) = n + 1
    <2> DEFINE m == n + 1
               q == DatesOf(a)
               E == 1..MaxDate
    <2>1. m \in Nat /\ q \in [1..m -> E]
        BY <1>1, <1>7
    <2> HIDE DEF m, q, E
    <2>2. q \in Seq(E) /\ Len(q) = m
        BY <2>1, IsSeq
    <2> QED
        BY <2>2 DEF m, q, E
<1>9. e.date \in 1..MaxDate
    BY DEF HistRow
<1>10. /\ Append(DatesOf(s), e.date) \in Seq(1..MaxDate) /\ Len(Append(DatesOf(s), e.date)) = n + 1
       /\ Append(DatesOf(s), e.date)[n + 1] = e.date
       /\ \A i \in 1..n : Append(DatesOf(s), e.date)[i] = DatesOf(s)[i]
    BY <1>5, <1>9, AppendProperties
<1>11. \A i \in 1..n + 1 : i = n + 1 \/ i \in 1..n
    BY <1>1
<1>12. \A i \in 1..n + 1 : DatesOf(a)[i] = Append(DatesOf(s), e.date)[i]
    <2> SUFFICES ASSUME NEW i \in 1..n + 1 PROVE DatesOf(a)[i] = Append(DatesOf(s), e.date)[i]
        OBVIOUS
    <2>1. CASE i = n + 1
        BY <1>2, <1>7, <1>10, <2>1
    <2>2. CASE i \in 1..n
        BY <1>2, <1>4, <1>7, <1>10, <2>2
    <2> QED
        BY <1>11, <2>1, <2>2
<1>13. DatesOf(a) = Append(DatesOf(s), e.date)
    BY <1>8, <1>10, <1>12, SeqEqual
<1> QED
    BY <1>5, <1>13 DEF a

\* One run more adds its exit and its autosaves.
LEMMA RunsMore ==
    ASSUME NEW s \in Seq(RunType), NEW e \in RunType
    PROVE  /\ EndsOf(Append(s, e)) = Append(EndsOf(s), e.end) /\ EndsOf(s) \in Seq(0..MaxDate)
           /\ SavesOf(Append(s, e)) = SavesOf(s) \o e.autosaves /\ SavesOf(s) \in Seq(1..MaxDate)
<1> DEFINE n == Len(s)
           a == Append(s, e)
           D == 0..MaxDate
           T == 1..MaxDate
           ss == [i \in 1..n |-> s[i].autosaves]
           aa == [i \in 1..n + 1 |-> a[i].autosaves]
<1>1. n \in Nat /\ DOMAIN s = 1..n /\ \A i \in 1..n : s[i] \in RunType
    BY LenProperties, ElementOfSeq
<1>2. /\ a \in Seq(RunType) /\ Len(a) = n + 1 /\ a[n + 1] = e /\ \A i \in 1..n : a[i] = s[i]
    BY AppendProperties
<1> HIDE DEF a, n
<1>3. DOMAIN a = 1..n + 1
    BY <1>2, LenProperties
<1>4. EndsOf(s) \in [1..n -> D] /\ \A i \in 1..n : EndsOf(s)[i] = s[i].end
    BY <1>1 DEF EndsOf, RunType
<1>5. EndsOf(s) \in Seq(D) /\ Len(EndsOf(s)) = n
    BY <1>1, <1>4, IsSeq
<1>6. \A i \in 1..n + 1 : a[i] \in RunType
    BY <1>2, ElementOfSeq
<1>7. EndsOf(a) \in [1..n + 1 -> D] /\ \A i \in 1..n + 1 : EndsOf(a)[i] = a[i].end
    BY <1>3, <1>6 DEF EndsOf, RunType
<1>8. EndsOf(a) \in Seq(D) /\ Len(EndsOf(a)) = n + 1
    <2> DEFINE m == n + 1
               q == EndsOf(a)
               E == D
    <2>1. m \in Nat /\ q \in [1..m -> E]
        BY <1>1, <1>7
    <2> HIDE DEF m, q, E
    <2>2. q \in Seq(E) /\ Len(q) = m
        BY <2>1, IsSeq
    <2> QED
        BY <2>2 DEF m, q, E
<1>9. e.end \in D
    BY DEF RunType
<1>10. /\ Append(EndsOf(s), e.end) \in Seq(D) /\ Len(Append(EndsOf(s), e.end)) = n + 1
       /\ Append(EndsOf(s), e.end)[n + 1] = e.end
       /\ \A i \in 1..n : Append(EndsOf(s), e.end)[i] = EndsOf(s)[i]
    BY <1>5, <1>9, AppendProperties
<1>11. \A i \in 1..n + 1 : i = n + 1 \/ i \in 1..n
    BY <1>1
<1>12. \A i \in 1..n + 1 : EndsOf(a)[i] = Append(EndsOf(s), e.end)[i]
    <2> SUFFICES ASSUME NEW i \in 1..n + 1 PROVE EndsOf(a)[i] = Append(EndsOf(s), e.end)[i]
        OBVIOUS
    <2>1. CASE i = n + 1
        BY <1>2, <1>7, <1>10, <2>1
    <2>2. CASE i \in 1..n
        BY <1>2, <1>4, <1>7, <1>10, <2>2
    <2> QED
        BY <1>11, <2>1, <2>2
<1>13. EndsOf(a) = Append(EndsOf(s), e.end)
    BY <1>8, <1>10, <1>12, SeqEqual
<1>14. ss \in [1..n -> Seq(T)] /\ aa \in [1..n + 1 -> Seq(T)]
    BY <1>1, <1>6 DEF RunType
<1>15. (\A i \in 1..n : aa[i] = ss[i]) /\ aa[n + 1] = e.autosaves
    <2>1. n + 1 \in 1..n + 1 /\ \A i \in 1..n : i \in 1..n + 1
        BY <1>1
    <2> QED
        BY <1>2, <2>1
<1>16. SavesOf(s) = FlattenSeq(ss) /\ SavesOf(a) = FlattenSeq(aa)
    BY <1>1, <1>3 DEF SavesOf
<1> HIDE DEF ss, aa, T
<1>17. FlattenSeq(aa) = FlattenSeq(ss) \o aa[n + 1]
    BY <1>1, <1>14, <1>15, FlattenMore
<1>18. FlattenSeq(ss) \in Seq(T)
    BY <1>1, <1>14, Flattened
<1> QED
    BY <1>5, <1>13, <1>15, <1>16, <1>17, <1>18 DEF a, T

\* The states kept after one more row.
LEMMA KeptMore ==
    ASSUME NEW r, OldestFirst(r), NEW n \in Nat, n + 1 <= Len(r), NEW states
    PROVE  /\ Kept(r, states, n) \in Seq(HistRow)
           /\ r[n + 1].state \in states => Kept(r, states, n + 1) = Append(Kept(r, states, n), r[n + 1])
           /\ r[n + 1].state \notin states => Kept(r, states, n + 1) = Kept(r, states, n)
<1> DEFINE at(m) == {k \in 1..m : r[k].state \in states}
<1>1. r \in Seq(HistRow)
    BY DEF OldestFirst
<1>2. DOMAIN r = 1..Len(r) /\ Len(r) \in Nat
    BY <1>1, LenProperties
<1>3. at(n) \in SUBSET DOMAIN r /\ n + 1 \in DOMAIN r /\ \A i \in at(n) : i < n + 1
    BY <1>2
<1>4. Kept(r, states, n) = Subsequence(r, at(n)) /\ Kept(r, states, n + 1) = Subsequence(r, at(n + 1))
    BY DEF Kept
<1>5. r[n + 1].state \in states => at(n + 1) = at(n) \cup {n + 1}
    OBVIOUS
<1>6. r[n + 1].state \notin states => at(n + 1) = at(n)
    OBVIOUS
<1> DEFINE A == at(n)
           B == at(n + 1)
<1> HIDE DEF A, B
<1>7. A \in SUBSET DOMAIN r /\ \A i \in A : i < n + 1
    BY <1>3 DEF A
<1>8. Subsequence(r, A) \in Seq(HistRow)
    BY <1>1, <1>7, SubsequenceIs
<1>9. Subsequence(r, A \cup {n + 1}) = Append(Subsequence(r, A), r[n + 1])
    <2>1. n + 1 \in DOMAIN r
        BY <1>3
    <2> DEFINE m == n + 1
    <2> HIDE DEF m
    <2>2. m \in DOMAIN r /\ \A i \in A : i < m
        BY <1>7, <2>1 DEF m
    <2>3. Subsequence(r, A \cup {m}) = Append(Subsequence(r, A), r[m])
        BY <1>1, <1>7, <2>2, SubsequenceStep
    <2> QED
        BY <2>3 DEF m
<1>10. r[n + 1].state \in states => B = A \cup {n + 1}
    BY <1>5 DEF A, B
<1>11. r[n + 1].state \notin states => B = A
    BY <1>6 DEF A, B
<1>12. Kept(r, states, n) = Subsequence(r, A) /\ Kept(r, states, n + 1) = Subsequence(r, B)
    BY <1>4 DEF A, B
<1> QED
    BY <1>8, <1>9, <1>10, <1>11, <1>12

\* The walk after n rows: the runs so far, where the next begins, and what it has.
WalkTypes(n, runs, start, open) ==
    /\ runs \in Seq(RunType) /\ start \in 0..MaxDate
    /\ open \in Seq(1..MaxDate) /\ Len(open) <= n

\* Every autosave so far is in a run or in the open one, every exit ends a run.
WalkKeeps(r, n, runs, open) ==
    /\ SavesOf(runs) \o open = DatesOf(Kept(r, Autosaves, n))
    /\ EndsOf(runs) = DatesOf(Kept(r, {"SaveAndExit"}, n))

\* The runs lie one behind the other, and their rows between their ends.
RunFits(n, runs, i) ==
    /\ runs[i].end # 0 /\ runs[i].start = IF i = 1 THEN 0 ELSE runs[i - 1].end
    /\ Len(runs[i].autosaves) <= n
    /\ \A k \in 1..Len(runs[i].autosaves) :
          runs[i].start <= runs[i].autosaves[k] /\ runs[i].autosaves[k] <= runs[i].end

\* The runs so far are each in order and follow one another.
WalkRuns(n, runs) ==
    /\ \A i \in 1..Len(runs) : RunFits(n, runs, i)
    /\ \A i, j \in 1..Len(runs) : i < j => runs[i].end < runs[j].end

\* What is open began with the last exit and is older than what comes.
WalkStart(r, n, runs, start, open) ==
    /\ start = IF Len(runs) = 0 THEN 0 ELSE runs[Len(runs)].end
    /\ start # 0 => \E k \in 1..n : r[k].state = "SaveAndExit" /\ r[k].date = start
    /\ \A m \in n + 1..Len(r) : start <= r[m].date
    /\ \A k \in 1..Len(open) : start <= open[k] /\ \A m \in n + 1..Len(r) : open[k] <= r[m].date

\* The invariant of the walk over the first n rows.
WalkInv(r, n, runs, start, open) ==
    /\ WalkTypes(n, runs, start, open)
    /\ WalkKeeps(r, n, runs, open)
    /\ WalkRuns(n, runs)
    /\ WalkStart(r, n, runs, start, open)

\* It holds before the first row.
LEMMA WalkBegins ==
    ASSUME NEW r, OldestFirst(r), MaxDate \in Nat
    PROVE  WalkInv(r, 0, << >>, 0, << >>)
<1>1. r \in Seq(HistRow) /\ DOMAIN r = 1..Len(r) /\ Len(r) \in Nat
    BY LenProperties DEF OldestFirst
<1>2. \A i \in 1..Len(r) : r[i].date \in 1..MaxDate
    <2>1. \A i \in 1..Len(r) : r[i] \in HistRow
        BY <1>1, ElementOfSeq
    <2> QED
        BY <2>1 DEF HistRow
<1>3. ASSUME NEW states PROVE DatesOf(Kept(r, states, 0)) = << >>
    <2>1. {k \in 1..0 : r[k].state \in states} = {}
        OBVIOUS
    <2>2. Kept(r, states, 0) = Subsequence(r, {})
        BY <2>1 DEF Kept
    <2> DEFINE q == Subsequence(r, {})
    <2>3. {} \in SUBSET DOMAIN r /\ Cardinality({}) = 0
        BY FS_EmptySet
    <2>4. q \in Seq(HistRow) /\ Len(q) = 0 /\ DOMAIN q = 1..0
        BY <1>1, <2>3, SubsequenceIs
    <2>5. DatesOf(q) \in [1..0 -> 1..MaxDate]
        <3> HIDE DEF q
        <3> QED
            BY <2>4 DEF DatesOf
    <2>6. DatesOf(q) \in Seq(1..MaxDate) /\ Len(DatesOf(q)) = 0
        BY <2>5, IsSeq
    <2> QED
        BY <2>2, <2>6, EmptySeq
<1>4. << >> \in Seq(RunType) /\ << >> \in Seq(1..MaxDate) /\ Len(<< >>) = 0
    OBVIOUS
<1>5. EndsOf(<< >>) = << >>
    BY DEF EndsOf
<1>6. SavesOf(<< >>) \o << >> = << >>
    <2>1. [i \in DOMAIN << >> |-> << >>[i].autosaves] = << >>
        OBVIOUS
    <2>2. SavesOf(<< >>) = << >>
        BY <2>1, <1>4 DEF SavesOf, FlattenSeq
    <2> QED
        BY <2>2
<1>7. WalkKeeps(r, 0, << >>, << >>)
    BY <1>3, <1>5, <1>6 DEF WalkKeeps
<1>8. WalkTypes(0, << >>, 0, << >>)
    BY <1>4 DEF WalkTypes
<1>9. WalkRuns(0, << >>)
    BY <1>4 DEF WalkRuns
<1>10. WalkStart(r, 0, << >>, 0, << >>)
    <2>1. \A m \in 0 + 1..Len(r) : 0 <= r[m].date
        BY <1>1, <1>2
    <2> QED
        BY <1>4, <2>1 DEF WalkStart
<1> QED
    BY <1>7, <1>8, <1>9, <1>10 DEF WalkInv

\* A deletion leaves the walk as it is.
LEMMA WalkSkips ==
    ASSUME NEW r, OldestFirst(r), NEW n \in Nat, n + 1 <= Len(r), MaxDate \in Nat,
           NEW runs, NEW start, NEW open, WalkInv(r, n, runs, start, open),
           r[n + 1].state = "Deleted"
    PROVE  WalkInv(r, n + 1, runs, start, open)
<1>1. WalkTypes(n + 1, runs, start, open)
    <2>1. open \in Seq(1..MaxDate) /\ Len(open) <= n
        BY DEF WalkInv, WalkTypes
    <2>2. Len(open) \in Nat
        BY <2>1, LenProperties
    <2>3. Len(open) <= n + 1
        BY <2>1, <2>2
    <2> QED
        BY <2>3 DEF WalkInv, WalkTypes
<1>2. WalkKeeps(r, n + 1, runs, open)
    <2>1. r[n + 1].state \notin Autosaves /\ r[n + 1].state \notin {"SaveAndExit"}
        BY DEF Autosaves
    <2>2. /\ Kept(r, Autosaves, n + 1) = Kept(r, Autosaves, n)
          /\ Kept(r, {"SaveAndExit"}, n + 1) = Kept(r, {"SaveAndExit"}, n)
        BY <2>1, KeptMore
    <2> QED
        BY <2>2 DEF WalkInv, WalkKeeps
<1>3. WalkRuns(n + 1, runs)
    <2>1. runs \in Seq(RunType)
        BY DEF WalkInv, WalkTypes
    <2>2. ASSUME NEW i \in 1..Len(runs) PROVE RunFits(n + 1, runs, i)
        <3>1. runs[i] \in RunType
            BY <2>1, ElementOfSeq
        <3>2. Len(runs[i].autosaves) \in Nat
            BY <3>1, LenProperties DEF RunType
        <3>3. RunFits(n, runs, i)
            BY DEF WalkInv, WalkRuns
        <3>4. Len(runs[i].autosaves) <= n + 1
            BY <3>2, <3>3 DEF RunFits
        <3> QED
            BY <3>3, <3>4 DEF RunFits
    <2> QED
        BY <2>2 DEF WalkInv, WalkRuns
<1>4. WalkStart(r, n + 1, runs, start, open)
    <2>1. Len(r) \in Nat
        BY LenProperties DEF OldestFirst
    <2>2. (\A m \in (n + 1) + 1..Len(r) : m \in n + 1..Len(r)) /\ \A k \in 1..n : k \in 1..n + 1
        BY <2>1
    <2> QED
        BY <2>2 DEF WalkInv, WalkStart
<1> QED
    BY <1>1, <1>2, <1>3, <1>4 DEF WalkInv

\* An autosave is the last of the open run.
LEMMA WalkSaves ==
    ASSUME NEW r, OldestFirst(r), NEW n \in Nat, n + 1 <= Len(r), MaxDate \in Nat,
           NEW runs, NEW start, NEW open, WalkInv(r, n, runs, start, open),
           r[n + 1].state = "Autosave"
    PROVE  WalkInv(r, n + 1, runs, start, Append(open, r[n + 1].date))
<1> DEFINE d == r[n + 1].date
           more == Append(open, d)
           T == 1..MaxDate
<1>1. r \in Seq(HistRow) /\ Len(r) \in Nat /\ \A i \in 1..Len(r) : r[i] \in HistRow
    BY LenProperties, ElementOfSeq DEF OldestFirst
<1>2. n + 1 \in 1..Len(r) /\ r[n + 1] \in HistRow
    BY <1>1
<1>3. d \in T
    BY <1>2 DEF HistRow
<1>4. runs \in Seq(RunType) /\ start \in 0..MaxDate /\ open \in Seq(T) /\ Len(open) <= n
    BY DEF WalkInv, WalkTypes
<1>5. /\ more \in Seq(T) /\ Len(more) = Len(open) + 1 /\ Len(open) \in Nat
      /\ more[Len(open) + 1] = d /\ \A k \in 1..Len(open) : more[k] = open[k]
    <2> HIDE DEF d, T
    <2> QED
        BY <1>3, <1>4, AppendProperties, LenProperties
<1> HIDE DEF more
<1>6. WalkTypes(n + 1, runs, start, more)
    <2>1. Len(more) <= n + 1
        BY <1>4, <1>5
    <2> QED
        BY <1>4, <1>5, <2>1 DEF WalkTypes
<1>7. WalkKeeps(r, n + 1, runs, more)
    <2>1. r[n + 1].state \in Autosaves /\ r[n + 1].state \notin {"SaveAndExit"}
        BY DEF Autosaves
    <2>2. /\ Kept(r, Autosaves, n + 1) = Append(Kept(r, Autosaves, n), r[n + 1])
          /\ Kept(r, Autosaves, n) \in Seq(HistRow)
          /\ Kept(r, {"SaveAndExit"}, n + 1) = Kept(r, {"SaveAndExit"}, n)
        BY <2>1, KeptMore
    <2>3. DatesOf(Kept(r, Autosaves, n + 1)) = Append(DatesOf(Kept(r, Autosaves, n)), d)
        <3> DEFINE K == Kept(r, Autosaves, n)
                   e == r[n + 1]
        <3>1. K \in Seq(HistRow) /\ e \in HistRow
            BY <1>2, <2>2
        <3> HIDE DEF K, e
        <3>2. DatesOf(Append(K, e)) = Append(DatesOf(K), e.date)
            BY <3>1, DatesOfMore
        <3> QED
            BY <2>2, <3>2 DEF K, e
    <2>4. DatesOf(Kept(r, Autosaves, n)) = SavesOf(runs) \o open
        BY DEF WalkInv, WalkKeeps
    <2>5. SavesOf(runs) \in Seq(T)
        <3>1. [start |-> 0, end |-> 0, autosaves |-> << >>] \in RunType
            BY DEF RunType
        <3> QED
            BY <1>4, <3>1, RunsMore
    <2>6. Append(SavesOf(runs) \o open, d) = SavesOf(runs) \o more
        <3> DEFINE s == SavesOf(runs)
        <3>1. s \in Seq(T)
            BY <2>5
        <3> HIDE DEF s, d, T
        <3>2. s \o open \in Seq(T) /\ <<d>> \in Seq(T)
            BY <1>3, <1>4, <3>1, ConcatProperties
        <3>3. Append(s \o open, d) = (s \o open) \o <<d>>
            BY <1>3, <3>2, AppendIsConcat
        <3>4. more = open \o <<d>>
            BY <1>3, <1>4, AppendIsConcat DEF more
        <3>5. (s \o open) \o <<d>> = s \o (open \o <<d>>)
            BY <1>4, <3>1, <3>2, ConcatAssociative
        <3>6. Append(s \o open, d) = s \o more
            BY <3>3, <3>4, <3>5
        <3> QED
            BY <3>6 DEF s
    <2>7. EndsOf(runs) = DatesOf(Kept(r, {"SaveAndExit"}, n + 1))
        BY <2>2 DEF WalkInv, WalkKeeps
    <2> QED
        BY <2>3, <2>4, <2>6, <2>7 DEF WalkKeeps
<1>8. WalkRuns(n + 1, runs)
    <2>2. ASSUME NEW i \in 1..Len(runs) PROVE RunFits(n + 1, runs, i)
        <3>1. runs[i] \in RunType
            BY <1>4, ElementOfSeq
        <3>2. Len(runs[i].autosaves) \in Nat
            BY <3>1, LenProperties DEF RunType
        <3>3. RunFits(n, runs, i)
            BY DEF WalkInv, WalkRuns
        <3>4. Len(runs[i].autosaves) <= n + 1
            BY <3>2, <3>3 DEF RunFits
        <3> QED
            BY <3>3, <3>4 DEF RunFits
    <2> QED
        BY <2>2 DEF WalkInv, WalkRuns
<1>9. WalkStart(r, n + 1, runs, start, more)
    <2>1. (\A m \in (n + 1) + 1..Len(r) : m \in n + 1..Len(r)) /\ \A k \in 1..n : k \in 1..n + 1
        BY <1>1
    <2>2. \A m \in (n + 1) + 1..Len(r) : d <= r[m].date
        <3>1. \A m \in (n + 1) + 1..Len(r) : n + 1 < m /\ m \in 1..Len(r)
            BY <1>1
        <3> QED
            BY <1>2, <3>1 DEF OldestFirst
    <2>3. start <= d
        <3>1. n + 1 \in n + 1..Len(r)
            BY <1>1
        <3> QED
            BY <3>1 DEF WalkInv, WalkStart
    <2>4. \A k \in 1..Len(more) : k = Len(open) + 1 \/ k \in 1..Len(open)
        BY <1>5
    <2>5. ASSUME NEW k \in 1..Len(more)
          PROVE  start <= more[k] /\ \A m \in (n + 1) + 1..Len(r) : more[k] <= r[m].date
        <3>1. CASE k = Len(open) + 1
            BY <1>5, <2>2, <2>3, <3>1
        <3>2. CASE k \in 1..Len(open)
            BY <1>5, <2>1, <3>2 DEF WalkInv, WalkStart
        <3> QED
            BY <2>4, <3>1, <3>2
    <2> QED
        BY <2>1, <2>5 DEF WalkInv, WalkStart
<1> QED
    BY <1>6, <1>7, <1>8, <1>9 DEF WalkInv, more

\* A save and exit ends the open run, and the next begins there.
LEMMA WalkExits ==
    ASSUME NEW r, OldestFirst(r), NEW n \in Nat, n + 1 <= Len(r), MaxDate \in Nat,
           NEW runs, NEW start, NEW open, WalkInv(r, n, runs, start, open),
           r[n + 1].state = "SaveAndExit"
    PROVE  WalkInv(r, n + 1, Append(runs, Run(start, r[n + 1].date, open)), r[n + 1].date, << >>)
<1> DEFINE d == r[n + 1].date
           e == Run(start, d, open)
           more == Append(runs, e)
           T == 1..MaxDate
           c == Len(runs)
<1>1. r \in Seq(HistRow) /\ Len(r) \in Nat /\ \A i \in 1..Len(r) : r[i] \in HistRow
    BY LenProperties, ElementOfSeq DEF OldestFirst
<1>2. n + 1 \in 1..Len(r) /\ r[n + 1] \in HistRow /\ n + 1 \in n + 1..Len(r)
    BY <1>1
<1>3. d \in T /\ d \in 0..MaxDate
    BY <1>2 DEF HistRow
<1>4. runs \in Seq(RunType) /\ start \in 0..MaxDate /\ open \in Seq(T) /\ Len(open) <= n /\ Len(open) \in Nat
    BY LenProperties DEF WalkInv, WalkTypes
<1>5. e \in RunType /\ e.start = start /\ e.end = d /\ e.autosaves = open
    BY <1>3, <1>4 DEF RunType, Run
<1>6. start <= d /\ \A k \in 1..Len(open) : start <= open[k] /\ open[k] <= d
    BY <1>2 DEF WalkInv, WalkStart
<1>7. start < d
    <2>1. start # d
        <3> SUFFICES ASSUME start = d PROVE FALSE
            OBVIOUS
        <3>1. start # 0
            BY <1>3
        <3>2. PICK k \in 1..n : r[k].state = "SaveAndExit" /\ r[k].date = start
            BY <3>1 DEF WalkInv, WalkStart
        <3>3. k \in 1..Len(r) /\ k # n + 1
            BY <1>1
        <3>4. r[k] = r[n + 1]
            BY <1>1, <1>2, <3>2, <3>3 DEF HistRow
        <3> QED
            BY <1>2, <3>2, <3>3, <3>4 DEF OldestFirst
    <2> QED
        BY <1>3, <1>4, <1>6, <2>1
<1> HIDE DEF e, d
<1>8. /\ more \in Seq(RunType) /\ Len(more) = c + 1 /\ c \in Nat
      /\ more[c + 1] = e /\ \A i \in 1..c : more[i] = runs[i]
    BY <1>4, <1>5, AppendProperties, LenProperties
<1> HIDE DEF more, c
<1>9. \A i \in 1..c + 1 : i = c + 1 \/ i \in 1..c
    BY <1>8
<1>10. \A i \in 1..c : i - 1 \in 1..c \/ i = 1
    BY <1>8
<1>11. start = IF c = 0 THEN 0 ELSE runs[c].end
    BY DEF WalkInv, WalkStart, c
<1>12. \A i \in 1..c : runs[i] \in RunType /\ RunFits(n, runs, i)
    BY <1>4, ElementOfSeq DEF WalkInv, WalkRuns, c
<1>13. \A i, j \in 1..c : i < j => runs[i].end < runs[j].end
    BY DEF WalkInv, WalkRuns, c
<1>14. WalkTypes(n + 1, more, d, << >>)
    <2>1. << >> \in Seq(T) /\ Len(<< >>) = 0 /\ 0 <= n + 1
        OBVIOUS
    <2> QED
        BY <1>3, <1>8, <2>1 DEF WalkTypes
<1>15. WalkKeeps(r, n + 1, more, << >>)
    <2>1. r[n + 1].state \notin Autosaves /\ r[n + 1].state \in {"SaveAndExit"}
        BY DEF Autosaves
    <2>2. /\ Kept(r, Autosaves, n + 1) = Kept(r, Autosaves, n)
          /\ Kept(r, {"SaveAndExit"}, n + 1) = Append(Kept(r, {"SaveAndExit"}, n), r[n + 1])
          /\ Kept(r, {"SaveAndExit"}, n) \in Seq(HistRow)
        BY <2>1, KeptMore
    <2>3. DatesOf(Kept(r, {"SaveAndExit"}, n + 1)) = Append(DatesOf(Kept(r, {"SaveAndExit"}, n)), d)
        <3> DEFINE K == Kept(r, {"SaveAndExit"}, n)
                   x == r[n + 1]
        <3>1. K \in Seq(HistRow) /\ x \in HistRow
            BY <1>2, <2>2
        <3> HIDE DEF K, x
        <3>2. DatesOf(Append(K, x)) = Append(DatesOf(K), x.date)
            BY <3>1, DatesOfMore
        <3> QED
            BY <2>2, <3>2 DEF K, x, d
    <2>4. /\ EndsOf(more) = Append(EndsOf(runs), d)
          /\ SavesOf(more) = SavesOf(runs) \o open /\ SavesOf(more) \in Seq(T)
        <3>1. EndsOf(more) = Append(EndsOf(runs), e.end) /\ SavesOf(more) = SavesOf(runs) \o e.autosaves
            BY <1>4, <1>5, RunsMore DEF more
        <3>2. SavesOf(more) \in Seq(T)
            BY <1>5, <1>8, RunsMore
        <3> QED
            BY <1>5, <3>1, <3>2
    <2>5. SavesOf(more) \o << >> = SavesOf(more)
        <3> DEFINE s == SavesOf(more)
        <3>1. s \in Seq(T)
            BY <2>4
        <3> HIDE DEF s
        <3>2. s \o << >> = s
            BY <3>1, ConcatEmptySeq
        <3> QED
            BY <3>2 DEF s
    <2>6. /\ SavesOf(runs) \o open = DatesOf(Kept(r, Autosaves, n))
          /\ EndsOf(runs) = DatesOf(Kept(r, {"SaveAndExit"}, n))
        BY DEF WalkInv, WalkKeeps
    <2> QED
        BY <2>2, <2>3, <2>4, <2>5, <2>6 DEF WalkKeeps
<1>16. \A i \in 1..c + 1 : RunFits(n + 1, more, i)
    <2> SUFFICES ASSUME NEW i \in 1..c + 1 PROVE RunFits(n + 1, more, i)
        OBVIOUS
    <2>1. CASE i = c + 1
        <3>1. start = IF i = 1 THEN 0 ELSE more[i - 1].end
            <4>1. c # 0 => c \in 1..c /\ i # 1 /\ i - 1 = c
                BY <1>8, <2>1
            <4>2. c = 0 => i = 1
                BY <2>1
            <4> QED
                BY <1>8, <1>11, <4>1, <4>2
        <3>2. Len(open) <= n + 1
            BY <1>4
        <3>3. d # 0
            BY <1>3
        <3> QED
            BY <1>5, <1>6, <1>8, <2>1, <3>1, <3>2, <3>3 DEF RunFits
    <2>2. CASE i \in 1..c
        <3>1. more[i] = runs[i] /\ (i # 1 => more[i - 1] = runs[i - 1])
            BY <1>8, <1>10, <2>2
        <3>2. RunFits(n, runs, i) /\ runs[i] \in RunType
            BY <1>12, <2>2
        <3>3. Len(runs[i].autosaves) \in Nat
            BY <3>2, LenProperties DEF RunType
        <3>4. Len(runs[i].autosaves) <= n + 1
            BY <3>2, <3>3 DEF RunFits
        <3> QED
            BY <3>1, <3>2, <3>4 DEF RunFits
    <2> QED
        BY <1>9, <2>1, <2>2
<1>17. \A i, j \in 1..c + 1 : i < j => more[i].end < more[j].end
    <2> SUFFICES ASSUME NEW i \in 1..c + 1, NEW j \in 1..c + 1, i < j
                 PROVE  more[i].end < more[j].end
        OBVIOUS
    <2>1. i \in 1..c
        BY <1>8
    <2>2. more[i].end = runs[i].end /\ runs[i].end \in Nat
        BY <1>8, <1>12, <2>1 DEF RunType
    <2>3. CASE j = c + 1
        <3>1. c \in 1..c /\ c # 0
            BY <1>8, <2>1
        <3>2. runs[c].end = start
            BY <1>11, <3>1
        <3>3. i = c \/ (i < c)
            BY <1>8, <2>1
        <3>4. runs[i].end <= start
            <4>1. CASE i = c
                BY <3>2, <4>1, <2>2
            <4>2. CASE i < c
                BY <1>13, <2>1, <2>2, <3>1, <3>2, <4>2, <1>4
            <4> QED
                BY <3>3, <4>1, <4>2
        <3>5. more[j].end = d
            BY <1>5, <1>8, <2>3
        <3> QED
            BY <1>3, <1>4, <1>7, <2>2, <3>4, <3>5
    <2>4. CASE j \in 1..c
        BY <1>8, <1>13, <2>1, <2>4
    <2> QED
        BY <1>9, <2>3, <2>4
<1>18. WalkRuns(n + 1, more)
    BY <1>8, <1>16, <1>17 DEF WalkRuns
<1>19. WalkStart(r, n + 1, more, d, << >>)
    <2>1. d = IF Len(more) = 0 THEN 0 ELSE more[Len(more)].end
        BY <1>5, <1>8
    <2>2. n + 1 \in 1..n + 1 /\ r[n + 1].date = d
        BY DEF d
    <2>3. \A m \in (n + 1) + 1..Len(r) : d <= r[m].date
        <3>1. \A m \in (n + 1) + 1..Len(r) : n + 1 < m /\ m \in 1..Len(r)
            BY <1>1
        <3> QED
            BY <1>2, <3>1 DEF OldestFirst, d
    <2>4. \A k \in 1..Len(<< >>) : FALSE
        OBVIOUS
    <2> QED
        BY <2>1, <2>2, <2>3, <2>4 DEF WalkStart
<1>20. WalkInv(r, n + 1, more, d, << >>)
    BY <1>14, <1>15, <1>18, <1>19 DEF WalkInv
<1> QED
    BY <1>20 DEF more, e, d

\* The first elements of a sequence.
LEMMA SubsequencePrefix ==
    ASSUME NEW T, NEW seq \in Seq(T), NEW m \in Nat, m <= Len(seq)
    PROVE  /\ Subsequence(seq, 1..m) \in Seq(T) /\ Len(Subsequence(seq, 1..m)) = m
           /\ \A k \in 1..m : Subsequence(seq, 1..m)[k] = seq[k]
<1> DEFINE S == 1..m
           id == [k \in 1..m |-> k]
           b == [i \in S |-> {j \in S : j < i}]
           q == Subsequence(seq, S)
<1>1. DOMAIN seq = 1..Len(seq) /\ Len(seq) \in Nat
    BY LenProperties
<1>2. S \in SUBSET DOMAIN seq /\ S \subseteq Int
    BY <1>1
<1>3. IsFiniteSet(S) /\ Cardinality(S) = m
    <2>1. 1 \in Int /\ m \in Int /\ m - 1 + 1 = m
        OBVIOUS
    <2>2. IsFiniteSet(1..m) /\ Cardinality(1..m) = IF 1 > m THEN 0 ELSE m - 1 + 1
        BY <2>1, FS_Interval
    <2> QED
        BY <2>2
<1>4. InOrderOf(id, S, b)
    <2>1. id \in [1..m -> S]
        OBVIOUS
    <2>2. id \in Seq(S) /\ Len(id) = m /\ DOMAIN id = 1..m
        <3> HIDE DEF id, S
        <3> QED
            BY <2>1, IsSeq
    <2>3. \A x \in S : \E i \in 1..m : id[i] = x
        OBVIOUS
    <2>4. \A i, j \in 1..m : i < j <=> id[i] \in b[id[j]]
        OBVIOUS
    <2>5. \A i, j \in 1..m : id[i] = id[j] => i = j
        OBVIOUS
    <2> HIDE DEF id, S, b
    <2> QED
        BY <1>3, <2>1, <2>2, <2>3, <2>4, <2>5 DEF InOrderOf
<1>5. IsOrder(b, S) /\ InOrderOf(Positions(S), S, b)
    <2> HIDE DEF S
    <2> QED
        BY <1>2, <1>3, PositionsAre
<1>6. Positions(S) = id
    <2> HIDE DEF S, id, b
    <2> QED
        BY <1>4, <1>5, InOrderIsUnique
<1>7. q \in Seq(T) /\ Len(q) = m /\ \A k \in 1..m : q[k] = seq[id[k]]
    <2> HIDE DEF S, id
    <2>1. q \in Seq(T) /\ Len(q) = Cardinality(S)
        BY <1>2, SubsequenceIs
    <2>2. \A k \in 1..Cardinality(S) : q[k] = seq[Positions(S)[k]]
        BY <1>2, SubsequenceIs
    <2> QED
        BY <1>3, <1>6, <2>1, <2>2
<1> QED
    BY <1>7

\* What the walk carries from row to row.
WalkType == [runs : Seq(RunType), start : 0..MaxDate, open : Seq(1..MaxDate)]

\* One step of the walk, by the state of the row.
LEMMA WalkRowIs ==
    ASSUME NEW w \in WalkType, NEW row \in HistRow, MaxDate \in Nat
    PROVE  /\ WalkRow(0, w, row) \in WalkType
           /\ row.state = "Autosave" =>
                 /\ WalkRow(0, w, row).runs = w.runs /\ WalkRow(0, w, row).start = w.start
                 /\ WalkRow(0, w, row).open = Append(w.open, row.date)
           /\ row.state = "SaveAndExit" =>
                 /\ WalkRow(0, w, row).runs = Append(w.runs, Run(w.start, row.date, w.open))
                 /\ WalkRow(0, w, row).start = row.date /\ WalkRow(0, w, row).open = << >>
           /\ row.state = "Deleted" => WalkRow(0, w, row) = w
<1> DEFINE x == WalkRow(0, w, row)
<1>1. row.date \in 1..MaxDate /\ row.state \in {"Autosave", "SaveAndExit", "Deleted"}
    BY DEF HistRow, RowStates
<1>2. ~ (row.date < 0) /\ row.date >= 0 /\ row.date \in 0..MaxDate
    BY <1>1
<1>3. w.runs \in Seq(RunType) /\ w.start \in 0..MaxDate /\ w.open \in Seq(1..MaxDate)
    BY DEF WalkType
<1>4. Append(w.open, row.date) \in Seq(1..MaxDate)
    <2> DEFINE o == w.open  d == row.date
    <2>1. o \in Seq(1..MaxDate) /\ d \in 1..MaxDate
        BY <1>1, <1>3
    <2> HIDE DEF o, d
    <2>2. Append(o, d) \in Seq(1..MaxDate)
        BY <2>1, AppendProperties
    <2> QED
        BY <2>2 DEF o, d
<1>5. Append(w.runs, Run(w.start, row.date, w.open)) \in Seq(RunType)
    <2> DEFINE o == w.runs  d == Run(w.start, row.date, w.open)
    <2>1. o \in Seq(RunType) /\ d \in RunType
        BY <1>2, <1>3 DEF Run, RunType
    <2> HIDE DEF o, d
    <2>2. Append(o, d) \in Seq(RunType)
        BY <2>1, AppendProperties
    <2> QED
        BY <2>2 DEF o, d
<1>6. CASE row.state = "Autosave"
    <2>1. row.state \in Autosaves
        BY <1>6 DEF Autosaves
    <2> DEFINE o == Append(w.open, row.date)
               y == [w EXCEPT !.open = o]
    <2>2. x = y
        <3>1. x = CASE FALSE -> w [] TRUE -> y [] FALSE -> [runs |-> Append(w.runs, Run(w.start, row.date, w.open)), start |-> row.date, open |-> << >>] [] OTHER -> w
            BY <1>2, <1>6, <2>1, Zenon DEF WalkRow
        <3> QED
            BY <3>1
    <2>3. y \in WalkType /\ y.runs = w.runs /\ y.start = w.start /\ y.open = o
        <3>1. o \in Seq(1..MaxDate)
            BY <1>4
        <3> HIDE DEF o
        <3> QED
            BY <3>1 DEF WalkType
    <2>4. x \in WalkType /\ x.runs = w.runs /\ x.start = w.start /\ x.open = Append(w.open, row.date)
        BY <2>2, <2>3
    <2> QED
        BY <1>6, <2>4
<1>7. CASE row.state = "SaveAndExit"
    <2>1. row.state \notin Autosaves
        BY <1>7 DEF Autosaves
    <2>2. x = [runs |-> Append(w.runs, Run(w.start, row.date, w.open)), start |-> row.date, open |-> << >>]
        BY <1>2, <1>7, <2>1 DEF WalkRow
    <2>3. << >> \in Seq(1..MaxDate)
        OBVIOUS
    <2>4. x \in WalkType
        <3> DEFINE o == Append(w.runs, Run(w.start, row.date, w.open))
        <3>1. o \in Seq(RunType) /\ x = [runs |-> o, start |-> row.date, open |-> << >>]
            BY <1>5, <2>2
        <3> HIDE DEF o, x
        <3> QED
            BY <1>2, <2>3, <3>1 DEF WalkType
    <2> QED
        BY <1>7, <2>2, <2>4
<1>8. CASE row.state = "Deleted"
    <2>1. row.state \notin Autosaves /\ row.state # "SaveAndExit"
        BY <1>8 DEF Autosaves
    <2>2. x = w
        BY <1>2, <2>1 DEF WalkRow
    <2> QED
        BY <1>8, <2>2
<1> QED
    BY <1>1, <1>6, <1>7, <1>8

\* A history read from its oldest row.
History(h) ==
    /\ h \in Seq(HistRow)
    /\ \A i, j \in 1..Len(h) : i < j => h[i].date >= h[j].date
    /\ \A i, j \in 1..Len(h) : h[i].state = "SaveAndExit" /\ h[i] = h[j] => i = j

\* The table lists the newest row first; reversed it is in order of time.
LEMMA ReverseIs ==
    ASSUME NEW h, History(h), MaxDate \in Nat
    PROVE  /\ OldestFirst(Reverse(h)) /\ Len(Reverse(h)) = Len(h) /\ Len(h) \in Nat
           /\ \A n \in 1..Len(h) : Reverse(h)[n] = h[Len(h) + 1 - n] /\ h[Len(h) + 1 - n] \in HistRow
<1> DEFINE c == Len(h)
           r == Reverse(h)
<1>1. h \in Seq(HistRow) /\ c \in Nat /\ \A i \in 1..c : h[i] \in HistRow
    BY LenProperties, ElementOfSeq DEF History
<1>2. r = [i \in 1..c |-> h[(c - i) + 1]]
    BY DEF Reverse
<1>3. /\ \A i, j \in 1..c : i < j => h[i].date >= h[j].date
      /\ \A i, j \in 1..c : h[i].state = "SaveAndExit" /\ h[i] = h[j] => i = j
    BY DEF History
<1> HIDE DEF c, r
<1>4. \A n \in 1..c : (c - n) + 1 \in 1..c /\ (c - n) + 1 = c + 1 - n
    BY <1>1
<1>5. \A n \in 1..c : r[n] = h[c + 1 - n] /\ h[c + 1 - n] \in HistRow /\ c + 1 - n \in 1..c
    BY <1>1, <1>2, <1>4
<1>6. r \in [1..c -> HistRow]
    BY <1>1, <1>2, <1>4
<1>7. r \in Seq(HistRow) /\ Len(r) = c
    BY <1>1, <1>6, IsSeq
<1>8. ASSUME NEW i \in 1..c, NEW j \in 1..c, i < j PROVE r[i].date <= r[j].date
    <2>1. c + 1 - j < c + 1 - i
        BY <1>1, <1>8
    <2>2. h[c + 1 - j].date >= h[c + 1 - i].date
        BY <1>3, <1>5, <2>1
    <2>3. h[c + 1 - j].date \in 1..MaxDate /\ h[c + 1 - i].date \in 1..MaxDate
        BY <1>5 DEF HistRow
    <2> QED
        BY <1>5, <2>2, <2>3
<1>9. ASSUME NEW i \in 1..c, NEW j \in 1..c, r[i].state = "SaveAndExit", r[i] = r[j] PROVE i = j
    <2>1. c + 1 - i = c + 1 - j
        BY <1>3, <1>5, <1>9
    <2> QED
        BY <1>1, <2>1
<1>10. OldestFirst(r)
    BY <1>7, <1>8, <1>9 DEF OldestFirst
<1> QED
    BY <1>1, <1>5, <1>7, <1>10 DEF c, r

\* The invariant of the walk holds at its end.
LEMMA WalkHolds ==
    ASSUME NEW h, History(h), MaxDate \in Nat
    PROVE  /\ Walk(h, 0)[Len(h)] \in WalkType
           /\ WalkInv(Reverse(h), Len(h), Walk(h, 0)[Len(h)].runs, Walk(h, 0)[Len(h)].start,
                      Walk(h, 0)[Len(h)].open)
<1> DEFINE c == Len(h)
           r == Reverse(h)
           w == Walk(h, 0)
           base == [runs |-> << >>, start |-> 0, open |-> << >>]
           F(f) == [n \in 0..c |-> IF n = 0 THEN base ELSE WalkRow(0, f[n - 1], h[c + 1 - n])]
           step == [n \in 1..c |-> [x \in WalkType |-> WalkRow(0, x, h[c + 1 - n])]]
<1>1. /\ OldestFirst(r) /\ Len(r) = c /\ c \in Nat
      /\ \A n \in 1..c : r[n] = h[c + 1 - n] /\ h[c + 1 - n] \in HistRow
    BY ReverseIs
<1>2. w = CHOOSE f : f = F(f)
    BY DEF Walk
<1> HIDE DEF c, r
<1>3. base \in WalkType
    BY DEF WalkType
<1>4. step \in [1..c -> [WalkType -> WalkType]]
    BY <1>1, WalkRowIs
<1>5. \E f : f = F(f)
    <2>1. \A n \in 1..c : \A x \in WalkType : step[n][x] = WalkRow(0, x, h[c + 1 - n])
        OBVIOUS
    <2> HIDE DEF base, step
    <2>2. CanRecur(c, WalkType, base, step)
        BY <1>1, <1>3, <1>4 DEF CanRecur
    <2>3. PICK f : Recurs(f, c, WalkType, base, step)
        BY <2>2, Recursion
    <2>4. f \in [0..c -> WalkType] /\ f[0] = base /\ \A n \in 1..c : f[n] = step[n][f[n - 1]]
        BY <2>3 DEF Recurs
    <2>5. \A n \in 1..c : n - 1 \in 0..c
        BY <1>1
    <2>6. \A n \in 1..c : f[n] = WalkRow(0, f[n - 1], h[c + 1 - n])
        BY <2>1, <2>4, <2>5
    <2>7. \A n \in 0..c : f[n] = IF n = 0 THEN base ELSE WalkRow(0, f[n - 1], h[c + 1 - n])
        <3>1. \A n \in 0..c : n = 0 \/ n \in 1..c
            BY <1>1
        <3> QED
            BY <2>4, <2>6, <3>1
    <2>8. f = [n \in 0..c |-> f[n]]
        BY <2>4
    <2>9. f = F(f)
        BY <2>7, <2>8
    <2> QED
        BY <2>9
<1>6. w = F(w)
    <2> HIDE DEF F
    <2> QED
        BY <1>2, <1>5
<1> HIDE DEF w
<1>7. w[0] = base /\ \A n \in 1..c : w[n] = WalkRow(0, w[n - 1], h[c + 1 - n])
    <2> HIDE DEF base
    <2>1. 0 \in 0..c /\ \A n \in 1..c : n \in 0..c /\ n # 0
        BY <1>1
    <2> QED
        BY <1>6, <2>1
<1> DEFINE W == {n \in Nat : n <= c => w[n] \in WalkType /\ WalkInv(r, n, w[n].runs, w[n].start, w[n].open)}
<1>8. 0 \in W
    <2>1. w[0] \in WalkType /\ w[0].runs = << >> /\ w[0].start = 0 /\ w[0].open = << >>
        BY <1>3, <1>7
    <2>2. WalkInv(r, 0, << >>, 0, << >>)
        BY <1>1, WalkBegins
    <2> QED
        BY <2>1, <2>2
<1>9. ASSUME NEW n \in W PROVE n + 1 \in W
    <2> SUFFICES ASSUME n + 1 <= c
                 PROVE  /\ w[n + 1] \in WalkType
                        /\ WalkInv(r, n + 1, w[n + 1].runs, w[n + 1].start, w[n + 1].open)
        OBVIOUS
    <2>1. n \in Nat /\ n + 1 \in 1..c /\ (n + 1) - 1 = n /\ n <= c
        BY <1>1
    <2>2. w[n] \in WalkType /\ WalkInv(r, n, w[n].runs, w[n].start, w[n].open)
        BY <1>9, <2>1
    <2>3. w[n + 1] = WalkRow(0, w[n], r[n + 1]) /\ r[n + 1] \in HistRow
        BY <1>1, <1>7, <2>1
    <2> DEFINE x == w[n]
               y == w[n + 1]
               row == r[n + 1]
    <2>4. x \in WalkType /\ row \in HistRow /\ y = WalkRow(0, x, row)
        BY <2>2, <2>3
    <2>5. WalkInv(r, n, x.runs, x.start, x.open) /\ n + 1 <= Len(r)
        BY <1>1, <2>2
    <2> HIDE DEF x, y
    <2>6. y \in WalkType
        BY <2>4, WalkRowIs
    <2>7. row.state \in {"Autosave", "SaveAndExit", "Deleted"}
        BY <2>4 DEF HistRow, RowStates
    <2>8. CASE row.state = "Autosave"
        <3>1. y.runs = x.runs /\ y.start = x.start /\ y.open = Append(x.open, row.date)
            BY <2>4, <2>8, WalkRowIs
        <3>2. WalkInv(r, n + 1, x.runs, x.start, Append(x.open, row.date))
            BY <1>1, <2>1, <2>5, <2>8, WalkSaves
        <3> QED
            BY <2>6, <3>1, <3>2 DEF y
    <2>9. CASE row.state = "SaveAndExit"
        <3>1. y.runs = Append(x.runs, Run(x.start, row.date, x.open)) /\ y.start = row.date /\ y.open = << >>
            BY <2>4, <2>9, WalkRowIs
        <3>2. WalkInv(r, n + 1, Append(x.runs, Run(x.start, row.date, x.open)), row.date, << >>)
            BY <1>1, <2>1, <2>5, <2>9, WalkExits
        <3> QED
            BY <2>6, <3>1, <3>2 DEF y
    <2>10. CASE row.state = "Deleted"
        <3>1. y = x
            BY <2>4, <2>10, WalkRowIs
        <3>2. WalkInv(r, n + 1, x.runs, x.start, x.open)
            BY <1>1, <2>1, <2>5, <2>10, WalkSkips
        <3> QED
            BY <2>6, <3>1, <3>2 DEF y
    <2> QED
        BY <2>7, <2>8, <2>9, <2>10
<1>10. W = Nat
    <2>1. W \in SUBSET Nat
        OBVIOUS
    <2> HIDE DEF W
    <2> QED
        BY <1>8, <1>9, <2>1, CountUp
<1>11. w[c] \in WalkType /\ WalkInv(r, c, w[c].runs, w[c].start, w[c].open)
    <2>1. c \in W /\ c <= c
        BY <1>1, <1>10
    <2> QED
        BY <2>1
<1> QED
    BY <1>11 DEF w, c, r

\* A run in its place: it begins where the one before it ended, only the last may be
\* in progress, and its rows lie between its ends.
RunStands(n, runs, i) ==
    /\ runs[i].start = IF i = 1 THEN 0 ELSE runs[i - 1].end
    /\ runs[i].end = 0 => i = Len(runs) /\ Len(runs[i].autosaves) # 0
    /\ Len(runs[i].autosaves) <= n
    /\ \A k \in 1..Len(runs[i].autosaves) :
          /\ runs[i].start <= runs[i].autosaves[k]
          /\ runs[i].end # 0 => runs[i].autosaves[k] <= runs[i].end

\* What groupRunsForFile makes of a history.
Grouped(h, runs) ==
    /\ runs \in Seq(RunType)
    /\ SavesOf(runs) = DatesOf(Kept(Reverse(h), Autosaves, Len(h)))
    /\ EndsOf(Filtered(runs, LAMBDA x : x.end # 0)) = DatesOf(Kept(Reverse(h), {"SaveAndExit"}, Len(h)))
    /\ \A i \in 1..Len(runs) : RunStands(Len(h), runs, i)
    /\ \A i, j \in 1..Len(runs) : i < j /\ runs[j].end # 0 => runs[i].end < runs[j].end
    /\ Len(h) = 0 => Len(runs) = 0

\* All runs but one in progress are ended.
LEMMA EndedAre ==
    ASSUME NEW runs \in Seq(RunType), NEW m \in Nat, m <= Len(runs),
           \A i \in 1..Len(runs) : runs[i].end # 0 <=> i <= m
    PROVE  /\ Filtered(runs, LAMBDA x : x.end # 0) \in Seq(RunType)
           /\ Len(Filtered(runs, LAMBDA x : x.end # 0)) = m
           /\ \A k \in 1..m : Filtered(runs, LAMBDA x : x.end # 0)[k] = runs[k]
<1>1. DOMAIN runs = 1..Len(runs) /\ Len(runs) \in Nat
    BY LenProperties
<1>2. {i \in DOMAIN runs : runs[i].end # 0} = 1..m
    BY <1>1
<1>3. Filtered(runs, LAMBDA x : x.end # 0) = Subsequence(runs, 1..m)
    BY <1>2 DEF Filtered
<1> QED
    BY <1>3, SubsequencePrefix

\* Runs that are the same have the same ends.
LEMMA EndsAre ==
    ASSUME NEW s \in Seq(RunType), NEW t \in Seq(RunType), Len(s) = Len(t),
           \A k \in 1..Len(s) : s[k] = t[k]
    PROVE  EndsOf(s) = EndsOf(t)
BY SeqEqual

\* The runs of a file take up all of its autosaves and exits.
LEMMA GroupRunsAre ==
    ASSUME NEW h, History(h), MaxDate \in Nat
    PROVE  Grouped(h, GroupRunsForFile(h, 0))
<1> DEFINE w == Walk(h, 0)[Len(h)]
           runs == w.runs
           start == w.start
           open == w.open
           n == Len(h)
           r == Reverse(h)
           all == GroupRunsForFile(h, 0)
           T == 1..MaxDate
           c == Len(runs)
<1>1. w \in WalkType /\ WalkInv(r, n, runs, start, open) /\ n \in Nat
    <2>1. n \in Nat
        BY ReverseIs
    <2> QED
        BY <2>1, WalkHolds
<1>2. all = IF open = << >> THEN runs ELSE Append(runs, Run(start, 0, open))
    BY DEF GroupRunsForFile
<1> HIDE DEF w, all
<1>3. runs \in Seq(RunType) /\ start \in 0..MaxDate /\ open \in Seq(T)
    BY <1>1 DEF WalkType
<1> HIDE DEF runs, start, open, n, r, c
<1>4. /\ Len(open) <= n /\ WalkKeeps(r, n, runs, open) /\ WalkRuns(n, runs)
      /\ WalkStart(r, n, runs, start, open)
    BY <1>1 DEF WalkInv, WalkTypes
<1>5. Len(open) \in Nat /\ c \in Nat /\ \A i \in 1..c : runs[i] \in RunType
    BY <1>3, LenProperties, ElementOfSeq DEF c
<1>6. \A i \in 1..c : RunFits(n, runs, i)
    BY <1>4 DEF WalkRuns, c
<1>7. \A i, j \in 1..c : i < j => runs[i].end < runs[j].end
    BY <1>4 DEF WalkRuns, c
<1>8. n = 0 => c = 0
    <2> SUFFICES ASSUME n = 0, c # 0 PROVE FALSE
        OBVIOUS
    <2>1. EndsOf(runs) = DatesOf(Kept(r, {"SaveAndExit"}, 0))
        BY <1>4 DEF WalkKeeps
    <2>2. Kept(r, {"SaveAndExit"}, 0) = Subsequence(r, {})
        <3>1. {k \in 1..0 : r[k].state \in {"SaveAndExit"}} = {}
            OBVIOUS
        <3> QED
            BY <3>1, Zenon DEF Kept
    <2>3. DOMAIN Subsequence(r, {}) = {}
        <3> DEFINE q == Subsequence(r, {})
        <3>1. r \in Seq(HistRow)
            BY ReverseIs DEF OldestFirst, r
        <3>2. {} \in SUBSET DOMAIN r /\ Cardinality({}) = 0
            BY FS_EmptySet
        <3>3. DOMAIN q = 1..0
            BY <3>1, <3>2, SubsequenceIs
        <3> QED
            BY <3>3
    <2>4. DOMAIN EndsOf(runs) = {}
        BY <2>1, <2>2, <2>3 DEF DatesOf
    <2>5. DOMAIN runs = 1..c
        BY <1>3, LenProperties DEF c
    <2>6. DOMAIN EndsOf(runs) = 1..c /\ 1 \in 1..c
        BY <1>5, <2>5 DEF EndsOf
    <2> QED
        BY <2>4, <2>6
<1>9. SavesOf(runs) \in Seq(T)
    <2>1. [start |-> 0, end |-> 0, autosaves |-> << >>] \in RunType
        BY DEF RunType
    <2> QED
        BY <1>3, <2>1, RunsMore
<1>10. /\ SavesOf(runs) \o open = DatesOf(Kept(r, Autosaves, n))
       /\ EndsOf(runs) = DatesOf(Kept(r, {"SaveAndExit"}, n))
    BY <1>4 DEF WalkKeeps
<1>11. CASE open = << >>
    <2>1. all = runs
        BY <1>2, <1>11
    <2>2. SavesOf(runs) \o open = SavesOf(runs)
        <3> DEFINE s == SavesOf(runs)
        <3> HIDE DEF s
        <3>1. s \o << >> = s
            BY <1>9, ConcatEmptySeq DEF s
        <3> QED
            BY <1>11, <3>1 DEF s
    <2>3. \A i \in 1..c : RunStands(n, runs, i)
        BY <1>5, <1>6 DEF RunFits, RunStands
    <2>4. EndsOf(Filtered(runs, LAMBDA x : x.end # 0)) = EndsOf(runs)
        <3>1. \A i \in 1..Len(runs) : runs[i].end # 0 <=> i <= c
            BY <1>5, <1>6 DEF RunFits, c
        <3> DEFINE q == Filtered(runs, LAMBDA x : x.end # 0)
        <3>2. c <= Len(runs)
            BY <1>5 DEF c
        <3>3. q \in Seq(RunType) /\ Len(q) = c /\ \A k \in 1..c : q[k] = runs[k]
            BY <1>3, <1>5, <3>1, <3>2, EndedAre
        <3> HIDE DEF q
        <3>4. EndsOf(q) = EndsOf(runs)
            BY <1>3, <3>3, EndsAre DEF c
        <3> QED
            BY <3>4 DEF q
    <2>5. Grouped(h, runs)
        <3>1. \A i \in 1..Len(runs) : RunStands(Len(h), runs, i)
            BY <2>3 DEF c, n
        <3>2. \A i, j \in 1..Len(runs) : i < j /\ runs[j].end # 0 => runs[i].end < runs[j].end
            BY <1>7 DEF c
        <3>3. Len(h) = 0 => Len(runs) = 0
            BY <1>8 DEF n, c
        <3>4. /\ SavesOf(runs) = DatesOf(Kept(Reverse(h), Autosaves, Len(h)))
              /\ EndsOf(Filtered(runs, LAMBDA x : x.end # 0)) = DatesOf(Kept(Reverse(h), {"SaveAndExit"}, Len(h)))
            BY <1>10, <2>2, <2>4 DEF r, n
        <3> QED
            BY <1>3, <3>1, <3>2, <3>3, <3>4 DEF Grouped
    <2> QED
        BY <2>1, <2>5 DEF all
<1>12. CASE open # << >>
    <2> DEFINE e == Run(start, 0, open)
    <2>1. all = Append(runs, e)
        BY <1>2, <1>12
    <2>2. e \in RunType /\ e.start = start /\ e.end = 0 /\ e.autosaves = open
        <3>1. 0 \in 0..MaxDate
            OBVIOUS
        <3> QED
            BY <1>3, <3>1 DEF RunType, Run
    <2> HIDE DEF e
    <2>3. Len(open) # 0
        BY <1>3, <1>12, EmptySeq
    <2>4. /\ all \in Seq(RunType) /\ Len(all) = c + 1
          /\ all[c + 1] = e /\ \A i \in 1..c : all[i] = runs[i]
        BY <1>3, <2>1, <2>2, AppendProperties DEF c
    <2>5. SavesOf(all) = SavesOf(runs) \o open
        BY <1>3, <2>1, <2>2, RunsMore
    <2>6. \A i \in 1..c + 1 : i = c + 1 \/ i \in 1..c
        BY <1>5
    <2>7. start = IF c = 0 THEN 0 ELSE runs[c].end
        BY <1>4 DEF WalkStart, c
    <2>8. \A k \in 1..Len(open) : start <= open[k]
        BY <1>4 DEF WalkStart
    <2>9. \A i \in 1..c + 1 : RunStands(n, all, i)
        <3> SUFFICES ASSUME NEW i \in 1..c + 1 PROVE RunStands(n, all, i)
            OBVIOUS
        <3>1. CASE i = c + 1
            <4>1. start = IF i = 1 THEN 0 ELSE all[i - 1].end
                <5>1. c # 0 => c \in 1..c /\ i # 1 /\ i - 1 = c
                    BY <1>5, <3>1
                <5>2. c = 0 => i = 1
                    BY <3>1
                <5> QED
                    BY <2>4, <2>7, <5>1, <5>2
            <4> QED
                BY <1>4, <2>2, <2>3, <2>4, <2>8, <3>1, <4>1 DEF RunStands
        <3>2. CASE i \in 1..c
            <4>1. i = 1 \/ i - 1 \in 1..c
                BY <1>5, <3>2
            <4>2. all[i] = runs[i] /\ (i # 1 => all[i - 1] = runs[i - 1])
                BY <2>4, <3>2, <4>1
            <4>3. RunFits(n, runs, i)
                BY <1>6, <3>2
            <4> QED
                BY <4>2, <4>3 DEF RunFits, RunStands
        <3> QED
            BY <2>6, <3>1, <3>2
    <2>10. EndsOf(Filtered(all, LAMBDA x : x.end # 0)) = EndsOf(runs)
        <3>1. \A i \in 1..Len(all) : all[i].end # 0 <=> i <= c
            <4> SUFFICES ASSUME NEW i \in 1..c + 1 PROVE all[i].end # 0 <=> i <= c
                BY <2>4
            <4>1. CASE i = c + 1
                <5>1. ~ (c + 1 <= c)
                    BY <1>5
                <5> QED
                    BY <2>2, <2>4, <4>1, <5>1
            <4>2. CASE i \in 1..c
                <5>1. i <= c /\ all[i] = runs[i] /\ RunFits(n, runs, i)
                    BY <1>5, <1>6, <2>4, <4>2
                <5> QED
                    BY <5>1 DEF RunFits
            <4> QED
                BY <2>6, <4>1, <4>2
        <3> DEFINE q == Filtered(all, LAMBDA x : x.end # 0)
        <3>2. c <= Len(all)
            BY <1>5, <2>4
        <3>3. q \in Seq(RunType) /\ Len(q) = c /\ \A k \in 1..c : q[k] = all[k]
            BY <1>5, <2>4, <3>1, <3>2, EndedAre
        <3> HIDE DEF q
        <3>4. \A k \in 1..c : q[k] = runs[k]
            BY <2>4, <3>3
        <3>5. EndsOf(q) = EndsOf(runs)
            BY <1>3, <3>3, <3>4, EndsAre DEF c
        <3> QED
            BY <3>5 DEF q
    <2>11. \A i, j \in 1..c + 1 : i < j /\ all[j].end # 0 => all[i].end < all[j].end
        <3> SUFFICES ASSUME NEW i \in 1..c + 1, NEW j \in 1..c + 1, i < j, all[j].end # 0
                     PROVE  all[i].end < all[j].end
            OBVIOUS
        <3>1. j \in 1..c
            BY <2>2, <2>4, <2>6
        <3>2. i \in 1..c
            BY <1>5, <3>1
        <3> QED
            BY <1>7, <2>4, <3>1, <3>2
    <2>12. n # 0
        BY <1>4, <1>5, <2>3
    <2>13. Grouped(h, all)
        <3>1. \A i \in 1..Len(all) : RunStands(Len(h), all, i)
            BY <2>4, <2>9 DEF n
        <3>2. \A i, j \in 1..Len(all) : i < j /\ all[j].end # 0 => all[i].end < all[j].end
            BY <2>4, <2>11
        <3>3. /\ SavesOf(all) = DatesOf(Kept(Reverse(h), Autosaves, Len(h)))
              /\ EndsOf(Filtered(all, LAMBDA x : x.end # 0)) = DatesOf(Kept(Reverse(h), {"SaveAndExit"}, Len(h)))
            BY <1>10, <2>5, <2>10 DEF r, n
        <3>4. Len(h) = 0 => Len(all) = 0
            BY <2>12 DEF n
        <3> QED
            BY <2>4, <3>1, <3>2, <3>3, <3>4 DEF Grouped
    <2> QED
        BY <2>13 DEF all
<1> QED
    BY <1>11, <1>12

-----------------------------------------------------------------------------
(***************************************************************************)
(* The rows of a tree.  Each level gives a header, its sections, and their *)
(* entries: every place of the tree is a row, and every row a place.       *)
(***************************************************************************)

\* Sections and levels of the tree, and the rows they give.
Words == {Stash} \cup ToSet(Owners) \cup ToSet(SharedSubOrder) \cup ToSet(CharSubOrder)
Paths == Seq(Words)
SecType(E) == [path : Paths, counted : BOOLEAN, owns : BOOLEAN, entries : Seq(E)]
TopType(E) == [path : Paths, owns : BOOLEAN, sections : Seq(SecType(E))]
RowType(E) == [kind : {"header", "item"}, path : Paths, entry : E \cup {<< >>}]

\* A part of the pane: the rows under one section header, and under one top level.
SectionPart(section) ==
    <<HeaderRow(section.path)>>
    \o [i \in DOMAIN section.entries |-> ItemRow(section.path, section.entries[i])]
SectionParts(sections) == [s \in DOMAIN sections |-> SectionPart(sections[s])]
TopPart(top) == <<HeaderRow(top.path)>> \o FlattenSeq(SectionParts(top.sections))

\* A header and what lies under it.
LEMMA PartIs ==
    ASSUME NEW T, NEW e \in T, NEW s \in Seq(T)
    PROVE  /\ <<e>> \o s \in Seq(T) /\ Len(<<e>> \o s) = 1 + Len(s) /\ Len(s) \in Nat
           /\ (<<e>> \o s)[1] = e /\ \A k \in 1..Len(s) : (<<e>> \o s)[1 + k] = s[k]
<1> DEFINE a == <<e>>
<1>1. a \in Seq(T) /\ Len(a) = 1 /\ a[1] = e /\ 1 \in 1..1
    OBVIOUS
<1> HIDE DEF a
<1>2. /\ a \o s \in Seq(T) /\ Len(s) \in Nat /\ Len(a \o s) = Len(a) + Len(s)
      /\ \A p \in 1..Len(a) : (a \o s)[p] = a[p]
      /\ \A k \in 1..Len(s) : (a \o s)[Len(a) + k] = s[k]
    BY <1>1, Behind
<1>3. /\ a \o s \in Seq(T) /\ Len(a \o s) = 1 + Len(s) /\ Len(s) \in Nat
      /\ (a \o s)[1] = e /\ \A k \in 1..Len(s) : (a \o s)[1 + k] = s[k]
    BY <1>1, <1>2
<1> QED
    BY <1>3 DEF a

\* A section gives its header and then an item row for each of its entries.
LEMMA SectionPartIs ==
    ASSUME NEW E, NEW section \in SecType(E)
    PROVE  /\ SectionPart(section) \in Seq(RowType(E))
           /\ Len(SectionPart(section)) = 1 + Len(section.entries) /\ Len(section.entries) \in Nat
           /\ SectionPart(section)[1] = HeaderRow(section.path)
           /\ \A k \in 1..Len(section.entries) :
                 SectionPart(section)[1 + k] = ItemRow(section.path, section.entries[k])
<1> DEFINE x == section.entries
           n == Len(x)
           s == [i \in DOMAIN x |-> ItemRow(section.path, x[i])]
           e == HeaderRow(section.path)
           T == RowType(E)
<1>1. x \in Seq(E) /\ section.path \in Paths
    BY DEF SecType
<1> HIDE DEF x
<1>2. n \in Nat /\ DOMAIN x = 1..n /\ \A i \in 1..n : x[i] \in E
    BY <1>1, LenProperties, ElementOfSeq
<1> HIDE DEF n
<1>3. e \in T
    BY <1>1 DEF RowType, HeaderRow
<1>4. s \in [1..n -> T] /\ \A i \in 1..n : s[i] = ItemRow(section.path, x[i])
    BY <1>1, <1>2 DEF RowType, ItemRow
<1> HIDE DEF s, e, T
<1>5. s \in Seq(T) /\ Len(s) = n
    BY <1>2, <1>4, IsSeq
<1>6. /\ <<e>> \o s \in Seq(T) /\ Len(<<e>> \o s) = 1 + Len(s)
      /\ (<<e>> \o s)[1] = e /\ \A k \in 1..Len(s) : (<<e>> \o s)[1 + k] = s[k]
    BY <1>3, <1>5, PartIs
<1>7. SectionPart(section) = <<e>> \o s
    BY DEF SectionPart, s, e, x
<1> QED
    BY <1>2, <1>4, <1>5, <1>6, <1>7 DEF e, n, T, x

\* The sections of a level one after the other.
LEMMA SectionPartsAre ==
    ASSUME NEW E, NEW sections \in Seq(SecType(E))
    PROVE  /\ SectionParts(sections) \in [1..Len(sections) -> Seq(RowType(E))]
           /\ Len(sections) \in Nat /\ \A s \in 1..Len(sections) : sections[s] \in SecType(E)
           /\ FlattenSeq(SectionParts(sections)) \in Seq(RowType(E))
           /\ \E off : Laid(FlattenSeq(SectionParts(sections)), SectionParts(sections), Len(sections), off)
<1> DEFINE n == Len(sections)
           T == RowType(E)
           ss == SectionParts(sections)
<1>1. n \in Nat /\ DOMAIN sections = 1..n /\ \A s \in 1..n : sections[s] \in SecType(E)
    BY LenProperties, ElementOfSeq
<1> HIDE DEF n
<1>2. ss \in [1..n -> Seq(T)]
    BY <1>1, SectionPartIs DEF SectionParts
<1> HIDE DEF T, ss
<1>3. FlattenSeq(ss) \in Seq(T) /\ \E off : Laid(FlattenSeq(ss), ss, n, off)
    BY <1>1, <1>2, Flattened
<1> QED
    BY <1>1, <1>2, <1>3 DEF n, T, ss

\* A level gives its header and then the rows of its sections.
LEMMA TopPartIs ==
    ASSUME NEW E, NEW top \in TopType(E)
    PROVE  LET q == FlattenSeq(SectionParts(top.sections))
           IN  /\ TopPart(top) \in Seq(RowType(E))
               /\ Len(TopPart(top)) = 1 + Len(q) /\ Len(q) \in Nat
               /\ TopPart(top)[1] = HeaderRow(top.path)
               /\ \A k \in 1..Len(q) : TopPart(top)[1 + k] = q[k]
<1> DEFINE q == FlattenSeq(SectionParts(top.sections))
           e == HeaderRow(top.path)
           T == RowType(E)
<1>1. top.sections \in Seq(SecType(E)) /\ top.path \in Paths
    BY DEF TopType
<1>2. q \in Seq(T)
    BY <1>1, SectionPartsAre
<1>3. e \in T
    BY <1>1 DEF RowType, HeaderRow
<1> HIDE DEF q, e, T
<1>4. /\ <<e>> \o q \in Seq(T) /\ Len(<<e>> \o q) = 1 + Len(q) /\ Len(q) \in Nat
      /\ (<<e>> \o q)[1] = e /\ \A k \in 1..Len(q) : (<<e>> \o q)[1 + k] = q[k]
    BY <1>2, <1>3, PartIs
<1>5. TopPart(top) = <<e>> \o q
    BY DEF TopPart, e, q
<1> QED
    BY <1>4, <1>5 DEF e, q, T

\* A row by its place in the tree: top level, section of it (0 is the header above
\* them), entry of that (0 is the section's header).
Sects(tree, t) == tree[t].sections
\* Where a row comes from: the level, the section (0: its header), the entry (0: the
\* section's header).
Places(tree) ==
    {x \in (1..Len(tree)) \X Nat \X Nat :
        /\ x[2] <= Len(Sects(tree, x[1]))
        /\ x[3] <= IF x[2] = 0 THEN 0 ELSE Len(Sects(tree, x[1])[x[2]].entries)}
RowAt(tree, x) ==
    IF x[2] = 0 THEN HeaderRow(tree[x[1]].path)
    ELSE IF x[3] = 0 THEN HeaderRow(Sects(tree, x[1])[x[2]].path)
    ELSE ItemRow(Sects(tree, x[1])[x[2]].path, Sects(tree, x[1])[x[2]].entries[x[3]])

\* Every row has one place in the tree, and comes behind the headers above it.
Placed(rows, tree, H) ==
    /\ H \in [Places(tree) -> 1..Len(rows)]
    /\ \A x, y \in Places(tree) : H[x] = H[y] => x = y
    /\ \A p \in 1..Len(rows) : \E x \in Places(tree) : H[x] = p
    /\ \A x \in Places(tree) : rows[H[x]] = RowAt(tree, x)
    /\ \A x, y \in Places(tree) : x[1] = y[1] /\ x[2] = 0 /\ y[2] # 0 => H[x] < H[y]
    /\ \A x, y \in Places(tree) : x[1] = y[1] /\ x[2] = y[2] /\ x[3] = 0 /\ y[3] # 0 => H[x] < H[y]

\* A position lies in one part only, at one place of it.
Parts(ss, n) == \A i \in 1..n : Len(ss[i]) \in Nat
\* Two parts do not overlap.
Apart(ss, n, off) ==
    \A i, j \in 1..n : \A k \in 1..Len(ss[i]), l \in 1..Len(ss[j]) :
        off[i - 1] + k = off[j - 1] + l => i = j /\ k = l

\* Parts that are laid out one behind the other do not overlap.
LEMMA LaidOnce ==
    ASSUME NEW q, NEW ss, NEW n \in Nat, NEW off, Laid(q, ss, n, off),
           Parts(ss, n)
    PROVE  Apart(ss, n, off)
<1> SUFFICES ASSUME NEW i \in 1..n, NEW j \in 1..n,
                    NEW k \in 1..Len(ss[i]), NEW l \in 1..Len(ss[j]),
                    off[i - 1] + k = off[j - 1] + l
             PROVE  i = j /\ k = l
    BY DEF Apart
<1> Len(ss[i]) \in Nat /\ Len(ss[j]) \in Nat
    BY DEF Parts
<1>1. /\ off \in [0..n -> Nat]
      /\ \A a \in 1..n : off[a] = off[a - 1] + Len(ss[a])
      /\ \A a, b \in 0..n : a <= b => off[a] <= off[b]
    BY DEF Laid
<1>2. i \in 0..n /\ j \in 0..n /\ i - 1 \in 0..n /\ j - 1 \in 0..n
    OBVIOUS
<1>3. /\ off[i - 1] \in Nat /\ off[j - 1] \in Nat /\ off[i] \in Nat /\ off[j] \in Nat
      /\ off[i] = off[i - 1] + Len(ss[i]) /\ off[j] = off[j - 1] + Len(ss[j])
    BY <1>1, <1>2
<1>4. i < j => off[i] <= off[j - 1]
    BY <1>1, <1>2
<1>5. j < i => off[j] <= off[i - 1]
    BY <1>1, <1>2
<1>6. ~ (i < j)
    BY <1>3, <1>4
<1>7. ~ (j < i)
    BY <1>3, <1>5
<1>8. i = j
    BY <1>6, <1>7
<1> QED
    BY <1>3, <1>8

\* The places of the rows under a top level.
SecPlaces(sections) ==
    {y \in (1..Len(sections)) \X Nat : y[2] <= Len(sections[y[1]].entries)}
\* The row of a place within a level, and what it is for them all to be found in q.
SecRowAt(sections, y) ==
    IF y[2] = 0 THEN HeaderRow(sections[y[1]].path)
    ELSE ItemRow(sections[y[1]].path, sections[y[1]].entries[y[2]])
SecPlaced(q, sections, J) ==
    /\ J \in [SecPlaces(sections) -> 1..Len(q)]
    /\ \A x, y \in SecPlaces(sections) : J[x] = J[y] => x = y
    /\ \A p \in 1..Len(q) : \E x \in SecPlaces(sections) : J[x] = p
    /\ \A x \in SecPlaces(sections) : q[J[x]] = SecRowAt(sections, x)
    /\ \A x, y \in SecPlaces(sections) : x[1] = y[1] /\ x[2] = 0 /\ y[2] # 0 => J[x] < J[y]

\* The rows of the sections of a level are in one-to-one correspondence with its places.
LEMMA SectionsPlaced ==
    ASSUME NEW E, NEW sections \in Seq(SecType(E))
    PROVE  \E J : SecPlaced(FlattenSeq(SectionParts(sections)), sections, J)
<1> DEFINE n == Len(sections)
           ss == SectionParts(sections)
           q == FlattenSeq(ss)
           P == SecPlaces(sections)
<1>1. /\ ss \in [1..n -> Seq(RowType(E))] /\ n \in Nat
      /\ \A s \in 1..n : sections[s] \in SecType(E)
      /\ q \in Seq(RowType(E)) /\ \E off : Laid(q, ss, n, off)
    BY SectionPartsAre
<1>2. PICK off : Laid(q, ss, n, off)
    BY <1>1
<1>3. \A s \in 1..n : ss[s] = SectionPart(sections[s])
    BY LenProperties DEF SectionParts
<1> HIDE DEF n, ss, q
<1>4. \A s \in 1..n : /\ Len(ss[s]) = 1 + Len(sections[s].entries) /\ Len(sections[s].entries) \in Nat
                      /\ ss[s][1] = HeaderRow(sections[s].path)
                      /\ \A k \in 1..Len(sections[s].entries) :
                            ss[s][1 + k] = ItemRow(sections[s].path, sections[s].entries[k])
    BY <1>1, <1>3, SectionPartIs
<1> DEFINE J == [x \in P |-> off[x[1] - 1] + (1 + x[2])]
<1>5. \A x \in P : /\ x = <<x[1], x[2]>> /\ x[1] \in 1..n /\ x[2] \in Nat
                   /\ x[2] <= Len(sections[x[1]].entries)
    BY DEF SecPlaces, n
<1>6. \A s \in 1..n, k \in Nat : k <= Len(sections[s].entries) => <<s, k>> \in P
    BY DEF SecPlaces, n
<1> HIDE DEF P
<1>7. \A x \in P : J[x] = off[x[1] - 1] + (1 + x[2])
    OBVIOUS
<1>8. \A x \in P : 1 + x[2] \in 1..Len(ss[x[1]]) /\ Len(ss[x[1]]) \in Nat
    <2> SUFFICES ASSUME NEW x \in P PROVE 1 + x[2] \in 1..Len(ss[x[1]]) /\ Len(ss[x[1]]) \in Nat
        OBVIOUS
    <2>1. x[1] \in 1..n /\ x[2] \in Nat /\ x[2] <= Len(sections[x[1]].entries)
        BY <1>5
    <2>2. Len(ss[x[1]]) = 1 + Len(sections[x[1]].entries) /\ Len(sections[x[1]].entries) \in Nat
        BY <1>4, <2>1
    <2> QED
        BY <2>1, <2>2
<1>9. /\ \A i \in 1..n : \A k \in 1..Len(ss[i]) :
            off[i - 1] + k \in 1..Len(q) /\ q[off[i - 1] + k] = ss[i][k]
      /\ \A p \in 1..Len(q) : \E i \in 1..n : \E k \in 1..Len(ss[i]) : p = off[i - 1] + k
      /\ off \in [0..n -> Nat]
    BY <1>2 DEF Laid
<1>10. J \in [P -> 1..Len(q)]
    BY <1>5, <1>8, <1>9
<1>11. ASSUME NEW x \in P, NEW y \in P, J[x] = J[y] PROVE x = y
    <2>1. x[1] \in 1..n /\ y[1] \in 1..n /\ x[2] \in Nat /\ y[2] \in Nat
        BY <1>5
    <2> DEFINE i == x[1]  j == y[1]  k == 1 + x[2]  l == 1 + y[2]
    <2>2. /\ k \in 1..Len(ss[i]) /\ l \in 1..Len(ss[j]) /\ Len(ss[i]) \in Nat /\ Len(ss[j]) \in Nat
          /\ off[i - 1] + k = off[j - 1] + l
        BY <1>7, <1>8, <1>11
    <2>3. i \in 1..n /\ j \in 1..n
        BY <2>1
    <2> HIDE DEF i, j, k, l, J
    <2>31. Parts(ss, n)
        BY <1>4 DEF Parts
    <2>32. Apart(ss, n, off)
        BY <1>1, <1>2, <2>31, LaidOnce
    <2>4. i = j /\ k = l
        BY <2>2, <2>3, <2>32 DEF Apart
    <2>5. x[1] = y[1] /\ x[2] = y[2]
        BY <2>1, <2>4 DEF i, j, k, l
    <2> QED
        BY <1>5, <2>5
<1>12. ASSUME NEW p \in 1..Len(q) PROVE \E x \in P : J[x] = p
    <2>1. PICK i \in 1..n : \E k \in 1..Len(ss[i]) : p = off[i - 1] + k
        BY <1>9
    <2>2. PICK k \in 1..Len(ss[i]) : p = off[i - 1] + k
        BY <2>1
    <2>3. k - 1 \in Nat /\ k - 1 <= Len(sections[i].entries) /\ 1 + (k - 1) = k
        BY <1>4
    <2>4. <<i, k - 1>> \in P
        BY <1>6, <2>3
    <2>5. J[<<i, k - 1>>] = off[i - 1] + (1 + (k - 1))
        BY <2>4
    <2> HIDE DEF J
    <2> QED
        BY <2>2, <2>3, <2>4, <2>5
<1>13. ASSUME NEW x \in P PROVE q[J[x]] = SecRowAt(sections, x)
    <2>1. x[1] \in 1..n /\ x[2] \in Nat /\ x[2] <= Len(sections[x[1]].entries)
        BY <1>5
    <2>2. q[J[x]] = ss[x[1]][1 + x[2]]
        BY <1>7, <1>8, <1>9, <2>1
    <2>3. CASE x[2] = 0
        <3>1. 1 + x[2] = 1
            BY <2>3
        <3> QED
            BY <1>4, <2>1, <2>2, <2>3, <3>1 DEF SecRowAt
    <2>4. CASE x[2] # 0
        <3>1. x[2] \in 1..Len(sections[x[1]].entries)
            BY <1>4, <2>1, <2>4
        <3> QED
            BY <1>4, <2>1, <2>2, <2>4, <3>1 DEF SecRowAt
    <2> QED
        BY <2>3, <2>4
<1>14. ASSUME NEW x \in P, NEW y \in P, x[1] = y[1], x[2] = 0, y[2] # 0 PROVE J[x] < J[y]
    <2>1. x[1] \in 1..n /\ y[2] \in Nat /\ x[1] - 1 \in 0..n
        BY <1>1, <1>5
    <2>2. off[x[1] - 1] \in Nat
        BY <1>9, <2>1
    <2>3. J[x] = off[x[1] - 1] + (1 + 0) /\ J[y] = off[x[1] - 1] + (1 + y[2])
        BY <1>7, <1>14
    <2> HIDE DEF J
    <2> QED
        BY <1>14, <2>1, <2>2, <2>3
<1>15. SecPlaced(q, sections, J)
    <2> HIDE DEF J
    <2> QED
        BY <1>10, <1>11, <1>12, <1>13, <1>14 DEF SecPlaced, P
<1> QED
    BY <1>15 DEF q, ss

\* Every row of the unfolded pane, by its place in the tree.
LEMMA RowsPlaced ==
    ASSUME NEW E, NEW tree \in Seq(TopType(E))
    PROVE  RowsOf(tree) \in Seq(RowType(E)) /\ \E H : Placed(RowsOf(tree), tree, H)
<1> DEFINE n == Len(tree)
           ss == [t \in 1..n |-> TopPart(tree[t])]
           q == FlattenSeq(ss)
           P == Places(tree)
           sec(t) == Sects(tree, t)
           qq(t) == FlattenSeq(SectionParts(sec(t)))
           J(t) == CHOOSE j : SecPlaced(qq(t), sec(t), j)
<1>1. n \in Nat /\ DOMAIN tree = 1..n /\ \A t \in 1..n : tree[t] \in TopType(E)
    BY LenProperties, ElementOfSeq
<1>2. RowsOf(tree) = q
    <2>1. RowsOf(tree) = FlattenSeq([t \in DOMAIN tree |-> TopPart(tree[t])])
        BY DEF RowsOf, TopPart, SectionParts, SectionPart
    <2> QED
        BY <1>1, <2>1
<1>3. \A t \in 1..n : sec(t) \in Seq(SecType(E))
    BY <1>1 DEF TopType, Sects
<1>4. \A t \in 1..n : SecPlaced(qq(t), sec(t), J(t))
    <2> SUFFICES ASSUME NEW t \in 1..n PROVE SecPlaced(qq(t), sec(t), J(t))
        OBVIOUS
    <2> DEFINE x == sec(t)
    <2>1. x \in Seq(SecType(E))
        BY <1>3
    <2> HIDE DEF x
    <2>2. \E j : SecPlaced(FlattenSeq(SectionParts(x)), x, j)
        BY <2>1, SectionsPlaced
    <2> QED
        BY <2>2 DEF x
<1> HIDE DEF n, q, J
<1>5. \A t \in 1..n : /\ ss[t] \in Seq(RowType(E)) /\ Len(ss[t]) = 1 + Len(qq(t)) /\ Len(qq(t)) \in Nat
                      /\ ss[t][1] = HeaderRow(tree[t].path)
                      /\ \A k \in 1..Len(qq(t)) : ss[t][1 + k] = qq(t)[k]
    BY <1>1, TopPartIs DEF Sects
<1>6. q \in Seq(RowType(E)) /\ \E off : Laid(q, ss, n, off)
    <2>1. ss \in [1..n -> Seq(RowType(E))]
        BY <1>5
    <2> HIDE DEF ss
    <2> QED
        BY <1>1, <2>1, Flattened DEF q
<1>7. PICK off : Laid(q, ss, n, off)
    BY <1>6
<1> HIDE DEF ss, qq, sec
<1>8. /\ \A i \in 1..n : \A k \in 1..Len(ss[i]) :
            off[i - 1] + k \in 1..Len(q) /\ q[off[i - 1] + k] = ss[i][k]
      /\ \A p \in 1..Len(q) : \E i \in 1..n : \E k \in 1..Len(ss[i]) : p = off[i - 1] + k
      /\ off \in [0..n -> Nat]
    BY <1>7 DEF Laid
<1>9. Apart(ss, n, off)
    <2>1. Parts(ss, n)
        BY <1>5 DEF Parts
    <2> QED
        BY <1>1, <1>7, <2>1, LaidOnce
\* The place in a top level's part.
<1> DEFINE L(x) == IF x[2] = 0 THEN 1 ELSE 1 + J(x[1])[<<x[2], x[3]>>]
           H == [x \in P |-> off[x[1] - 1] + L(x)]
<1>10. \A x \in P : /\ x = <<x[1], x[2], x[3]>> /\ x[1] \in 1..n /\ x[2] \in Nat /\ x[3] \in Nat
                    /\ x[2] = 0 => x[3] = 0
                    /\ x[2] # 0 => <<x[2], x[3]>> \in SecPlaces(sec(x[1]))
    <2> SUFFICES ASSUME NEW x \in P
                 PROVE  /\ x = <<x[1], x[2], x[3]>> /\ x[1] \in 1..n /\ x[2] \in Nat /\ x[3] \in Nat
                        /\ x[2] = 0 => x[3] = 0
                        /\ x[2] # 0 => <<x[2], x[3]>> \in SecPlaces(sec(x[1]))
        OBVIOUS
    <2>1. /\ x = <<x[1], x[2], x[3]>> /\ x[1] \in 1..n /\ x[2] \in Nat /\ x[3] \in Nat
          /\ x[2] <= Len(sec(x[1]))
          /\ x[3] <= IF x[2] = 0 THEN 0 ELSE Len(sec(x[1])[x[2]].entries)
        BY DEF Places, n, sec
    <2>2. Len(sec(x[1])) \in Nat
        BY <1>3, <2>1, LenProperties
    <2>3. x[2] # 0 => x[2] \in 1..Len(sec(x[1]))
        BY <2>1, <2>2
    <2> QED
        BY <2>1, <2>3 DEF SecPlaces
<1>11. \A t \in 1..n : <<t, 0, 0>> \in P
    <2> SUFFICES ASSUME NEW t \in 1..n PROVE <<t, 0, 0>> \in P
        OBVIOUS
    <2>1. 0 <= Len(sec(t))
        BY <1>3, LenProperties
    <2> QED
        BY <2>1 DEF Places, n, sec
<1>12. \A t \in 1..n : \A y \in SecPlaces(sec(t)) :
           /\ y = <<y[1], y[2]>> /\ y[1] # 0 /\ <<t, y[1], y[2]>> \in P
    <2> SUFFICES ASSUME NEW t \in 1..n, NEW y \in SecPlaces(sec(t))
                 PROVE  y = <<y[1], y[2]>> /\ y[1] # 0 /\ <<t, y[1], y[2]>> \in P
        OBVIOUS
    <2>1. /\ y = <<y[1], y[2]>> /\ y[1] \in 1..Len(sec(t)) /\ y[2] \in Nat
          /\ y[2] <= Len(sec(t)[y[1]].entries)
        BY DEF SecPlaces
    <2>2. Len(sec(t)) \in Nat
        BY <1>3, LenProperties
    <2>3. y[1] \in Nat /\ y[1] # 0 /\ y[1] <= Len(sec(t))
        BY <2>1, <2>2
    <2> QED
        BY <2>1, <2>3 DEF Places, n, sec
<1> HIDE DEF P
<1>13. \A t \in 1..n : /\ J(t) \in [SecPlaces(sec(t)) -> 1..Len(qq(t))]
                       /\ \A x, y \in SecPlaces(sec(t)) : J(t)[x] = J(t)[y] => x = y
                       /\ \A p \in 1..Len(qq(t)) : \E x \in SecPlaces(sec(t)) : J(t)[x] = p
                       /\ \A x \in SecPlaces(sec(t)) : qq(t)[J(t)[x]] = SecRowAt(sec(t), x)
                       /\ \A x, y \in SecPlaces(sec(t)) :
                             x[1] = y[1] /\ x[2] = 0 /\ y[2] # 0 => J(t)[x] < J(t)[y]
    BY <1>4 DEF SecPlaced
<1>14. \A x \in P : /\ L(x) \in 1..Len(ss[x[1]])
                    /\ x[2] # 0 => J(x[1])[<<x[2], x[3]>>] \in 1..Len(qq(x[1]))
    <2> SUFFICES ASSUME NEW x \in P
                 PROVE  /\ L(x) \in 1..Len(ss[x[1]])
                        /\ x[2] # 0 => J(x[1])[<<x[2], x[3]>>] \in 1..Len(qq(x[1]))
        OBVIOUS
    <2>1. Len(ss[x[1]]) = 1 + Len(qq(x[1])) /\ Len(qq(x[1])) \in Nat
        BY <1>5, <1>10
    <2>2. CASE x[2] = 0
        BY <2>1, <2>2
    <2>3. CASE x[2] # 0
        <3>1. J(x[1])[<<x[2], x[3]>>] \in 1..Len(qq(x[1]))
            BY <1>10, <1>13, <2>3
        <3> QED
            BY <2>1, <2>3, <3>1
    <2> QED
        BY <2>2, <2>3
<1>15. \A x \in P : H[x] = off[x[1] - 1] + L(x)
    OBVIOUS
<1>16. H \in [P -> 1..Len(q)]
    <2> HIDE DEF L
    <2> QED
        BY <1>8, <1>10, <1>14
<1> HIDE DEF H
<1>17. ASSUME NEW x \in P, NEW y \in P, H[x] = H[y] PROVE x = y
    <2>1. x[1] = y[1] /\ L(x) = L(y)
        <3> DEFINE i == x[1]  j == y[1]  k == L(x)  l == L(y)
        <3>1. /\ i \in 1..n /\ j \in 1..n /\ k \in 1..Len(ss[i]) /\ l \in 1..Len(ss[j])
              /\ off[i - 1] + k = off[j - 1] + l
            <4> HIDE DEF L
            <4> QED
                BY <1>10, <1>14, <1>15, <1>17
        <3> HIDE DEF i, j, k, l
        <3>2. i = j /\ k = l
            BY <1>9, <3>1 DEF Apart
        <3> QED
            BY <3>2 DEF i, j, k, l
    <2>2. CASE x[2] = 0 /\ y[2] = 0
        BY <1>10, <2>1, <2>2
    <2>3. CASE x[2] = 0 /\ y[2] # 0
        <3>1. J(y[1])[<<y[2], y[3]>>] \in Nat /\ J(y[1])[<<y[2], y[3]>>] # 0
            BY <1>14, <2>3
        <3> QED
            BY <2>1, <2>3, <3>1
    <2>4. CASE x[2] # 0 /\ y[2] = 0
        <3>1. J(x[1])[<<x[2], x[3]>>] \in Nat /\ J(x[1])[<<x[2], x[3]>>] # 0
            BY <1>14, <2>4
        <3> QED
            BY <2>1, <2>4, <3>1
    <2>5. CASE x[2] # 0 /\ y[2] # 0
        <3>1. /\ J(x[1])[<<x[2], x[3]>>] \in Nat /\ J(y[1])[<<y[2], y[3]>>] \in Nat
              /\ x[1] = y[1] /\ x[1] \in 1..n
              /\ <<x[2], x[3]>> \in SecPlaces(sec(x[1])) /\ <<y[2], y[3]>> \in SecPlaces(sec(x[1]))
            BY <1>10, <1>14, <2>1, <2>5
        <3>2. J(x[1])[<<x[2], x[3]>>] = J(x[1])[<<y[2], y[3]>>]
            BY <2>1, <2>5, <3>1
        <3>3. <<x[2], x[3]>> = <<y[2], y[3]>>
            BY <1>13, <3>1, <3>2
        <3> QED
            BY <1>10, <3>1, <3>3
    <2> QED
        BY <2>2, <2>3, <2>4, <2>5
<1>18. ASSUME NEW p \in 1..Len(q) PROVE \E x \in P : H[x] = p
    <2>1. PICK t \in 1..n : \E k \in 1..Len(ss[t]) : p = off[t - 1] + k
        BY <1>8
    <2>2. PICK k \in 1..Len(ss[t]) : p = off[t - 1] + k
        BY <2>1
    <2>3. CASE k = 1
        <3>1. <<t, 0, 0>> \in P /\ L(<<t, 0, 0>>) = 1
            BY <1>11
        <3> HIDE DEF L
        <3> QED
            BY <1>15, <2>2, <2>3, <3>1
    <2>4. CASE k # 1
        <3>1. k - 1 \in 1..Len(qq(t)) /\ 1 + (k - 1) = k
            BY <1>5, <2>4
        <3>2. PICK y \in SecPlaces(sec(t)) : J(t)[y] = k - 1
            BY <1>13, <3>1
        <3> DEFINE x == <<t, y[1], y[2]>>
        <3>3. x \in P /\ L(x) = k
            BY <1>12, <3>1, <3>2
        <3>4. x[1] = t
            OBVIOUS
        <3> HIDE DEF L, x
        <3> QED
            BY <1>15, <2>2, <3>3, <3>4
    <2> QED
        BY <2>3, <2>4
<1>19. ASSUME NEW x \in P PROVE q[H[x]] = RowAt(tree, x)
    <2>1. q[H[x]] = ss[x[1]][L(x)]
        <3> DEFINE i == x[1]  k == L(x)
        <3>1. i \in 1..n /\ k \in 1..Len(ss[i]) /\ H[x] = off[i - 1] + k
            BY <1>10, <1>14, <1>15
        <3> HIDE DEF i, k
        <3>2. q[H[x]] = ss[i][k]
            BY <1>8, <3>1
        <3> QED
            BY <3>2 DEF i, k
    <2>2. CASE x[2] = 0
        BY <1>5, <1>10, <2>1, <2>2 DEF RowAt
    <2>3. CASE x[2] # 0
        <3> DEFINE y == <<x[2], x[3]>>
                   k == J(x[1])[y]
        <3>1. /\ y \in SecPlaces(sec(x[1])) /\ k \in 1..Len(qq(x[1])) /\ x[1] \in 1..n
              /\ y[1] = x[2] /\ y[2] = x[3] /\ L(x) = 1 + k
            BY <1>10, <1>14, <2>3
        <3> HIDE DEF y, k, L
        <3>2. q[H[x]] = qq(x[1])[k]
            BY <1>5, <2>1, <3>1
        <3>3. qq(x[1])[k] = SecRowAt(sec(x[1]), y)
            BY <1>13, <3>1 DEF k
        <3>4. SecRowAt(sec(x[1]), y) = RowAt(tree, x)
            BY <2>3, <3>1 DEF SecRowAt, RowAt, sec
        <3> QED
            BY <3>2, <3>3, <3>4
    <2> QED
        BY <2>2, <2>3
<1>20. \A x \in P : off[x[1] - 1] \in Nat
    <2>1. \A t \in 1..n : t - 1 \in 0..n
        BY <1>1
    <2> QED
        BY <1>8, <1>10, <2>1
<1>21. ASSUME NEW x \in P, NEW y \in P, x[1] = y[1], x[2] = 0, y[2] # 0 PROVE H[x] < H[y]
    <2>1. J(y[1])[<<y[2], y[3]>>] \in Nat /\ J(y[1])[<<y[2], y[3]>>] # 0
        BY <1>14, <1>21
    <2>2. H[x] = off[x[1] - 1] + 1 /\ H[y] = off[x[1] - 1] + (1 + J(y[1])[<<y[2], y[3]>>])
        BY <1>15, <1>21
    <2>3. off[x[1] - 1] \in Nat
        BY <1>20
    <2> QED
        BY <2>1, <2>2, <2>3
<1>22. ASSUME NEW x \in P, NEW y \in P, x[1] = y[1], x[2] = y[2], x[3] = 0, y[3] # 0
       PROVE  H[x] < H[y]
    <2>1. y[2] # 0
        BY <1>10, <1>22
    <2> DEFINE a == J(x[1])[<<x[2], x[3]>>]
               b == J(x[1])[<<y[2], y[3]>>]
    <2>2. /\ a \in Nat /\ b \in Nat
          /\ x[1] \in 1..n /\ <<x[2], x[3]>> \in SecPlaces(sec(x[1])) /\ <<y[2], y[3]>> \in SecPlaces(sec(x[1]))
        BY <1>10, <1>14, <1>22, <2>1
    <2>3. a < b
        <3>1. /\ <<x[2], x[3]>>[1] = <<y[2], y[3]>>[1] /\ <<x[2], x[3]>>[2] = 0
              /\ <<y[2], y[3]>>[2] # 0
            BY <1>22
        <3> QED
            BY <1>13, <2>2, <3>1
    <2>4. H[x] = off[x[1] - 1] + (1 + a) /\ H[y] = off[x[1] - 1] + (1 + b)
        BY <1>15, <1>22, <2>1
    <2>5. off[x[1] - 1] \in Nat
        BY <1>20
    <2> HIDE DEF a, b
    <2> QED
        BY <2>2, <2>3, <2>4, <2>5
<1>23. Placed(q, tree, H)
    BY <1>16, <1>17, <1>18, <1>19, <1>21, <1>22 DEF Placed, P
<1> QED
    BY <1>2, <1>6, <1>23

-----------------------------------------------------------------------------
(***************************************************************************)
(* The inventory tree lists every item that is shown, where it belongs     *)
(***************************************************************************)

\* An entry shows an item that is owned, or a code of the catalogue that is missing.
EntryType == [owned : BOOLEAN, id : Nat \cup DOMAIN NameOf]

\* Items by name.
LEMMA ByNameIs ==
    ASSUME NEW S, IsFiniteSet(S), \A a \in S : a.id \in Nat, \A a, b \in S : a.id = b.id => a = b
    PROVE  LET q == ByName(S)
               n == Cardinality(S)
           IN  /\ n \in Nat /\ q \in [1..n -> S] /\ Len(q) = n /\ DOMAIN q = 1..n
               /\ \A x \in S : \E i \in 1..n : q[i] = x
               /\ \A i, j \in 1..n : q[i] = q[j] => i = j
<1> DEFINE b == [x \in S |-> {y \in S : y.id < x.id}]
<1>1. ByName(S) = InOrder(S, b)
    BY DEF ByName, Sorted
<1>2. IsOrder(b, S)
    <2>1. b \in [S -> SUBSET S]
        OBVIOUS
    <2>2. \A x, y \in S : y \in b[x] <=> y.id < x.id
        OBVIOUS
    <2> HIDE DEF b
    <2>3. \A x \in S : x \notin b[x]
        BY <2>2
    <2>4. ASSUME NEW x \in S, NEW y \in S, y \in b[x] PROVE b[y] \subseteq b[x]
        <3> SUFFICES ASSUME NEW z \in b[y] PROVE z \in b[x]
            OBVIOUS
        <3>1. z \in S
            BY <2>1
        <3>2. z.id < y.id /\ y.id < x.id /\ x.id \in Nat /\ y.id \in Nat /\ z.id \in Nat
            BY <2>2, <2>4, <3>1
        <3>3. z.id < x.id
            BY <3>2
        <3> QED
            BY <2>2, <3>1, <3>3
    <2>5. \A x, y \in S : x # y => x \in b[y] \/ y \in b[x]
        <3> SUFFICES ASSUME NEW x \in S, NEW y \in S, x # y PROVE x.id < y.id \/ y.id < x.id
            BY <2>2
        <3>1. x.id \in Nat /\ y.id \in Nat /\ x.id # y.id
            OBVIOUS
        <3> QED
            BY <3>1
    <2> QED
        BY <2>1, <2>3, <2>4, <2>5 DEF IsOrder
<1> HIDE DEF b
<1>3. InOrderOf(ByName(S), S, b)
    BY <1>1, <1>2, InOrderIs
<1> QED
    BY <1>3 DEF InOrderOf

\* A test on a sequence keeps the elements that pass it, once each.
LEMMA FilteredIs ==
    ASSUME NEW T, NEW seq \in Seq(T), NEW at \in SUBSET DOMAIN seq, NEW q, q = Subsequence(seq, at)
    PROVE  /\ q \in Seq(T) /\ Len(q) \in Nat /\ DOMAIN q = 1..Len(q)
           /\ \E o : /\ o \in [1..Len(q) -> at]
                     /\ \A k \in 1..Len(q) : q[k] = seq[o[k]]
                     /\ \A i \in at : \E k \in 1..Len(q) : o[k] = i
                     /\ \A k, l \in 1..Len(q) : k < l <=> o[k] < o[l]
                     /\ \A k, l \in 1..Len(q) : o[k] = o[l] => k = l
<1>1. LET n == Cardinality(at)
          o == Positions(at)
      IN  /\ n \in Nat
          /\ o \in [1..n -> at]
          /\ q \in Seq(T) /\ Len(q) = n /\ DOMAIN q = 1..n
          /\ \A k \in 1..n : q[k] = seq[o[k]]
          /\ \A i \in at : \E k \in 1..n : o[k] = i
          /\ \A k, l \in 1..n : k < l <=> o[k] < o[l]
          /\ \A k, l \in 1..n : o[k] = o[l] => k = l
    BY SubsequenceIs
<1> QED
    BY <1>1

\* What a section lists: its items, once each, and with the counted ones placeholders.
Lists(entries, raw, counted) ==
    /\ entries \in Seq(EntryType)
    /\ \A k \in 1..Len(entries) : entries[k].owned =>
          \E it \in raw : entries[k] = Owned(it) /\ (counted => EffectiveStackCount(it) > 0)
    /\ \A it \in raw : (counted => EffectiveStackCount(it) > 0) =>
          \E k \in 1..Len(entries) : entries[k] = Owned(it)
    /\ \A k, l \in 1..Len(entries) : entries[k].owned /\ entries[k] = entries[l] => k = l

\* The items of a section.
IsRaw(raw, counted) ==
    /\ IsFiniteSet(raw)
    /\ \A it \in raw : it.id \in Nat /\ EffectiveStackCount(it) \in Nat
    /\ \A a, b \in raw : a.id = b.id => a = b
    /\ counted => \A a, b \in raw : a.code = b.code => a = b

\* The entries of the items in a set, by name.
OwnedSeq(S) == LET s == ByName(S) IN [i \in DOMAIN s |-> Owned(s[i])]

\* They list each item of the set once.
LEMMA OwnedSeqIs ==
    ASSUME NEW S, IsRaw(S, FALSE)
    PROVE  /\ Lists(OwnedSeq(S), S, FALSE)
           /\ \A k \in 1..Len(OwnedSeq(S)) : \E it \in S : OwnedSeq(S)[k] = Owned(it)
<1> DEFINE n == Cardinality(S)
           q == ByName(S)
           o == OwnedSeq(S)
<1>1. IsFiniteSet(S) /\ (\A a \in S : a.id \in Nat) /\ \A a, b \in S : a.id = b.id => a = b
    BY DEF IsRaw
<1>2. /\ n \in Nat /\ q \in [1..n -> S] /\ DOMAIN q = 1..n
      /\ \A x \in S : \E i \in 1..n : q[i] = x
      /\ \A i, j \in 1..n : q[i] = q[j] => i = j
    BY <1>1, ByNameIs
<1> HIDE DEF n, q
<1>3. o = [i \in 1..n |-> Owned(q[i])]
    BY <1>2 DEF OwnedSeq, q
<1> HIDE DEF o
<1>4. \A i \in 1..n : o[i] = Owned(q[i]) /\ q[i] \in S
    BY <1>2, <1>3
<1>5. o \in [1..n -> EntryType]
    <2>1. \A x \in S : Owned(x) \in EntryType
        BY <1>1 DEF Owned, EntryType
    <2> QED
        BY <1>2, <1>3, <2>1
<1>6. o \in Seq(EntryType) /\ Len(o) = n
    BY <1>2, <1>5, IsSeq
<1>7. \A x \in S : \E k \in 1..n : o[k] = Owned(x)
    BY <1>2, <1>4
<1>8. \A k, l \in 1..n : o[k] = o[l] => k = l
    <2> SUFFICES ASSUME NEW k \in 1..n, NEW l \in 1..n, o[k] = o[l] PROVE k = l
        OBVIOUS
    <2>1. Owned(q[k]) = Owned(q[l]) /\ q[k] \in S /\ q[l] \in S
        BY <1>4
    <2>2. q[k].id = q[l].id
        BY <2>1 DEF Owned
    <2> QED
        BY <1>1, <1>2, <2>1, <2>2
<1>9. Lists(o, S, FALSE)
    BY <1>4, <1>6, <1>7, <1>8 DEF Lists
<1> QED
    BY <1>4, <1>6, <1>9 DEF o

\* What the catalog of a counted section lists, and the item of a code.
Stocked(raw) == {it \in raw : EffectiveStackCount(it) > 0}
\* The catalogue codes a section shows, the entry of each, and the items in no catalogue.
ListedAt(label, raw, text) ==
    {i \in DOMAIN Catalog[label] :
        \/ text = NoQuery \/ text = NameOf[Catalog[label][i]]
        \/ \E it \in Stocked(raw) : it.code = Catalog[label][i]}
EntryOf(raw, code) ==
    IF \E it \in Stocked(raw) : it.code = code
    THEN Owned(CHOOSE it \in Stocked(raw) : it.code = code) ELSE Missing(code)
Strays(label, raw) == {it \in Stocked(raw) : it.code \notin ToSet(Catalog[label])}

\* A code that is in stock shows its item.
LEMMA EntryOfIs ==
    ASSUME NEW raw, IsRaw(raw, TRUE), NEW code \in DOMAIN NameOf
    PROVE  /\ EntryOf(raw, code) \in EntryType
           /\ EntryOf(raw, code).owned => \E it \in Stocked(raw) : it.code = code /\ EntryOf(raw, code) = Owned(it)
           /\ \A it \in Stocked(raw) : it.code = code => EntryOf(raw, code) = Owned(it)
<1>1. /\ \A it \in raw : it.id \in Nat
      /\ \A a, b \in raw : a.code = b.code => a = b
    BY DEF IsRaw
<1>2. Stocked(raw) \subseteq raw
    BY DEF Stocked
<1>3. CASE \E it \in Stocked(raw) : it.code = code
    <2>1. PICK it \in Stocked(raw) : it.code = code
        BY <1>3
    <2>2. it = CHOOSE x \in Stocked(raw) : x.code = code
        BY <1>1, <1>2, <2>1
    <2>3. EntryOf(raw, code) = Owned(it)
        BY <1>3, <2>2 DEF EntryOf
    <2>4. Owned(it) \in EntryType
        BY <1>1, <1>2 DEF Owned, EntryType
    <2>5. \A x \in Stocked(raw) : x.code = code => x = it
        BY <1>1, <1>2, <2>1
    <2> QED
        BY <2>1, <2>3, <2>4, <2>5
<1>4. CASE ~ \E it \in Stocked(raw) : it.code = code
    <2>1. EntryOf(raw, code) = Missing(code)
        BY <1>4 DEF EntryOf
    <2>2. Missing(code) \in EntryType /\ Missing(code).owned = FALSE
        BY DEF Missing, EntryType
    <2> QED
        BY <1>4, <2>1, <2>2
<1> QED
    BY <1>3, <1>4

\* The listed part of the catalog.
ListedPart(label, raw, text) ==
    LET listed == Subsequence(Catalog[label], ListedAt(label, raw, text))
    IN [i \in DOMAIN listed |-> EntryOf(raw, listed[i])]

\* The catalogue part comes first, the strays behind it.
LEMMA CountEntriesIs ==
    ASSUME NEW label, NEW raw, NEW text
    PROVE  CountEntries(label, raw, text) = ListedPart(label, raw, text) \o OwnedSeq(Strays(label, raw))
BY DEF CountEntries, Filtered, ListedPart, OwnedSeq, Strays, ListedAt, EntryOf, Stocked

\* The catalogue part lists each item of the catalogue that is in stock once.
LEMMA ListedPartIs ==
    ASSUME NEW label \in CountSections, NEW raw, IsRaw(raw, TRUE), NEW text
    PROVE  LET a == ListedPart(label, raw, text)
               C == ToSet(Catalog[label])
           IN  /\ a \in Seq(EntryType)
               /\ \A k \in 1..Len(a) : a[k].owned =>
                     \E it \in Stocked(raw) : it.code \in C /\ a[k] = Owned(it)
               /\ \A it \in Stocked(raw) : it.code \in C => \E k \in 1..Len(a) : a[k] = Owned(it)
               /\ \A k, l \in 1..Len(a) : a[k].owned /\ a[k] = a[l] => k = l
<1> DEFINE c == Catalog[label]
           T == DOMAIN NameOf
           at == ListedAt(label, raw, text)
           q == Subsequence(c, at)
           a == ListedPart(label, raw, text)
<1>1. c \in Seq(T) /\ IsInjective(c)
    BY TreeAssumption DEF TreeAssumption
<1>2. at \in SUBSET DOMAIN c
    BY DEF ListedAt
<1>3. ToSet(c) = {c[i] : i \in DOMAIN c}
    BY DEF ToSet
<1>4. \A i, j \in DOMAIN c : c[i] = c[j] => i = j
    BY <1>1 DEF IsInjective
<1>5. \A i \in DOMAIN c : (\E it \in Stocked(raw) : it.code = c[i]) => i \in at
    BY DEF ListedAt
<1>6. a = [i \in DOMAIN q |-> EntryOf(raw, q[i])]
    BY DEF ListedPart
<1> HIDE DEF c, T, at, a
<1>7. /\ q \in Seq(T) /\ Len(q) \in Nat /\ DOMAIN q = 1..Len(q)
      /\ \E o : /\ o \in [1..Len(q) -> at]
                /\ \A k \in 1..Len(q) : q[k] = c[o[k]]
                /\ \A i \in at : \E k \in 1..Len(q) : o[k] = i
                /\ \A k, l \in 1..Len(q) : k < l <=> o[k] < o[l]
                /\ \A k, l \in 1..Len(q) : o[k] = o[l] => k = l
    <2> HIDE DEF q
    <2>1. q = Subsequence(c, at)
        BY DEF q
    <2> QED
        BY <1>1, <1>2, <2>1, FilteredIs
<1> HIDE DEF q
<1>8. PICK o : /\ o \in [1..Len(q) -> at]
               /\ \A k \in 1..Len(q) : q[k] = c[o[k]]
               /\ \A i \in at : \E k \in 1..Len(q) : o[k] = i
               /\ \A k, l \in 1..Len(q) : o[k] = o[l] => k = l
    BY <1>7
<1>9. \A k \in 1..Len(q) : a[k] = EntryOf(raw, q[k]) /\ q[k] \in T /\ q[k] \in ToSet(c)
    <2> TAKE k \in 1..Len(q)
    <2>1. a[k] = EntryOf(raw, q[k])
        BY <1>6, <1>7
    <2>2. q[k] \in T
        BY <1>7, ElementOfSeq
    <2>3. o[k] \in DOMAIN c /\ q[k] = c[o[k]]
        BY <1>2, <1>8
    <2> QED
        BY <1>3, <2>1, <2>2, <2>3
<1>10. \A k \in 1..Len(q) :
          /\ a[k] \in EntryType
          /\ a[k].owned => \E it \in Stocked(raw) : it.code = q[k] /\ a[k] = Owned(it)
          /\ \A it \in Stocked(raw) : it.code = q[k] => a[k] = Owned(it)
    <2> TAKE k \in 1..Len(q)
    <2>1. a[k] = EntryOf(raw, q[k]) /\ q[k] \in DOMAIN NameOf
        BY <1>9 DEF T
    <2> DEFINE code == q[k]
    <2> HIDE DEF code
    <2>2. code \in DOMAIN NameOf /\ a[k] = EntryOf(raw, code)
        BY <2>1 DEF code
    <2>3. /\ EntryOf(raw, code) \in EntryType
          /\ EntryOf(raw, code).owned => \E it \in Stocked(raw) : it.code = code /\ EntryOf(raw, code) = Owned(it)
          /\ \A it \in Stocked(raw) : it.code = code => EntryOf(raw, code) = Owned(it)
        BY <2>2, EntryOfIs
    <2> QED
        BY <2>2, <2>3 DEF code
<1>11. a \in Seq(EntryType) /\ Len(a) = Len(q)
    <2>1. a \in [1..Len(q) -> EntryType]
        BY <1>6, <1>7, <1>10
    <2> QED
        BY <1>7, <2>1, IsSeq
<1>12. \A it \in Stocked(raw) : it.code \in ToSet(c) => \E k \in 1..Len(q) : a[k] = Owned(it)
    <2> SUFFICES ASSUME NEW it \in Stocked(raw), it.code \in ToSet(c) PROVE \E k \in 1..Len(q) : a[k] = Owned(it)
        OBVIOUS
    <2>1. PICK i \in DOMAIN c : c[i] = it.code
        BY <1>3
    <2>2. i \in at
        BY <1>5, <2>1
    <2>3. PICK k \in 1..Len(q) : o[k] = i
        BY <1>8, <2>2
    <2>4. q[k] = it.code
        BY <1>8, <2>1, <2>3
    <2> QED
        BY <1>10, <2>4
<1>13. \A k, l \in 1..Len(q) : a[k].owned /\ a[k] = a[l] => k = l
    <2> SUFFICES ASSUME NEW k \in 1..Len(q), NEW l \in 1..Len(q), a[k].owned, a[k] = a[l] PROVE k = l
        OBVIOUS
    <2>1. PICK x \in Stocked(raw) : x.code = q[k] /\ a[k] = Owned(x)
        BY <1>10
    <2>2. PICK y \in Stocked(raw) : y.code = q[l] /\ a[l] = Owned(y)
        BY <1>10
    <2>3. Owned(x) = Owned(y) /\ Owned(x).id = x.id /\ Owned(y).id = y.id
        BY <2>1, <2>2 DEF Owned
    <2>4. x = y
        <3>1. x \in raw /\ y \in raw /\ x.id = y.id
            BY <2>3 DEF Stocked
        <3> QED
            BY <3>1 DEF IsRaw
    <2>5. c[o[k]] = c[o[l]] /\ o[k] \in DOMAIN c /\ o[l] \in DOMAIN c
        BY <1>2, <1>8, <2>1, <2>2, <2>4
    <2>6. o[k] = o[l]
        BY <1>4, <2>5
    <2> QED
        BY <1>8, <2>6
<1>14. \A k \in 1..Len(q) : a[k].owned => \E it \in Stocked(raw) : it.code \in ToSet(c) /\ a[k] = Owned(it)
    BY <1>9, <1>10
<1> QED
    BY <1>11, <1>12, <1>13, <1>14 DEF a, c

\* A section that counts lists each item in stock once.
LEMMA CountEntriesAre ==
    ASSUME NEW label \in CountSections, NEW raw, IsRaw(raw, TRUE), NEW text
    PROVE  Lists(CountEntries(label, raw, text), raw, TRUE)
<1> DEFINE C == ToSet(Catalog[label])
           a == ListedPart(label, raw, text)
           S == Strays(label, raw)
           s == OwnedSeq(S)
<1>1. /\ a \in Seq(EntryType)
      /\ \A k \in 1..Len(a) : a[k].owned => \E it \in Stocked(raw) : it.code \in C /\ a[k] = Owned(it)
      /\ \A it \in Stocked(raw) : it.code \in C => \E k \in 1..Len(a) : a[k] = Owned(it)
      /\ \A k, l \in 1..Len(a) : a[k].owned /\ a[k] = a[l] => k = l
    BY ListedPartIs
<1>2. \A it : it \in S <=> it \in Stocked(raw) /\ it.code \notin C
    BY DEF Strays
<1>3. \A it : it \in Stocked(raw) <=> it \in raw /\ EffectiveStackCount(it) > 0
    BY DEF Stocked
<1>4. IsRaw(S, FALSE)
    <2>1. S \subseteq raw
        BY <1>2, <1>3
    <2> QED
        BY <2>1, FS_Subset DEF IsRaw
<1> HIDE DEF C, a, S, s
<1>5. /\ Lists(s, S, FALSE)
      /\ \A k \in 1..Len(s) : \E it \in S : s[k] = Owned(it)
    BY <1>4, OwnedSeqIs DEF s
<1>6. /\ s \in Seq(EntryType)
      /\ \A it \in S : \E k \in 1..Len(s) : s[k] = Owned(it)
      /\ \A k, l \in 1..Len(s) : s[k].owned /\ s[k] = s[l] => k = l
    BY <1>5 DEF Lists
<1> DEFINE e == a \o s
<1>7. /\ e \in Seq(EntryType) /\ Len(a) \in Nat /\ Len(s) \in Nat
      /\ Len(e) = Len(a) + Len(s)
      /\ \A p \in 1..Len(a) : e[p] = a[p]
      /\ \A k \in 1..Len(s) : e[Len(a) + k] = s[k]
    BY <1>1, <1>6, Behind
<1> HIDE DEF e
<1>8. \A p \in 1..Len(e) : \/ p \in 1..Len(a) /\ e[p] = a[p]
                           \/ \E k \in 1..Len(s) : p = Len(a) + k /\ e[p] = s[k]
    <2> SUFFICES ASSUME NEW p \in 1..Len(e), p \notin 1..Len(a)
                 PROVE  \E k \in 1..Len(s) : p = Len(a) + k /\ e[p] = s[k]
        BY <1>7
    <2>1. p - Len(a) \in 1..Len(s) /\ p = Len(a) + (p - Len(a))
        BY <1>7
    <2> QED
        BY <1>7, <2>1
<1>9. \A p \in 1..Len(e) : e[p].owned => \E it \in Stocked(raw) : e[p] = Owned(it)
    <2> SUFFICES ASSUME NEW p \in 1..Len(e), e[p].owned PROVE \E it \in Stocked(raw) : e[p] = Owned(it)
        OBVIOUS
    <2>1. CASE p \in 1..Len(a) /\ e[p] = a[p]
        BY <1>1, <2>1
    <2>2. CASE \E k \in 1..Len(s) : p = Len(a) + k /\ e[p] = s[k]
        BY <1>2, <1>5, <2>2
    <2> QED
        BY <1>8, <2>1, <2>2
<1>10. \A it \in Stocked(raw) : \E p \in 1..Len(e) : e[p] = Owned(it)
    <2> TAKE it \in Stocked(raw)
    <2>1. CASE it \in S
        <3>1. PICK k \in 1..Len(s) : s[k] = Owned(it)
            BY <1>6, <2>1
        <3>2. Len(a) + k \in 1..Len(e) /\ e[Len(a) + k] = s[k]
            BY <1>7
        <3> QED
            BY <3>1, <3>2
    <2>2. CASE it \notin S
        <3>1. PICK k \in 1..Len(a) : a[k] = Owned(it)
            BY <1>1, <1>2, <2>2
        <3>2. k \in 1..Len(e) /\ e[k] = a[k]
            BY <1>7
        <3> QED
            BY <3>1, <3>2
    <2> QED
        BY <2>1, <2>2
<1>11. \A k \in 1..Len(a), l \in 1..Len(s) : a[k].owned => a[k] # s[l]
    <2> SUFFICES ASSUME NEW k \in 1..Len(a), NEW l \in 1..Len(s), a[k].owned, a[k] = s[l] PROVE FALSE
        OBVIOUS
    <2>1. PICK x \in Stocked(raw) : x.code \in C /\ a[k] = Owned(x)
        BY <1>1
    <2>2. PICK y \in S : s[l] = Owned(y)
        BY <1>5
    <2>3. Owned(x) = Owned(y) /\ Owned(x).id = x.id /\ Owned(y).id = y.id
        BY <2>1, <2>2 DEF Owned
    <2>4. x \in raw /\ y \in raw
        BY <1>2, <1>3
    <2>5. x = y
        BY <2>3, <2>4 DEF IsRaw
    <2> QED
        BY <1>2, <2>1, <2>5
<1>12. \A p, r \in 1..Len(e) : e[p].owned /\ e[p] = e[r] => p = r
    <2> SUFFICES ASSUME NEW p \in 1..Len(e), NEW r \in 1..Len(e), e[p].owned, e[p] = e[r] PROVE p = r
        OBVIOUS
    <2>1. CASE p \in 1..Len(a) /\ e[p] = a[p] /\ r \in 1..Len(a) /\ e[r] = a[r]
        BY <1>1, <2>1
    <2>2. CASE p \in 1..Len(a) /\ e[p] = a[p] /\ \E k \in 1..Len(s) : r = Len(a) + k /\ e[r] = s[k]
        BY <1>11, <2>2
    <2>3. CASE r \in 1..Len(a) /\ e[r] = a[r] /\ \E k \in 1..Len(s) : p = Len(a) + k /\ e[p] = s[k]
        BY <1>11, <2>3
    <2>4. CASE (\E k \in 1..Len(s) : r = Len(a) + k /\ e[r] = s[k]) /\ \E k \in 1..Len(s) : p = Len(a) + k /\ e[p] = s[k]
        BY <1>6, <2>4
    <2> QED
        BY <1>8, <2>1, <2>2, <2>3, <2>4
<1>13. CountEntries(label, raw, text) = e
    BY CountEntriesIs DEF e, a, s, S
<1> QED
    BY <1>3, <1>7, <1>9, <1>10, <1>12, <1>13 DEF Lists

\* The sections of a level, in their order.
SubOrder(top) == IF top = Stash THEN SharedSubOrder ELSE CharSubOrder

\* The sections in their order, each name once.
LEMMA EightNames ==
    ASSUME NEW a, NEW b, NEW c, NEW d, NEW e, NEW f, NEW g, NEW h,
           NEW s, s = <<a, b, c, d, e, f, g, h>>,
           a \notin {b, c, d, e, f, g, h}, b \notin {c, d, e, f, g, h}, c \notin {d, e, f, g, h},
           d \notin {e, f, g, h}, e \notin {f, g, h}, f \notin {g, h}, g # h
    PROVE  /\ s \in Seq(ToSet(s)) /\ DOMAIN s = 1..8
           /\ \A i, j \in 1..8 : s[i] = s[j] => i = j
<1>1. DOMAIN s = 1..8
    OBVIOUS
<1>2. /\ s[1] = a /\ s[2] = b /\ s[3] = c /\ s[4] = d
      /\ s[5] = e /\ s[6] = f /\ s[7] = g /\ s[8] = h
    OBVIOUS
<1>3. \A i \in 1..8 : i \in {1, 2, 3, 4, 5, 6, 7, 8}
    OBVIOUS
<1>4. \A i, j \in 1..8 : s[i] = s[j] => i = j
    BY <1>2, <1>3
<1>5. ToSet(s) = {s[i] : i \in DOMAIN s}
    BY DEF ToSet
<1>6. a \in ToSet(s) /\ b \in ToSet(s) /\ c \in ToSet(s) /\ d \in ToSet(s)
    BY <1>1, <1>2, <1>5
<1>7. e \in ToSet(s) /\ f \in ToSet(s) /\ g \in ToSet(s) /\ h \in ToSet(s)
    BY <1>1, <1>2, <1>5
<1>8. s \in Seq(ToSet(s))
    <2> DEFINE T == ToSet(s)
    <2>1. /\ a \in T /\ b \in T /\ c \in T /\ d \in T
          /\ e \in T /\ f \in T /\ g \in T /\ h \in T
        BY <1>6, <1>7
    <2> HIDE DEF T
    <2>2. <<a, b, c, d, e, f, g, h>> \in Seq(T)
        BY <2>1
    <2> QED
        BY <2>2 DEF T
<1> QED
    BY <1>1, <1>4, <1>8

\* There are eight, and no two are the same.
LEMMA SubOrderIs ==
    ASSUME NEW top
    PROVE  /\ SubOrder(top) \in Seq(Words) /\ DOMAIN SubOrder(top) = 1..8
           /\ \A i, j \in 1..8 : SubOrder(top)[i] = SubOrder(top)[j] => i = j
           /\ SubOrder(top) \in Seq(ToSet(SubOrder(top)))
<1>1. /\ SharedSubOrder \in Seq(ToSet(SharedSubOrder)) /\ DOMAIN SharedSubOrder = 1..8
      /\ \A i, j \in 1..8 : SharedSubOrder[i] = SharedSubOrder[j] => i = j
    <2> DEFINE a == "Page 1"
           b == "Page 2"
           c == "Page 3"
           d == "Page 4"
           e == "Page 5"
           f == "Gems"
           g == "Materials"
           h == "Runes"
    <2>1. SharedSubOrder = <<a, b, c, d, e, f, g, h>>
        BY DEF SharedSubOrder
    <2>2. /\ a \notin {b, c, d, e, f, g, h} /\ b \notin {c, d, e, f, g, h} /\ c \notin {d, e, f, g, h}
          /\ d \notin {e, f, g, h} /\ e \notin {f, g, h} /\ f \notin {g, h} /\ g # h
        OBVIOUS
    <2> HIDE DEF a, b, c, d, e, f, g, h
    <2> QED
        BY <2>1, <2>2, EightNames
<1>2. /\ CharSubOrder \in Seq(ToSet(CharSubOrder)) /\ DOMAIN CharSubOrder = 1..8
      /\ \A i, j \in 1..8 : CharSubOrder[i] = CharSubOrder[j] => i = j
    <2> DEFINE a == "Equipped"
           b == "Inventory"
           c == "Stash"
           d == "Belt"
           e == "Cube"
           f == "Merc"
           g == "Corpse"
           h == "Iron Golem"
    <2>1. CharSubOrder = <<a, b, c, d, e, f, g, h>>
        BY DEF CharSubOrder
    <2>2. /\ a \notin {b, c, d, e, f, g, h} /\ b \notin {c, d, e, f, g, h} /\ c \notin {d, e, f, g, h}
          /\ d \notin {e, f, g, h} /\ e \notin {f, g, h} /\ f \notin {g, h} /\ g # h
        OBVIOUS
    <2> HIDE DEF a, b, c, d, e, f, g, h
    <2> QED
        BY <2>1, <2>2, EightNames
<1>3. \A s : s \in Seq(ToSet(SharedSubOrder)) \/ s \in Seq(ToSet(CharSubOrder)) => s \in Seq(Words)
    <2>1. ToSet(SharedSubOrder) \subseteq Words /\ ToSet(CharSubOrder) \subseteq Words
        BY DEF Words
    <2> QED
        BY <2>1, SeqMonotonic
<1>4. SubOrder(top) = SharedSubOrder \/ SubOrder(top) = CharSubOrder
    BY DEF SubOrder
<1> QED
    BY <1>1, <1>2, <1>3, <1>4

\* The items of a section are an inventory with one item to a code where it counts.
LEMMA RawIs ==
    ASSUME NEW shown, IsInventory(shown), NEW top, NEW label
    PROVE  /\ IsRaw(Raw(shown, top, label), FALSE)
           /\ label \in CountSections => IsRaw(Raw(shown, top, label), TRUE)
<1> DEFINE raw == Raw(shown, top, label)
<1>1. /\ IsFiniteSet(shown)
      /\ \A it \in shown : it.id \in Nat /\ it.stacks \in Nat
      /\ \A a, b \in shown : a.id = b.id => a = b
      /\ \A a, b \in shown :
          SubLevelOf(a) \in CountSections /\ SubLevelOf(a) = SubLevelOf(b) /\ a.code = b.code => a = b
    BY DEF IsInventory
<1>2. raw \subseteq shown /\ \A it \in raw : SubLevelOf(it) = label
    BY DEF Raw
<1> HIDE DEF raw
<1>3. IsFiniteSet(raw)
    BY <1>1, <1>2, FS_Subset
<1>4. \A it \in raw : it.id \in Nat /\ EffectiveStackCount(it) \in Nat
    BY <1>1, <1>2 DEF EffectiveStackCount
<1>5. label \in CountSections => \A a, b \in raw : a.code = b.code => a = b
    BY <1>1, <1>2
<1>6. \A a, b \in raw : a.id = b.id => a = b
    BY <1>1, <1>2
<1> QED
    BY <1>3, <1>4, <1>5, <1>6 DEF raw, IsRaw

\* A section has the path of its level and label, and lists the items that belong there.
LEMMA SectionIs ==
    ASSUME NEW shown, IsInventory(shown), NEW top \in Words, NEW label \in Words, NEW text
    PROVE  LET sec == Section(top, label, Raw(shown, top, label), text)
           IN  /\ sec \in SecType(EntryType)
               /\ sec.path = <<top, label>>
               /\ Lists(sec.entries, Raw(shown, top, label), label \in CountSections)
               /\ sec.owns <=> Raw(shown, top, label) # {}
<1> DEFINE raw == Raw(shown, top, label)
           sec == Section(top, label, raw, text)
           entries == IF label \in CountSections THEN CountEntries(label, raw, text) ELSE OwnedSeq(raw)
           counted == label \in CountSections
<1>0. counted \in BOOLEAN /\ (raw # {}) \in BOOLEAN
    OBVIOUS
<1>1. /\ IsRaw(raw, FALSE)
      /\ counted => IsRaw(raw, TRUE)
    BY RawIs
<1> HIDE DEF raw
<1>2. sec = [path |-> <<top, label>>, counted |-> counted, owns |-> raw # {}, entries |-> entries]
    BY DEF Section, OwnedSeq
<1>5. Lists(entries, raw, counted)
    <2>1. CASE counted
        <3>1. Lists(CountEntries(label, raw, text), raw, TRUE)
            BY <1>1, <2>1, CountEntriesAre
        <3>2. entries = CountEntries(label, raw, text) /\ counted = TRUE
            BY <2>1
        <3> QED
            BY <3>1, <3>2
    <2>2. CASE ~ counted
        <3>1. Lists(OwnedSeq(raw), raw, FALSE)
            BY <1>1, OwnedSeqIs
        <3>2. entries = OwnedSeq(raw)
            BY <2>2
        <3>3. counted = FALSE
            <4> HIDE DEF counted
            <4> QED
                BY <1>0, <2>2
        <3> QED
            BY <3>1, <3>2, <3>3
    <2> QED
        BY <2>1, <2>2
<1>6. entries \in Seq(EntryType)
    BY <1>5 DEF Lists
<1>7. <<top, label>> \in Paths
    <2>1. \A a, b \in Words : <<a, b>> \in Seq(Words)
        OBVIOUS
    <2> QED
        BY <2>1 DEF Paths
<1> HIDE DEF entries
<1>8. sec \in SecType(EntryType)
    BY <1>2, <1>6, <1>7 DEF SecType
<1>9. sec.path = <<top, label>> /\ sec.entries = entries /\ (sec.owns <=> raw # {})
    <2> HIDE DEF sec
    <2> QED
        BY <1>2
<1> QED
    BY <1>5, <1>8, <1>9 DEF raw

\* A sequence takes the elements at some positions of another, once each.
Takes(q, seq, at, g) ==
    /\ g \in [1..Len(q) -> at]
    /\ \A k \in 1..Len(q) : q[k] = seq[g[k]]
    /\ \A i \in at : \E k \in 1..Len(q) : g[k] = i
    /\ \A k, l \in 1..Len(q) : g[k] = g[l] => k = l

\* What passes a test.
LEMMA TakesOne ==
    ASSUME NEW T, NEW seq \in Seq(T), NEW at \in SUBSET DOMAIN seq, NEW q, q = Subsequence(seq, at)
    PROVE  q \in Seq(T) /\ Len(q) \in Nat /\ DOMAIN q = 1..Len(q) /\ \E g : Takes(q, seq, at, g)
<1>1. /\ q \in Seq(T) /\ Len(q) \in Nat /\ DOMAIN q = 1..Len(q)
      /\ \E o : /\ o \in [1..Len(q) -> at]
                /\ \A k \in 1..Len(q) : q[k] = seq[o[k]]
                /\ \A i \in at : \E k \in 1..Len(q) : o[k] = i
                /\ \A k, l \in 1..Len(q) : k < l <=> o[k] < o[l]
                /\ \A k, l \in 1..Len(q) : o[k] = o[l] => k = l
    BY FilteredIs
<1> QED
    BY <1>1 DEF Takes

\* What passes a test, and behind it what passes another.
LEMMA TakesBoth ==
    ASSUME NEW T, NEW seq \in Seq(T), NEW A \in SUBSET DOMAIN seq, NEW B \in SUBSET DOMAIN seq, A \cap B = {},
           NEW q, q = Subsequence(seq, A) \o Subsequence(seq, B)
    PROVE  q \in Seq(T) /\ Len(q) \in Nat /\ \E g : Takes(q, seq, A \cup B, g)
<1> DEFINE a == Subsequence(seq, A)
           b == Subsequence(seq, B)
           m == Len(a)
           n == Len(b)
<1>1. q = a \o b
    OBVIOUS
<1>2. a = Subsequence(seq, A) /\ b = Subsequence(seq, B)
    OBVIOUS
<1> HIDE DEF a, b
<1>3. a \in Seq(T) /\ m \in Nat /\ b \in Seq(T) /\ n \in Nat
    BY <1>2, TakesOne
<1>4. PICK o : Takes(a, seq, A, o)
    BY <1>2, TakesOne
<1>5. PICK p : Takes(b, seq, B, p)
    BY <1>2, TakesOne
<1>6. /\ q \in Seq(T) /\ Len(q) = m + n
      /\ \A k \in 1..m : q[k] = a[k]
      /\ \A k \in 1..n : q[m + k] = b[k]
    BY <1>1, <1>3, Behind
<1> HIDE DEF m, n
<1> DEFINE g == [k \in 1..Len(q) |-> IF k <= m THEN o[k] ELSE p[k - m]]
<1>7. \A k \in 1..m : k \in 1..Len(q) /\ g[k] = o[k] /\ o[k] \in A
    <2>1. o \in [1..m -> A]
        BY <1>4 DEF Takes, m
    <2> QED
        BY <1>3, <1>6, <2>1
<1>8. \A k \in 1..n : m + k \in 1..Len(q) /\ g[m + k] = p[k] /\ p[k] \in B
    <2> TAKE k \in 1..n
    <2>1. m + k \in 1..Len(q) /\ ~ (m + k <= m) /\ (m + k) - m = k
        BY <1>3, <1>6
    <2>2. p[k] \in B
        BY <1>5 DEF Takes, n
    <2> QED
        BY <2>1, <2>2
<1>9. \A k \in 1..Len(q) : k \in 1..m \/ (k - m \in 1..n /\ k = m + (k - m))
    BY <1>3, <1>6
<1>10. g \in [1..Len(q) -> A \cup B]
    <2>1. \A k \in 1..Len(q) : g[k] \in A \cup B
        <3> TAKE k \in 1..Len(q)
        <3>1. CASE k \in 1..m
            BY <1>7, <3>1
        <3>2. CASE k \notin 1..m
            <4> DEFINE l == k - m
            <4>1. l \in 1..n /\ k = m + l
                BY <1>9, <3>2
            <4> HIDE DEF l, g
            <4> QED
                BY <1>8, <4>1
        <3> QED
            BY <3>1, <3>2
    <2> QED
        BY <2>1
<1> HIDE DEF g
<1>11. \A k \in 1..Len(q) : q[k] = seq[g[k]]
    <2> TAKE k \in 1..Len(q)
    <2>1. CASE k \in 1..m
        BY <1>4, <1>6, <1>7, <2>1 DEF Takes, m
    <2>2. CASE k \notin 1..m
        <3> DEFINE l == k - m
        <3>1. l \in 1..n /\ k = m + l
            BY <1>9, <2>2
        <3> HIDE DEF l
        <3> QED
            BY <1>5, <1>6, <1>8, <3>1 DEF Takes, n
    <2> QED
        BY <2>1, <2>2
<1>12. \A i \in A \cup B : \E k \in 1..Len(q) : g[k] = i
    <2> TAKE i \in A \cup B
    <2>1. CASE i \in A
        BY <1>4, <1>7, <2>1 DEF Takes, m
    <2>2. CASE i \in B
        BY <1>5, <1>8, <2>2 DEF Takes, n
    <2> QED
        BY <2>1, <2>2
<1>13. \A k, l \in 1..Len(q) : g[k] = g[l] => k = l
    <2> SUFFICES ASSUME NEW k \in 1..Len(q), NEW l \in 1..Len(q), g[k] = g[l] PROVE k = l
        OBVIOUS
    <2>1. CASE k \in 1..m /\ l \in 1..m
        BY <1>4, <1>7, <2>1 DEF Takes, m
    <2>2. CASE k \in 1..m /\ l \notin 1..m
        <3>1. g[l] \in B
            BY <1>8, <1>9, <2>2
        <3> QED
            BY <1>7, <2>2, <3>1
    <2>3. CASE k \notin 1..m /\ l \in 1..m
        <3>1. g[k] \in B
            BY <1>8, <1>9, <2>3
        <3> QED
            BY <1>7, <2>3, <3>1
    <2>4. CASE k \notin 1..m /\ l \notin 1..m
        <3>1. PICK x \in 1..n : k = m + x
            BY <1>9, <2>4
        <3>2. PICK y \in 1..n : l = m + y
            BY <1>9, <2>4
        <3> QED
            BY <1>5, <1>8, <3>1, <3>2 DEF Takes, n
    <2> QED
        BY <2>1, <2>2, <2>3, <2>4
<1>14. Takes(q, seq, A \cup B, g)
    BY <1>10, <1>11, <1>12, <1>13 DEF Takes
<1> QED
    BY <1>3, <1>6, <1>14

\* The sections of a top level, whether they show or not.
SectionAt(shown, top, text, i) == Section(top, SubOrder(top)[i], Raw(shown, top, SubOrder(top)[i]), text)

\* The same for the i-th section of a level.
LEMMA SectionAtIs ==
    ASSUME NEW shown, IsInventory(shown), NEW top \in Words, NEW text, NEW i \in 1..8
    PROVE  LET sec == SectionAt(shown, top, text, i)
               label == SubOrder(top)[i]
           IN  /\ sec \in SecType(EntryType)
               /\ sec.path = <<top, label>>
               /\ Lists(sec.entries, Raw(shown, top, label), label \in CountSections)
               /\ sec.owns <=> Raw(shown, top, label) # {}
<1> DEFINE label == SubOrder(top)[i]
<1>1. label \in Words
    BY SubOrderIs, ElementOfSeq
<1>2. SectionAt(shown, top, text, i) = Section(top, label, Raw(shown, top, label), text)
    BY DEF SectionAt
<1> HIDE DEF label
<1> QED
    BY <1>1, <1>2, SectionIs DEF label

\* The sections that a level gets, by their places in the order.
SectionsTake(secs, shown, top, text, g) ==
    /\ g \in [1..Len(secs) -> 1..8]
    /\ \A k \in 1..Len(secs) : secs[k] = SectionAt(shown, top, text, g[k])
    /\ \A k, l \in 1..Len(secs) : g[k] = g[l] => k = l
    /\ \A i \in 1..8 : SectionAt(shown, top, text, i).owns => \E k \in 1..Len(secs) : g[k] = i

\* The sections of a level are those of the eight that are shown, in their order.
LEMMA SectionsAre ==
    ASSUME NEW shown, IsInventory(shown), NEW top \in Words, NEW text
    PROVE  /\ SectionsOf(shown, top, text) \in Seq(SecType(EntryType))
           /\ Len(SectionsOf(shown, top, text)) \in Nat
           /\ \E g : SectionsTake(SectionsOf(shown, top, text), shown, top, text, g)
<1> DEFINE all == [i \in 1..8 |-> SectionAt(shown, top, text, i)]
           Shows(sec) == /\ sec.owns \/ (sec.counted /\ text # NoQuery)
                         /\ sec.entries # << >>
           A == {i \in DOMAIN all : Shows(all[i])}
           B == {i \in DOMAIN all : ~ Shows(all[i]) /\ all[i].owns}
           secs == SectionsOf(shown, top, text)
<1>1. all = [i \in DOMAIN SubOrder(top) |->
                Section(top, SubOrder(top)[i], Raw(shown, top, SubOrder(top)[i]), text)]
    BY SubOrderIs DEF SectionAt
<1>2. secs = Filtered(all, Shows) \o Filtered(all, LAMBDA sec : ~ Shows(sec) /\ sec.owns)
    BY <1>1 DEF SectionsOf, SubOrder
<1>3. secs = Subsequence(all, A) \o Subsequence(all, B)
    BY <1>2 DEF Filtered
<1>4. all \in [1..8 -> SecType(EntryType)]
    BY SectionAtIs
<1>5. all \in Seq(SecType(EntryType)) /\ DOMAIN all = 1..8
    <2> HIDE DEF all
    <2> QED
        BY <1>4, IsSeq
<1>6. A \in SUBSET DOMAIN all /\ B \in SUBSET DOMAIN all /\ A \cap B = {}
    OBVIOUS
<1>7. A \cup B \subseteq 1..8
    BY <1>5
<1>8. \A i \in 1..8 : all[i].owns => i \in A \cup B
    BY <1>5
<1>9. \A i \in 1..8 : all[i] = SectionAt(shown, top, text, i)
    OBVIOUS
<1> HIDE DEF all, A, B, secs
<1>10. secs \in Seq(SecType(EntryType)) /\ Len(secs) \in Nat /\ \E g : Takes(secs, all, A \cup B, g)
    BY <1>3, <1>5, <1>6, TakesBoth
<1>11. PICK g : Takes(secs, all, A \cup B, g)
    BY <1>10
<1>12. SectionsTake(secs, shown, top, text, g)
    BY <1>7, <1>8, <1>9, <1>11 DEF Takes, SectionsTake
<1> QED
    BY <1>10, <1>12 DEF secs

\* The inventory tree of some items: each level once, and for each item its section.
SectionsFit(secs, shown, top) ==
    /\ secs \in Seq(SecType(EntryType)) /\ Len(secs) \in Nat
    /\ \A s \in 1..Len(secs) : \E label \in Words :
          /\ secs[s].path = <<top, label>>
          /\ Lists(secs[s].entries, Raw(shown, top, label), label \in CountSections)
    /\ \A s, r \in 1..Len(secs) : secs[s].path = secs[r].path => s = r
    /\ \A it \in shown : TopLevelOf(it) = top =>
          \E s \in 1..Len(secs) : secs[s].path = <<top, SubLevelOf(it)>>

\* Each item belongs to a level and a section that the tree knows.
LEMMA ItemBelongs ==
    ASSUME NEW shown, IsInventory(shown), NEW it \in shown
    PROVE  /\ TopLevelOf(it) \in {Stash} \cup ToSet(Owners)
           /\ \E i \in 1..8 : SubOrder(TopLevelOf(it))[i] = SubLevelOf(it)
<1>1. CASE it.stash
    <2>1. TopLevelOf(it) = Stash
        BY <1>1 DEF TopLevelOf
    <2>2. SubOrder(TopLevelOf(it)) = SharedSubOrder
        BY <2>1 DEF SubOrder
    <2>3. /\ SharedSubOrder[6] = "Gems" /\ SharedSubOrder[7] = "Materials" /\ SharedSubOrder[8] = "Runes"
        BY DEF SharedSubOrder
    <2>4. CASE it.tab \in 1..5
        <3>1. SubLevelOf(it) = SharedSubOrder[it.tab]
            BY <1>1, <2>4 DEF SubLevelOf
        <3>2. it.tab \in 1..8
            BY <2>4
        <3> QED
            BY <2>1, <2>2, <3>1, <3>2
    <2>5. CASE it.tab \notin 1..5 /\ it.class = "rune"
        <3>1. SubLevelOf(it) = "Runes"
            BY <1>1, <2>5 DEF SubLevelOf
        <3> QED
            BY <2>1, <2>2, <2>3, <3>1
    <2>6. CASE it.tab \notin 1..5 /\ it.class # "rune" /\ it.class = "gem"
        <3>1. SubLevelOf(it) = "Gems"
            BY <1>1, <2>6 DEF SubLevelOf
        <3> QED
            BY <2>1, <2>2, <2>3, <3>1
    <2>7. CASE it.tab \notin 1..5 /\ it.class # "rune" /\ it.class # "gem"
        <3>1. SubLevelOf(it) = "Materials"
            BY <1>1, <2>7 DEF SubLevelOf
        <3> QED
            BY <2>1, <2>2, <2>3, <3>1
    <2> QED
        BY <2>4, <2>5, <2>6, <2>7
<1>2. CASE ~ it.stash
    <2>1. it.owner \in ToSet(Owners) /\ it.sub \in ToSet(CharSubOrder)
        BY <1>2 DEF IsInventory
    <2>2. TopLevelOf(it) = it.owner /\ SubLevelOf(it) = it.sub
        BY <1>2 DEF TopLevelOf, SubLevelOf
    <2>3. it.owner # Stash
        BY <2>1, TreeAssumption DEF TreeAssumption
    <2>4. SubOrder(TopLevelOf(it)) = CharSubOrder
        BY <2>2, <2>3 DEF SubOrder
    <2>5. \E i \in 1..8 : CharSubOrder[i] = it.sub
        <3>1. DOMAIN CharSubOrder = 1..8
            BY <2>4, SubOrderIs
        <3> QED
            BY <2>1, <3>1 DEF ToSet
    <2> QED
        BY <2>1, <2>2, <2>4, <2>5
<1> QED
    BY <1>1, <1>2

\* The sections of a level list what belongs there, no two have the same path, and none that
\* has an item is left out.
LEMMA SectionsDoFit ==
    ASSUME NEW shown, IsInventory(shown), NEW top \in Words, NEW text
    PROVE  SectionsFit(SectionsOf(shown, top, text), shown, top)
<1> DEFINE secs == SectionsOf(shown, top, text)
           label == [i \in 1..8 |-> SubOrder(top)[i]]
<1>1. /\ secs \in Seq(SecType(EntryType)) /\ Len(secs) \in Nat
      /\ \E g : SectionsTake(secs, shown, top, text, g)
    BY SectionsAre
<1>2. PICK g : SectionsTake(secs, shown, top, text, g)
    BY <1>1
<1>3. /\ label \in [1..8 -> Words]
      /\ \A i, j \in 1..8 : label[i] = label[j] => i = j
      /\ \A i \in 1..8 : label[i] = SubOrder(top)[i]
    BY SubOrderIs, ElementOfSeq
<1>4. \A i \in 1..8 : /\ SectionAt(shown, top, text, i).path = <<top, label[i]>>
                      /\ Lists(SectionAt(shown, top, text, i).entries, Raw(shown, top, label[i]), label[i] \in CountSections)
                      /\ SectionAt(shown, top, text, i).owns <=> Raw(shown, top, label[i]) # {}
    BY SectionAtIs
<1> HIDE DEF secs, label
<1>5. \A s \in 1..Len(secs) : \E w \in Words :
          /\ secs[s].path = <<top, w>>
          /\ Lists(secs[s].entries, Raw(shown, top, w), w \in CountSections)
    <2> TAKE s \in 1..Len(secs)
    <2>1. g[s] \in 1..8 /\ secs[s] = SectionAt(shown, top, text, g[s])
        BY <1>2 DEF SectionsTake
    <2>2. label[g[s]] \in Words
        BY <1>3, <2>1
    <2> WITNESS label[g[s]] \in Words
    <2> QED
        BY <1>4, <2>1
<1>6. \A s, r \in 1..Len(secs) : secs[s].path = secs[r].path => s = r
    <2> SUFFICES ASSUME NEW s \in 1..Len(secs), NEW r \in 1..Len(secs), secs[s].path = secs[r].path PROVE s = r
        OBVIOUS
    <2>1. g[s] \in 1..8 /\ secs[s] = SectionAt(shown, top, text, g[s]) /\ g[r] \in 1..8 /\ secs[r] = SectionAt(shown, top, text, g[r])
        BY <1>2 DEF SectionsTake
    <2>2. <<top, label[g[s]]>> = <<top, label[g[r]]>>
        BY <1>4, <2>1
    <2>3. label[g[s]] = label[g[r]]
        BY <2>2
    <2> QED
        BY <1>2, <1>3, <2>1, <2>3 DEF SectionsTake
<1>7. \A it \in shown : TopLevelOf(it) = top =>
          \E s \in 1..Len(secs) : secs[s].path = <<top, SubLevelOf(it)>>
    <2> SUFFICES ASSUME NEW it \in shown, TopLevelOf(it) = top
                 PROVE  \E s \in 1..Len(secs) : secs[s].path = <<top, SubLevelOf(it)>>
        OBVIOUS
    <2>1. PICK i \in 1..8 : label[i] = SubLevelOf(it)
        BY <1>3, ItemBelongs
    <2>2. it \in Raw(shown, top, label[i])
        BY <2>1 DEF Raw
    <2>3. SectionAt(shown, top, text, i).owns
        BY <1>4, <2>2
    <2>4. PICK k \in 1..Len(secs) : g[k] = i
        BY <1>2, <2>3 DEF SectionsTake
    <2>5. secs[k].path = <<top, SubLevelOf(it)>>
        BY <1>2, <1>4, <2>1, <2>4 DEF SectionsTake
    <2> QED
        BY <2>5
<1> QED
    BY <1>1, <1>5, <1>6, <1>7 DEF SectionsFit, secs

\* The tree: each level once, with sections that fit, and every item under one.
TreeFits(tree, shown) ==
    /\ tree \in Seq(TopType(EntryType)) /\ Len(tree) \in Nat
    /\ \A t \in 1..Len(tree) : \E top \in Words :
          tree[t].path = <<top>> /\ SectionsFit(tree[t].sections, shown, top)
    /\ \A t, u \in 1..Len(tree) : tree[t].path = tree[u].path => t = u
    /\ \A it \in shown : \E t \in 1..Len(tree) : tree[t].path = <<TopLevelOf(it)>>

\* The levels in their order.
Tops == <<Stash>> \o Owners

\* The shared stash and the owners are the levels, each once.
LEMMA TopsAre ==
    /\ Tops \in Seq(Words) /\ Len(Tops) \in Nat /\ DOMAIN Tops = 1..Len(Tops)
    /\ \A i, j \in 1..Len(Tops) : Tops[i] = Tops[j] => i = j
    /\ \A top \in {Stash} \cup ToSet(Owners) : \E i \in 1..Len(Tops) : Tops[i] = top
<1>1. /\ Owners \in Seq(ToSet(Owners)) /\ Stash \notin ToSet(Owners)
      /\ \A i, j \in DOMAIN Owners : Owners[i] = Owners[j] => i = j
    BY TreeAssumption DEF TreeAssumption, IsInjective
<1>2. DOMAIN Owners = 1..Len(Owners) /\ Len(Owners) \in Nat
    BY <1>1
<1>3. ToSet(Owners) = {Owners[i] : i \in 1..Len(Owners)}
    BY <1>2 DEF ToSet
<1>4. Owners \in Seq(Words) /\ Stash \in Words
    <2>1. ToSet(Owners) \subseteq Words /\ Stash \in Words
        BY DEF Words
    <2> QED
        BY <1>1, <2>1, SeqMonotonic
<1>5. /\ Tops \in Seq(Words) /\ Len(Tops) = 1 + Len(Owners)
      /\ Tops[1] = Stash /\ \A k \in 1..Len(Owners) : Tops[1 + k] = Owners[k]
    BY <1>4, PartIs DEF Tops
<1>6. Len(Tops) \in Nat /\ DOMAIN Tops = 1..Len(Tops)
    BY <1>5
<1>7. \A i \in 1..Len(Tops) : i = 1 \/ (i - 1 \in 1..Len(Owners) /\ Tops[i] = Owners[i - 1] /\ Tops[i] # Stash)
    <2> SUFFICES ASSUME NEW i \in 1..Len(Tops), i # 1
                 PROVE  i - 1 \in 1..Len(Owners) /\ Tops[i] = Owners[i - 1] /\ Tops[i] # Stash
        OBVIOUS
    <2> DEFINE k == i - 1
    <2>1. k \in 1..Len(Owners) /\ i = 1 + k
        BY <1>2, <1>5
    <2> HIDE DEF k
    <2>2. Tops[i] = Owners[k] /\ Owners[k] \in ToSet(Owners)
        BY <1>3, <1>5, <2>1
    <2> QED
        BY <1>1, <2>1, <2>2 DEF k
<1>8. \A i, j \in 1..Len(Tops) : Tops[i] = Tops[j] => i = j
    <2> SUFFICES ASSUME NEW i \in 1..Len(Tops), NEW j \in 1..Len(Tops), Tops[i] = Tops[j] PROVE i = j
        OBVIOUS
    <2>1. CASE i = 1 \/ j = 1
        BY <1>5, <1>7, <2>1
    <2>2. CASE i # 1 /\ j # 1
        <3>1. i - 1 \in 1..Len(Owners) /\ j - 1 \in 1..Len(Owners) /\ Owners[i - 1] = Owners[j - 1]
            BY <1>7, <2>2
        <3>2. i - 1 = j - 1
            BY <1>1, <1>2, <3>1
        <3> QED
            BY <1>6, <3>2
    <2> QED
        BY <2>1, <2>2
<1>9. \A top \in {Stash} \cup ToSet(Owners) : \E i \in 1..Len(Tops) : Tops[i] = top
    <2> TAKE top \in {Stash} \cup ToSet(Owners)
    <2>1. CASE top = Stash
        BY <1>2, <1>5, <2>1
    <2>2. CASE top \in ToSet(Owners)
        <3>1. PICK k \in 1..Len(Owners) : Owners[k] = top
            BY <1>3, <2>2
        <3>2. 1 + k \in 1..Len(Tops) /\ Tops[1 + k] = top
            BY <1>2, <1>5, <3>1
        <3> QED
            BY <3>2
    <2> QED
        BY <2>1, <2>2
<1> QED
    BY <1>5, <1>6, <1>8, <1>9

\* The i-th level.
TopAt(shown, text, i) ==
    [path     |-> <<Tops[i]>>,
     owns     |-> \E it \in shown : TopLevelOf(it) = Tops[i],
     sections |-> SectionsOf(shown, Tops[i], text)]

\* The tree has the levels and the sections of all the items that are shown.
LEMMA TreeDoesFit ==
    ASSUME NEW shown, IsInventory(shown), NEW text
    PROVE  TreeFits(BuildInventoryTree(shown, text), shown)
<1> DEFINE tree == BuildInventoryTree(shown, text)
           n == Len(Tops)
           all == [i \in 1..n |-> TopAt(shown, text, i)]
           A == {i \in DOMAIN all : all[i].owns}
<1>1. /\ Tops \in Seq(Words) /\ n \in Nat /\ DOMAIN Tops = 1..n
      /\ \A i, j \in 1..n : Tops[i] = Tops[j] => i = j
      /\ \A top \in {Stash} \cup ToSet(Owners) : \E i \in 1..n : Tops[i] = top
    BY TopsAre
<1>2. \A i \in 1..n : Tops[i] \in Words
    BY <1>1, ElementOfSeq
<1>3. tree = Filtered([i \in DOMAIN Tops |-> TopAt(shown, text, i)], LAMBDA top : top.owns)
    BY DEF BuildInventoryTree, Tops, TopAt
<1>4. tree = Subsequence(all, A)
    BY <1>1, <1>3 DEF Filtered
<1>5. \A i \in 1..n : SectionsFit(SectionsOf(shown, Tops[i], text), shown, Tops[i])
    BY <1>2, SectionsDoFit
<1>6. \A i \in 1..n : TopAt(shown, text, i) \in TopType(EntryType)
    <2> TAKE i \in 1..n
    <2>1. SectionsOf(shown, Tops[i], text) \in Seq(SecType(EntryType))
        BY <1>5 DEF SectionsFit
    <2>2. <<Tops[i]>> \in Paths
        BY <1>2 DEF Paths
    <2> QED
        BY <2>1, <2>2 DEF TopAt, TopType
<1>7. all \in [1..n -> TopType(EntryType)]
    BY <1>6
<1>8. all \in Seq(TopType(EntryType)) /\ DOMAIN all = 1..n
    <2> HIDE DEF all
    <2> QED
        BY <1>1, <1>7, IsSeq
<1>9. A \in SUBSET DOMAIN all
    OBVIOUS
<1>10. \A i \in 1..n : /\ all[i].path = <<Tops[i]>>
                       /\ all[i].sections = SectionsOf(shown, Tops[i], text)
    BY DEF TopAt
<1>11. \A i \in 1..n : (\E it \in shown : TopLevelOf(it) = Tops[i]) => i \in A
    BY <1>8 DEF TopAt
<1> HIDE DEF tree, all, A, n
<1>12. tree \in Seq(TopType(EntryType)) /\ Len(tree) \in Nat /\ \E g : Takes(tree, all, A, g)
    BY <1>4, <1>8, <1>9, TakesOne
<1>13. PICK g : Takes(tree, all, A, g)
    BY <1>12
<1>14. \A t \in 1..Len(tree) : /\ g[t] \in 1..n /\ tree[t].path = <<Tops[g[t]]>>
                               /\ tree[t].sections = SectionsOf(shown, Tops[g[t]], text)
    BY <1>8, <1>9, <1>10, <1>13 DEF Takes
<1>15. \A t \in 1..Len(tree) : \E top \in Words :
          tree[t].path = <<top>> /\ SectionsFit(tree[t].sections, shown, top)
    <2> TAKE t \in 1..Len(tree)
    <2>1. Tops[g[t]] \in Words
        BY <1>2, <1>14
    <2> WITNESS Tops[g[t]] \in Words
    <2> QED
        BY <1>5, <1>14
<1>16. \A t, u \in 1..Len(tree) : tree[t].path = tree[u].path => t = u
    <2> SUFFICES ASSUME NEW t \in 1..Len(tree), NEW u \in 1..Len(tree), tree[t].path = tree[u].path PROVE t = u
        OBVIOUS
    <2>1. <<Tops[g[t]]>> = <<Tops[g[u]]>>
        BY <1>14
    <2>2. Tops[g[t]] = Tops[g[u]]
        BY <2>1
    <2>3. g[t] = g[u]
        BY <1>1, <1>14, <2>2
    <2> QED
        BY <1>13, <2>3 DEF Takes
<1>17. \A it \in shown : \E t \in 1..Len(tree) : tree[t].path = <<TopLevelOf(it)>>
    <2> TAKE it \in shown
    <2>1. PICK i \in 1..n : Tops[i] = TopLevelOf(it)
        BY <1>1, ItemBelongs
    <2>2. i \in A
        BY <1>11, <2>1
    <2>3. PICK t \in 1..Len(tree) : g[t] = i
        BY <1>13, <2>2 DEF Takes
    <2> QED
        BY <1>14, <2>1, <2>3
<1> QED
    BY <1>12, <1>15, <1>16, <1>17 DEF TreeFits, tree

\* The larger and the smaller of two numbers.
LEMMA TwoAre ==
    ASSUME NEW a \in Int, NEW b \in Int
    PROVE  /\ Max({a, b}) = IF a >= b THEN a ELSE b
           /\ Min({a, b}) = IF a <= b THEN a ELSE b
<1>1. CASE a <= b
    <2>1. b \in {a, b} /\ \A y \in {a, b} : b >= y
        BY <1>1
    <2>2. a \in {a, b} /\ \A y \in {a, b} : a <= y
        BY <1>1
    <2>3. \A x \in {a, b} : (\A y \in {a, b} : x >= y) => x = b
        BY <1>1
    <2>4. \A x \in {a, b} : (\A y \in {a, b} : x <= y) => x = a
        BY <1>1
    <2>5. Max({a, b}) = b
        BY <2>1, <2>3 DEF Max
    <2>6. Min({a, b}) = a
        BY <2>2, <2>4 DEF Min
    <2> QED
        BY <1>1, <2>5, <2>6
<1>2. CASE a > b
    <2>1. a \in {a, b} /\ \A y \in {a, b} : a >= y
        BY <1>2
    <2>2. b \in {a, b} /\ \A y \in {a, b} : b <= y
        BY <1>2
    <2>3. \A x \in {a, b} : (\A y \in {a, b} : x >= y) => x = a
        BY <1>2
    <2>4. \A x \in {a, b} : (\A y \in {a, b} : x <= y) => x = b
        BY <1>2
    <2>5. Max({a, b}) = a
        BY <2>1, <2>3 DEF Max
    <2>6. Min({a, b}) = b
        BY <2>2, <2>4 DEF Min
    <2> QED
        BY <1>2, <2>5, <2>6
<1> QED
    BY <1>1, <1>2

\* The cursor is brought back into the rows.
LEMMA ClampIs ==
    ASSUME NEW i \in Int, NEW n \in Nat
    PROVE  /\ Clamp(i, n) \in Nat /\ (i \in Nat => Clamp(i, n) <= i)
           /\ n # 0 => Clamp(i, n) \in 0..n - 1
           /\ i \in 0..n - 1 => Clamp(i, n) = i
           /\ n # 0 /\ i >= n => Clamp(i, n) = n - 1
<1>1. CASE n = 0
    BY <1>1 DEF Clamp
<1>2. CASE n # 0
    <2> DEFINE m == Min({i, n - 1})
    <2>1. m = IF i <= n - 1 THEN i ELSE n - 1
        <3> DEFINE k == n - 1
        <3>1. k \in Int /\ m = Min({i, k})
            OBVIOUS
        <3> HIDE DEF k, m
        <3>2. m = IF i <= k THEN i ELSE k
            BY <3>1, TwoAre
        <3> QED
            BY <3>2 DEF k
    <2>2. Clamp(i, n) = Max({0, m})
        BY <1>2 DEF Clamp
    <2> HIDE DEF m
    <2>3. m \in Int
        BY <2>1
    <2>4. Max({0, m}) = IF 0 >= m THEN 0 ELSE m
        BY <2>3, TwoAre
    <2> QED
        BY <1>2, <2>1, <2>2, <2>4
<1> QED
    BY <1>1, <1>2

\* The path of a section and that of the level it is in.
LEMMA PathsAre ==
    ASSUME NEW a, NEW b
    PROVE  /\ Len(<<a>>) = 1 /\ Len(<<a, b>>) = 2
           /\ Front(<<a, b>>) = <<a>> /\ Front(<<a>>) = << >>
           /\ SubSeq(<<a, b>>, 1, 1) = <<a>> /\ SubSeq(<<a>>, 1, 1) = <<a>>
<1> DEFINE T == {a, b}
           s == <<a, b>>
           r == <<a>>
<1>1. s \in Seq(T) /\ Len(s) = 2 /\ s[1] = a
    OBVIOUS
<1>2. r \in Seq(T) /\ Len(r) = 1 /\ r[1] = a
    OBVIOUS
<1>3. Front(r) = << >>
    BY DEF Front
<1> HIDE DEF T, s, r
<1>4. ASSUME NEW q \in Seq(T), Len(q) # 0, q[1] = a PROVE SubSeq(q, 1, 1) = r
    <2> DEFINE p == SubSeq(q, 1, 1)
    <2>1. Len(q) \in Nat /\ 1 \in 1..Len(q)
        BY <1>4
    <2>2. p \in Seq(T) /\ Len(p) = 1 /\ p[1] = a
        <3>1. 1 - 1 + 1 = 1 /\ 1 \in 1 - 1..Len(q) /\ 1 + 1 - 1 = 1
            BY <2>1
        <3>2. /\ p \in Seq(T)
              /\ Len(p) = 1 - 1 + 1
              /\ \A i \in 1..1 - 1 + 1 : p[i] = q[1 + i - 1]
            BY <2>1, <3>1, SubSeqProperties
        <3> QED
            BY <1>4, <3>1, <3>2
    <2> HIDE DEF p
    <2>3. Len(p) = Len(r) /\ \A i \in 1..Len(p) : p[i] = r[i]
        BY <1>2, <2>2
    <2>4. p = r
        BY <1>2, <2>2, <2>3, SeqEqual
    <2> QED
        BY <2>4 DEF p
<1>5. SubSeq(s, 1, 1) = r /\ SubSeq(r, 1, 1) = r
    BY <1>1, <1>2, <1>4
<1>6. Front(s) = r
    <2>1. Len(s) - 1 = 1
        BY <1>1
    <2> QED
        BY <1>5, <2>1 DEF Front
<1> QED
    BY <1>1, <1>2, <1>3, <1>5, <1>6 DEF s, r

-----------------------------------------------------------------------------
(***************************************************************************)
(* What is drawn of the tree when parts of it are folded                   *)
(***************************************************************************)

\* A row is emitted if all headers above it are open.
Emitted(row, open, searching) ==
    \A n \in 1..Len(ParentPath(row)) : IsOpen(SubSeq(ParentPath(row), 1, n), open, searching)
\* Where the rows that are drawn are in the rows of the whole tree.
EmittedAt(rows, open, searching) == {i \in DOMAIN rows : Emitted(rows[i], open, searching)}

\* The rows drawn are those of the whole tree at these positions.
LEMMA EmitIs ==
    ASSUME NEW rows, NEW open, NEW searching
    PROVE  EmitInventoryRows(rows, open, searching) = Subsequence(rows, EmittedAt(rows, open, searching))
BY DEF EmitInventoryRows, Filtered, EmittedAt, Emitted

\* What is above a row: of a level nothing, of a section its level, of an item its section.
LevelOf(x) == <<x[1], 0, 0>>
\* The header of the section a row is in.
SectionHeadOf(x) == <<x[1], x[2], 0>>

\* The headers above a row are rows.
LEMMA AboveIs ==
    ASSUME NEW tree, NEW shown, TreeFits(tree, shown), NEW x \in Places(tree)
    PROVE  /\ x[1] \in 1..Len(tree) /\ x[2] \in Nat /\ x[3] \in Nat
           /\ LevelOf(x) \in Places(tree) /\ SectionHeadOf(x) \in Places(tree)
           /\ x[2] # 0 => x[2] \in 1..Len(Sects(tree, x[1]))
           /\ x[2] = 0 => x[3] = 0
           /\ x[3] # 0 => x[3] \in 1..Len(Sects(tree, x[1])[x[2]].entries)
<1>1. /\ x \in (1..Len(tree)) \X Nat \X Nat
      /\ x[2] <= Len(Sects(tree, x[1]))
      /\ x[3] <= IF x[2] = 0 THEN 0 ELSE Len(Sects(tree, x[1])[x[2]].entries)
    BY DEF Places
<1>2. x[1] \in 1..Len(tree) /\ x[2] \in Nat /\ x[3] \in Nat
    BY <1>1
<1>3. SectionsFit(Sects(tree, x[1]), shown, tree[x[1]].path[1])
    <2>1. PICK top \in Words : tree[x[1]].path = <<top>> /\ SectionsFit(tree[x[1]].sections, shown, top)
        BY <1>2 DEF TreeFits
    <2>2. tree[x[1]].path[1] = top
        BY <2>1
    <2> QED
        BY <2>1, <2>2 DEF Sects
<1>4. Len(Sects(tree, x[1])) \in Nat
    BY <1>3 DEF SectionsFit
<1>5. x[2] # 0 => x[2] \in 1..Len(Sects(tree, x[1]))
    BY <1>1, <1>2, <1>4
<1>6. x[2] # 0 => Len(Sects(tree, x[1])[x[2]].entries) \in Nat
    <2> SUFFICES ASSUME x[2] # 0 PROVE Len(Sects(tree, x[1])[x[2]].entries) \in Nat
        OBVIOUS
    <2>1. PICK label \in Words : Lists(Sects(tree, x[1])[x[2]].entries, Raw(shown, tree[x[1]].path[1], label), label \in CountSections)
        BY <1>3, <1>5 DEF SectionsFit
    <2> QED
        BY <2>1 DEF Lists
<1>7. x[2] = 0 => x[3] = 0
    BY <1>1, <1>2
<1>8. x[3] # 0 => x[3] \in 1..Len(Sects(tree, x[1])[x[2]].entries)
    BY <1>1, <1>2, <1>6, <1>7
<1>9. LevelOf(x) \in Places(tree)
    BY <1>2, <1>4 DEF Places, LevelOf
<1>10. SectionHeadOf(x) \in Places(tree)
    <2>1. SectionHeadOf(x) \in (1..Len(tree)) \X Nat \X Nat /\ x[2] <= Len(Sects(tree, x[1]))
        BY <1>1, <1>2 DEF SectionHeadOf
    <2>2. 0 <= IF x[2] = 0 THEN 0 ELSE Len(Sects(tree, x[1])[x[2]].entries)
        BY <1>6
    <2> QED
        BY <2>1, <2>2 DEF Places, SectionHeadOf
<1> QED
    BY <1>2, <1>5, <1>7, <1>8, <1>9, <1>10

\* The paths of the rows in the tree.
LEMMA RowPathIs ==
    ASSUME NEW tree, NEW shown, TreeFits(tree, shown), NEW x \in Places(tree)
    PROVE  \E a, b \in Words :
              /\ RowAt(tree, LevelOf(x)) = HeaderRow(<<a>>)
              /\ x[2] # 0 => RowAt(tree, SectionHeadOf(x)) = HeaderRow(<<a, b>>)
              /\ x[2] = 0 => RowAt(tree, x) = HeaderRow(<<a>>)
              /\ x[2] # 0 /\ x[3] = 0 => RowAt(tree, x) = HeaderRow(<<a, b>>)
              /\ x[3] # 0 => /\ x[2] # 0
                             /\ RowAt(tree, x) = ItemRow(<<a, b>>, Sects(tree, x[1])[x[2]].entries[x[3]])
<1>1. /\ x[1] \in 1..Len(tree) /\ x[2] \in Nat /\ x[3] \in Nat
      /\ x[2] # 0 => x[2] \in 1..Len(Sects(tree, x[1]))
      /\ x[2] = 0 => x[3] = 0
    BY AboveIs
<1>2. PICK a \in Words : tree[x[1]].path = <<a>> /\ SectionsFit(tree[x[1]].sections, shown, a)
    BY <1>1 DEF TreeFits
<1>3. RowAt(tree, LevelOf(x)) = HeaderRow(<<a>>)
    BY <1>2 DEF RowAt, LevelOf
<1>4. CASE x[2] = 0
    <2>1. RowAt(tree, x) = HeaderRow(<<a>>)
        BY <1>2, <1>4 DEF RowAt
    <2> QED
        BY <1>1, <1>3, <1>4, <2>1
<1>5. CASE x[2] # 0
    <2>1. PICK b \in Words : Sects(tree, x[1])[x[2]].path = <<a, b>>
        BY <1>1, <1>2, <1>5 DEF SectionsFit, Sects
    <2>2. RowAt(tree, SectionHeadOf(x)) = HeaderRow(<<a, b>>)
        BY <1>5, <2>1 DEF RowAt, SectionHeadOf
    <2>3. x[3] = 0 => RowAt(tree, x) = HeaderRow(<<a, b>>)
        BY <1>5, <2>1 DEF RowAt
    <2>4. x[3] # 0 => RowAt(tree, x) = ItemRow(<<a, b>>, Sects(tree, x[1])[x[2]].entries[x[3]])
        BY <1>5, <2>1 DEF RowAt
    <2> QED
        BY <1>3, <1>5, <2>1, <2>2, <2>3, <2>4
<1> QED
    BY <1>4, <1>5

\* Rows and their parents, as emitInventoryRows looks at them.
LEMMA ParentsAre ==
    ASSUME NEW a, NEW b, NEW e, NEW open, NEW searching
    PROVE  /\ ParentPath(HeaderRow(<<a>>)) = << >> /\ ParentPath(HeaderRow(<<a, b>>)) = <<a>>
           /\ ParentPath(ItemRow(<<a, b>>, e)) = <<a, b>>
           /\ Emitted(HeaderRow(<<a>>), open, searching)
           /\ Emitted(HeaderRow(<<a, b>>), open, searching) <=> IsOpen(<<a>>, open, searching)
           /\ Emitted(ItemRow(<<a, b>>, e), open, searching) => IsOpen(<<a>>, open, searching)
           /\ IsOpen(<<a>>, open, searching) /\ IsOpen(<<a, b>>, open, searching)
                 => Emitted(ItemRow(<<a, b>>, e), open, searching)
<1>1. /\ Len(<<a>>) = 1 /\ Len(<<a, b>>) = 2
      /\ Front(<<a, b>>) = <<a>> /\ Front(<<a>>) = << >>
      /\ SubSeq(<<a, b>>, 1, 1) = <<a>> /\ SubSeq(<<a>>, 1, 1) = <<a>>
    BY PathsAre
<1>2. ParentPath(HeaderRow(<<a>>)) = << >> /\ ParentPath(HeaderRow(<<a, b>>)) = <<a>>
    BY <1>1 DEF ParentPath, HeaderRow
<1>3. ParentPath(ItemRow(<<a, b>>, e)) = <<a, b>>
    BY DEF ParentPath, ItemRow
<1>4. Emitted(HeaderRow(<<a>>), open, searching)
    <2>1. Len(<< >>) = 0
        OBVIOUS
    <2> QED
        BY <1>2, <2>1 DEF Emitted
<1>5. Emitted(HeaderRow(<<a, b>>), open, searching) <=> IsOpen(<<a>>, open, searching)
    <2>1. \A n \in 1..1 : n = 1
        OBVIOUS
    <2>2. Emitted(HeaderRow(<<a, b>>), open, searching)
             <=> \A n \in 1..1 : IsOpen(SubSeq(<<a>>, 1, n), open, searching)
        BY <1>1, <1>2 DEF Emitted
    <2>3. 1 \in 1..1
        OBVIOUS
    <2> QED
        BY <1>1, <2>1, <2>2, <2>3
<1>6. SubSeq(<<a, b>>, 1, 2) = <<a, b>>
    <2>1. \A T : \A s \in Seq(T) : Len(s) = 2 => SubSeq(s, 1, 2) = s
        <3> SUFFICES ASSUME NEW T, NEW s \in Seq(T), Len(s) = 2 PROVE SubSeq(s, 1, 2) = s
            OBVIOUS
        <3> DEFINE r == SubSeq(s, 1, 2)
        <3>1. /\ r \in Seq(T) /\ Len(r) = 2
              /\ \A i \in 1..2 : r[i] = s[i]
            <4>1. \A i \in 1..2 : s[i] \in T
                OBVIOUS
            <4>2. /\ r \in Seq(T) /\ Len(r) = IF 1 <= 2 THEN 2 - 1 + 1 ELSE 0
                  /\ \A i \in 1..2 - 1 + 1 : r[i] = s[1 + i - 1]
                BY <4>1, SubSeqProperties
            <4>3. \A i \in 1..2 : 1 + i - 1 = i
                OBVIOUS
            <4> QED
                BY <4>2, <4>3
        <3> HIDE DEF r
        <3>2. r = s
            BY <3>1, SeqEqual
        <3> QED
            BY <3>2 DEF r
    <2>2. <<a, b>> \in Seq({a, b})
        OBVIOUS
    <2> QED
        BY <1>1, <2>1, <2>2
<1>7. Emitted(ItemRow(<<a, b>>, e), open, searching)
         <=> \A n \in 1..2 : IsOpen(SubSeq(<<a, b>>, 1, n), open, searching)
    BY <1>1, <1>3 DEF Emitted
<1>8. \A n \in 1..2 : n = 1 \/ n = 2
    OBVIOUS
<1>9. 1 \in 1..2 /\ 2 \in 1..2
    OBVIOUS
<1>10. Emitted(ItemRow(<<a, b>>, e), open, searching) => IsOpen(<<a>>, open, searching)
    BY <1>1, <1>7, <1>9
<1>11. IsOpen(<<a>>, open, searching) /\ IsOpen(<<a, b>>, open, searching)
          => Emitted(ItemRow(<<a, b>>, e), open, searching)
    BY <1>1, <1>6, <1>7, <1>8
<1> QED
    BY <1>2, <1>3, <1>4, <1>5, <1>10, <1>11

\* The header of each row that hangs under one is somewhere above it.
LEMMA ParentAbove ==
    ASSUME NEW tree, NEW shown, TreeFits(tree, shown), NEW open, NEW searching,
           NEW rows, rows = EmitInventoryRows(RowsOf(tree), open, searching),
           NEW p \in 1..Len(rows), ParentPath(rows[p]) # << >>
    PROVE  \E r \in 1..Len(rows) : r < p /\ rows[r] = HeaderRow(ParentPath(rows[p]))
<1> DEFINE all == RowsOf(tree)
           at == EmittedAt(all, open, searching)
<1>1. tree \in Seq(TopType(EntryType))
    BY DEF TreeFits
<1>2. all \in Seq(RowType(EntryType)) /\ \E H : Placed(all, tree, H)
    BY <1>1, RowsPlaced
<1>3. PICK H : Placed(all, tree, H)
    BY <1>2
<1>4. rows = Subsequence(all, at)
    BY EmitIs
<1>5. at \in SUBSET DOMAIN all /\ \A i \in DOMAIN all : i \in at <=> Emitted(all[i], open, searching)
    BY DEF EmittedAt
<1> HIDE DEF all, at
<1>6. /\ rows \in Seq(RowType(EntryType)) /\ Len(rows) \in Nat
      /\ \E o : /\ o \in [1..Len(rows) -> at]
                /\ \A k \in 1..Len(rows) : rows[k] = all[o[k]]
                /\ \A i \in at : \E k \in 1..Len(rows) : o[k] = i
                /\ \A k, l \in 1..Len(rows) : k < l <=> o[k] < o[l]
                /\ \A k, l \in 1..Len(rows) : o[k] = o[l] => k = l
    BY <1>2, <1>4, <1>5, FilteredIs
<1>7. PICK o : /\ o \in [1..Len(rows) -> at]
               /\ \A k \in 1..Len(rows) : rows[k] = all[o[k]]
               /\ \A i \in at : \E k \in 1..Len(rows) : o[k] = i
               /\ \A k, l \in 1..Len(rows) : k < l <=> o[k] < o[l]
    BY <1>6
<1>8. /\ H \in [Places(tree) -> 1..Len(all)]
      /\ \A i \in 1..Len(all) : \E x \in Places(tree) : H[x] = i
      /\ \A x \in Places(tree) : all[H[x]] = RowAt(tree, x)
      /\ \A x, y \in Places(tree) : x[1] = y[1] /\ x[2] = 0 /\ y[2] # 0 => H[x] < H[y]
      /\ \A x, y \in Places(tree) : x[1] = y[1] /\ x[2] = y[2] /\ x[3] = 0 /\ y[3] # 0 => H[x] < H[y]
    BY <1>3 DEF Placed
<1>9. o[p] \in 1..Len(all) /\ rows[p] = all[o[p]] /\ Emitted(rows[p], open, searching)
    <2>1. o[p] \in at /\ rows[p] = all[o[p]]
        BY <1>7
    <2>2. DOMAIN all = 1..Len(all)
        BY <1>2
    <2> QED
        BY <1>5, <2>1, <2>2
<1>10. PICK x \in Places(tree) : H[x] = o[p]
    BY <1>8, <1>9
<1>11. rows[p] = RowAt(tree, x)
    BY <1>8, <1>9, <1>10
<1>12. /\ LevelOf(x) \in Places(tree) /\ SectionHeadOf(x) \in Places(tree)
       /\ x[2] \in Nat /\ x[3] \in Nat
    BY AboveIs
<1>13. PICK a, b \in Words :
              /\ RowAt(tree, LevelOf(x)) = HeaderRow(<<a>>)
              /\ x[2] # 0 => RowAt(tree, SectionHeadOf(x)) = HeaderRow(<<a, b>>)
              /\ x[2] = 0 => RowAt(tree, x) = HeaderRow(<<a>>)
              /\ x[2] # 0 /\ x[3] = 0 => RowAt(tree, x) = HeaderRow(<<a, b>>)
              /\ x[3] # 0 => /\ x[2] # 0
                             /\ RowAt(tree, x) = ItemRow(<<a, b>>, Sects(tree, x[1])[x[2]].entries[x[3]])
    BY RowPathIs
<1>14. ASSUME NEW y \in Places(tree), H[y] < H[x], Emitted(RowAt(tree, y), open, searching)
       PROVE  \E r \in 1..Len(rows) : r < p /\ rows[r] = RowAt(tree, y)
    <2>1. H[y] \in 1..Len(all) /\ all[H[y]] = RowAt(tree, y)
        BY <1>8
    <2>2. H[y] \in at
        <3>1. DOMAIN all = 1..Len(all)
            BY <1>2
        <3> QED
            BY <1>5, <1>14, <2>1, <3>1
    <2>3. PICK r \in 1..Len(rows) : o[r] = H[y]
        BY <1>7, <2>2
    <2>4. r < p
        BY <1>7, <1>10, <1>14, <2>3
    <2> QED
        BY <1>7, <2>1, <2>3, <2>4
<1>15. CASE x[2] = 0
    BY <1>11, <1>13, <1>15, ParentsAre
<1>16. CASE x[2] # 0 /\ x[3] = 0
    <2>1. rows[p] = HeaderRow(<<a, b>>)
        BY <1>11, <1>13, <1>16
    <2>2. ParentPath(rows[p]) = <<a>>
        BY <2>1, ParentsAre
    <2>3. H[LevelOf(x)] < H[x]
        BY <1>8, <1>12, <1>16 DEF LevelOf
    <2>4. Emitted(RowAt(tree, LevelOf(x)), open, searching)
        BY <1>13, ParentsAre
    <2> QED
        BY <1>12, <1>13, <1>14, <2>2, <2>3, <2>4
<1>17. CASE x[2] # 0 /\ x[3] # 0
    <2> DEFINE e == Sects(tree, x[1])[x[2]].entries[x[3]]
    <2>1. rows[p] = ItemRow(<<a, b>>, e)
        BY <1>11, <1>13, <1>17
    <2> HIDE DEF e
    <2>2. ParentPath(rows[p]) = <<a, b>> /\ IsOpen(<<a>>, open, searching)
        BY <1>9, <2>1, ParentsAre
    <2>3. H[SectionHeadOf(x)] < H[x]
        BY <1>8, <1>12, <1>17 DEF SectionHeadOf
    <2>4. RowAt(tree, SectionHeadOf(x)) = HeaderRow(<<a, b>>)
        BY <1>13, <1>17
    <2>5. Emitted(RowAt(tree, SectionHeadOf(x)), open, searching)
        BY <2>2, <2>4, ParentsAre
    <2> QED
        BY <1>12, <1>14, <2>2, <2>3, <2>4, <2>5
<1> QED
    BY <1>12, <1>15, <1>16, <1>17

\* What a filter leaves of an inventory is one.
LEMMA FilterKeeps ==
    ASSUME NEW shown, IsInventory(shown), NEW part, part \subseteq shown
    PROVE  IsInventory(part)
BY FS_Subset DEF IsInventory

\* The tree on the screen is one of what the mask and the query leave.
LEMMA TreeIs ==
    ASSUME IsInventory(items)
    PROVE  /\ IsInventory(FilterInventory(items, mask, query))
           /\ TreeFits(Tree, FilterInventory(items, mask, query))
<1> DEFINE part == FilterInventory(items, mask, query)
<1>1. part \subseteq items
    BY DEF FilterInventory
<1> HIDE DEF part
<1>2. IsInventory(part)
    BY <1>1, FilterKeeps
<1>3. TreeFits(BuildInventoryTree(part, query), part)
    BY <1>2, TreeDoesFit
<1> QED
    BY <1>2, <1>3 DEF Tree, part

\* The rows on the screen are headers and items.
LEMMA InventoryRowsAre ==
    ASSUME IsInventory(items)
    PROVE  InventoryRows \in Seq(RowType(EntryType)) /\ Len(InventoryRows) \in Nat
<1>1. Tree \in Seq(TopType(EntryType))
    BY TreeIs DEF TreeFits
<1> DEFINE all == RowsOf(Tree)
           at == EmittedAt(all, expanded, Searching)
<1>2. all \in Seq(RowType(EntryType))
    BY <1>1, RowsPlaced
<1>3. InventoryRows = Subsequence(all, at)
    BY EmitIs DEF InventoryRows, AllRows
<1>4. at \in SUBSET DOMAIN all
    BY DEF EmittedAt
<1> HIDE DEF all, at
<1> QED
    BY <1>2, <1>3, <1>4, FilteredIs

\* The nearest header above, if there is one.
LEMMA HeaderAboveIs ==
    ASSUME NEW rows, NEW cur \in Nat, NEW path, NEW r \in 1..cur, rows[r] = HeaderRow(path)
    PROVE  LET h == HeaderAbove(rows, cur, path)
           IN  h \in 1..cur /\ rows[h].kind = "header" /\ rows[h].path = path
<1> DEFINE S == {i \in 1..cur : rows[i].kind = "header" /\ rows[i].path = path}
<1>1. r \in S
    BY DEF HeaderRow
<1>2. HeaderAbove(rows, cur, path) = Max(S)
    BY <1>1 DEF HeaderAbove, SelectLastInSubSeq
<1>3. S \subseteq 1..cur /\ S \subseteq Int
    OBVIOUS
<1>4. IsFiniteSet(S)
    <2>1. IsFiniteSet(1..cur)
        BY FS_Interval
    <2> QED
        BY <1>3, <2>1, FS_Subset
<1>5. \A i \in S : i \in 1..cur /\ rows[i].kind = "header" /\ rows[i].path = path
    OBVIOUS
<1> HIDE DEF S
<1>6. Max(S) \in S
    BY <1>1, <1>3, <1>4, MaxIs
<1> QED
    BY <1>2, <1>5, <1>6

\* Left on a row that it does not close.
LEMMA LeftGoes ==
    ASSUME IsInventory(items), cursor \in Nat, Left, cursor' # cursor
    PROVE  /\ cursor' \in Nat /\ cursor' < cursor
           /\ InventoryRows[cursor' + 1].kind = "header"
           /\ InventoryRows[cursor' + 1].path = ParentPath(Highlighted(InventoryRows))
<1> DEFINE rows == InventoryRows
           n == Len(rows)
           cur == Clamp(cursor, n)
           row == rows[cur + 1]
           h == HeaderAbove(rows, cur, ParentPath(row))
<1>1. rows # << >> /\ ParentPath(row) # << >> /\ cursor' = h - 1
    BY DEF Left, Highlighted
<1>2. rows \in Seq(RowType(EntryType)) /\ n \in Nat
    BY InventoryRowsAre
<1>3. n # 0
    BY <1>1, <1>2, EmptySeq
<1>4. cur \in 0..n - 1 /\ cur \in Nat /\ cur <= cursor
    BY <1>2, <1>3, ClampIs
<1>5. TreeFits(Tree, FilterInventory(items, mask, query))
    BY TreeIs
<1>6. rows = EmitInventoryRows(RowsOf(Tree), expanded, Searching)
    BY DEF InventoryRows, AllRows
<1>7. Highlighted(rows) = row
    BY DEF Highlighted
<1> HIDE DEF rows, n, cur, h
<1> DEFINE p == cur + 1
<1>8. p \in 1..Len(rows) /\ ParentPath(rows[p]) # << >>
    BY <1>1, <1>2, <1>4 DEF n
<1> HIDE DEF p
<1>9. PICK r \in 1..Len(rows) : r < p /\ rows[r] = HeaderRow(ParentPath(rows[p]))
    BY <1>5, <1>6, <1>8, ParentAbove
<1> DEFINE path == ParentPath(row)
<1>10. rows[r] = HeaderRow(path) /\ r \in 1..cur
    BY <1>2, <1>4, <1>9 DEF p
<1>11. h = HeaderAbove(rows, cur, path)
    BY DEF h
<1> HIDE DEF path
<1>12. h \in 1..cur /\ rows[h].kind = "header" /\ rows[h].path = path
    BY <1>4, <1>10, <1>11, HeaderAboveIs
<1>13. (h - 1) + 1 = h /\ h - 1 \in Nat /\ h - 1 < cursor
    BY <1>4, <1>12
<1>14. cursor' + 1 = h
    BY <1>1, <1>13
<1> QED
    BY <1>1, <1>7, <1>12, <1>13, <1>14 DEF rows, path

\* Everything that can be expanded is open.
AllOpen(tree, open, searching) == searching \/ CollectExpandablePaths(tree) \subseteq open

\* While one searches, or with every header open, every row is drawn.
LEMMA AllEmitted ==
    ASSUME NEW tree, NEW shown, TreeFits(tree, shown), NEW open, NEW searching, AllOpen(tree, open, searching)
    PROVE  EmitInventoryRows(RowsOf(tree), open, searching) = RowsOf(tree)
<1> DEFINE all == RowsOf(tree)
           at == EmittedAt(all, open, searching)
           n == Len(all)
<1>1. tree \in Seq(TopType(EntryType)) /\ DOMAIN tree = 1..Len(tree)
    BY DEF TreeFits
<1>2. all \in Seq(RowType(EntryType)) /\ \E H : Placed(all, tree, H)
    BY <1>1, RowsPlaced
<1>3. PICK H : Placed(all, tree, H)
    BY <1>2
<1>4. EmitInventoryRows(all, open, searching) = Subsequence(all, at)
    BY EmitIs
<1>5. \A i \in DOMAIN all : i \in at <=> Emitted(all[i], open, searching)
    BY DEF EmittedAt
<1>6. at \in SUBSET DOMAIN all
    BY DEF EmittedAt
<1> HIDE DEF all, at
<1>7. DOMAIN all = 1..n /\ n \in Nat
    BY <1>2
<1>8. ASSUME NEW x \in Places(tree) PROVE Emitted(RowAt(tree, x), open, searching)
    <2>1. /\ x[1] \in 1..Len(tree) /\ x[2] \in Nat /\ x[3] \in Nat
          /\ x[2] # 0 => x[2] \in 1..Len(Sects(tree, x[1]))
          /\ x[2] = 0 => x[3] = 0
        BY AboveIs
    <2>2. PICK a, b \in Words :
              /\ RowAt(tree, LevelOf(x)) = HeaderRow(<<a>>)
              /\ x[2] # 0 => RowAt(tree, SectionHeadOf(x)) = HeaderRow(<<a, b>>)
              /\ x[2] = 0 => RowAt(tree, x) = HeaderRow(<<a>>)
              /\ x[2] # 0 /\ x[3] = 0 => RowAt(tree, x) = HeaderRow(<<a, b>>)
              /\ x[3] # 0 => /\ x[2] # 0
                             /\ RowAt(tree, x) = ItemRow(<<a, b>>, Sects(tree, x[1])[x[2]].entries[x[3]])
        BY RowPathIs
    <2>3. tree[x[1]].path = <<a>>
        <3>1. HeaderRow(tree[x[1]].path) = HeaderRow(<<a>>)
            BY <2>2 DEF RowAt, LevelOf
        <3> QED
            BY <3>1 DEF HeaderRow
    <2>4. tree[x[1]].path \in CollectExpandablePaths(tree)
        BY <1>1, <2>1 DEF CollectExpandablePaths
    <2>5. IsOpen(<<a>>, open, searching)
        BY <2>3, <2>4 DEF IsOpen, AllOpen
    <2>6. CASE x[2] = 0
        BY <2>2, <2>6, ParentsAre
    <2>7. CASE x[2] # 0
        <3> DEFINE sec == Sects(tree, x[1])[x[2]]
        <3>1. sec.path = <<a, b>>
            <4>1. HeaderRow(sec.path) = HeaderRow(<<a, b>>)
                BY <2>2, <2>7 DEF RowAt, SectionHeadOf
            <4> QED
                BY <4>1 DEF HeaderRow
        <3>2. DOMAIN tree[x[1]].sections = 1..Len(tree[x[1]].sections)
            BY <2>1 DEF TreeFits, SectionsFit
        <3>3. sec \in ToSet(tree[x[1]].sections)
            BY <2>1, <2>7, <3>2 DEF ToSet, Sects
        <3>4. sec.path \in {s.path : s \in ToSet(tree[x[1]].sections)}
            BY <3>3
        <3>5. sec.path \in CollectExpandablePaths(tree)
            BY <1>1, <2>1, <3>4 DEF CollectExpandablePaths
        <3>6. IsOpen(<<a, b>>, open, searching)
            BY <3>1, <3>5 DEF IsOpen, AllOpen
        <3> QED
            BY <2>1, <2>2, <2>5, <2>7, <3>6, ParentsAre
    <2> QED
        BY <2>6, <2>7
<1>9. at = 1..n
    <2>1. \A i \in 1..n : i \in at
        <3> TAKE i \in 1..n
        <3>1. PICK x \in Places(tree) : H[x] = i
            BY <1>3 DEF Placed
        <3>2. all[i] = RowAt(tree, x)
            BY <1>3, <3>1 DEF Placed
        <3> QED
            BY <1>5, <1>7, <1>8, <3>2
    <2> QED
        BY <1>6, <1>7, <2>1
<1> DEFINE q == Subsequence(all, 1..n)
<1>10. n <= Len(all)
    BY <1>7
<1>11. q \in Seq(RowType(EntryType)) /\ Len(q) = n /\ \A k \in 1..n : q[k] = all[k]
    <2> HIDE DEF n
    <2>1. /\ Subsequence(all, 1..n) \in Seq(RowType(EntryType)) /\ Len(Subsequence(all, 1..n)) = n
          /\ \A k \in 1..n : Subsequence(all, 1..n)[k] = all[k]
        BY <1>2, <1>7, <1>10, SubsequencePrefix
    <2> QED
        BY <2>1
<1> HIDE DEF q
<1>12. q = all
    BY <1>2, <1>11, SeqEqual
<1> QED
    BY <1>4, <1>9, <1>12 DEF q, all

\* An entry for an item: it lies under the level and the section of that item.
EntryAt(tree, x) == Sects(tree, x[1])[x[2]].entries[x[3]]
\* An item comes once among entries; the place of an item.
OnceIn(e, it) == \A k, l \in 1..Len(e) : e[k] = Owned(it) /\ e[l] = Owned(it) => k = l
HasEntry(tree, x, it) == x \in Places(tree) /\ x[3] # 0 /\ EntryAt(tree, x) = Owned(it)

\* The entry of an item is in the level and the section the item belongs to.
LEMMA EntryBelongs ==
    ASSUME NEW tree, NEW shown, TreeFits(tree, shown), IsInventory(shown),
           NEW it \in shown, NEW x, HasEntry(tree, x, it)
    PROVE  /\ x[1] \in 1..Len(tree) /\ x[2] # 0 /\ x[2] \in 1..Len(Sects(tree, x[1]))
           /\ x[3] \in 1..Len(Sects(tree, x[1])[x[2]].entries)
           /\ tree[x[1]].path = <<TopLevelOf(it)>>
           /\ Sects(tree, x[1])[x[2]].path = <<TopLevelOf(it), SubLevelOf(it)>>
           /\ SubLevelOf(it) \in CountSections => EffectiveStackCount(it) > 0
           /\ OnceIn(Sects(tree, x[1])[x[2]].entries, it)
<1> DEFINE sec == Sects(tree, x[1])[x[2]]
           e == sec.entries
<1>1. x \in Places(tree) /\ x[3] # 0 /\ e[x[3]] = Owned(it)
    BY DEF HasEntry, EntryAt
<1>2. /\ x[1] \in 1..Len(tree) /\ x[2] \in 1..Len(Sects(tree, x[1])) /\ x[2] # 0
      /\ x[3] \in 1..Len(e)
    BY <1>1, AboveIs
<1>3. PICK a \in Words : tree[x[1]].path = <<a>> /\ SectionsFit(tree[x[1]].sections, shown, a)
    BY <1>2 DEF TreeFits
<1>4. PICK b \in Words : sec.path = <<a, b>> /\ Lists(e, Raw(shown, a, b), b \in CountSections)
    BY <1>2, <1>3 DEF SectionsFit, Sects
<1> HIDE DEF sec, e
<1>5. Owned(it).owned /\ \A z : Owned(z) = Owned(it) => z.id = it.id
    BY DEF Owned
<1>6. PICK z \in Raw(shown, a, b) : Owned(it) = Owned(z) /\ (b \in CountSections => EffectiveStackCount(z) > 0)
    BY <1>1, <1>2, <1>4, <1>5 DEF Lists
<1>7. z \in shown /\ TopLevelOf(z) = a /\ SubLevelOf(z) = b
    BY DEF Raw
<1>8. z = it
    <2>1. z.id = it.id
        BY <1>5, <1>6
    <2> QED
        BY <1>7, <2>1 DEF IsInventory
<1>9. OnceIn(e, it)
    BY <1>4, <1>5 DEF Lists, OnceIn
<1> QED
    BY <1>2, <1>3, <1>4, <1>6, <1>7, <1>8, <1>9 DEF sec, e

\* An item has an entry unless it is an empty slot.
Slotless(it) == SubLevelOf(it) \in CountSections => EffectiveStackCount(it) > 0

\* Every item but an empty slot of the material tab has an entry ...
LEMMA ItemHasEntry ==
    ASSUME NEW tree, NEW shown, TreeFits(tree, shown), IsInventory(shown), NEW it \in shown, Slotless(it)
    PROVE  \E x : HasEntry(tree, x, it)
<1>1. PICK t \in 1..Len(tree) : tree[t].path = <<TopLevelOf(it)>>
    BY DEF TreeFits
<1>2. PICK a \in Words : tree[t].path = <<a>> /\ SectionsFit(tree[t].sections, shown, a)
    BY <1>1 DEF TreeFits
<1>3. a = TopLevelOf(it)
    BY <1>1, <1>2
<1>4. PICK s \in 1..Len(tree[t].sections) : tree[t].sections[s].path = <<a, SubLevelOf(it)>>
    BY <1>2, <1>3 DEF SectionsFit
<1> DEFINE e == tree[t].sections[s].entries
<1>5. PICK b \in Words : /\ tree[t].sections[s].path = <<a, b>>
                         /\ Lists(e, Raw(shown, a, b), b \in CountSections)
    BY <1>2, <1>4 DEF SectionsFit
<1>6. b = SubLevelOf(it)
    BY <1>4, <1>5
<1>7. it \in Raw(shown, a, b)
    BY <1>3, <1>6 DEF Raw
<1> HIDE DEF e
<1>8. PICK k \in 1..Len(e) : e[k] = Owned(it)
    BY <1>5, <1>6, <1>7 DEF Lists, Slotless
<1> DEFINE x == <<t, s, k>>
<1>9. Len(e) \in Nat /\ Len(tree[t].sections) \in Nat /\ Len(tree) \in Nat
    BY <1>2, <1>5 DEF Lists, SectionsFit, TreeFits
<1>10. s \in Nat /\ s # 0 /\ k \in Nat /\ k # 0 /\ s <= Len(tree[t].sections) /\ k <= Len(e)
    BY <1>8, <1>9
<1>11. x \in Places(tree)
    BY <1>9, <1>10 DEF Places, Sects, e
<1>12. EntryAt(tree, x) = Owned(it)
    BY <1>8 DEF EntryAt, Sects, e
<1>13. HasEntry(tree, x, it)
    BY <1>10, <1>11, <1>12 DEF HasEntry
<1> QED
    BY <1>13

\* ... and no more than one.
LEMMA OneEntry ==
    ASSUME NEW tree, NEW shown, TreeFits(tree, shown), IsInventory(shown), NEW it \in shown,
           NEW x, HasEntry(tree, x, it), NEW y, HasEntry(tree, y, it)
    PROVE  x = y
<1>1. /\ x[1] \in 1..Len(tree) /\ x[2] \in 1..Len(Sects(tree, x[1]))
      /\ x[3] \in 1..Len(Sects(tree, x[1])[x[2]].entries)
      /\ tree[x[1]].path = <<TopLevelOf(it)>>
      /\ Sects(tree, x[1])[x[2]].path = <<TopLevelOf(it), SubLevelOf(it)>>
      /\ OnceIn(Sects(tree, x[1])[x[2]].entries, it)
    BY EntryBelongs
<1>2. /\ y[1] \in 1..Len(tree) /\ y[2] \in 1..Len(Sects(tree, y[1]))
      /\ y[3] \in 1..Len(Sects(tree, y[1])[y[2]].entries)
      /\ tree[y[1]].path = <<TopLevelOf(it)>>
      /\ Sects(tree, y[1])[y[2]].path = <<TopLevelOf(it), SubLevelOf(it)>>
    BY EntryBelongs
<1>3. x[1] = y[1]
    BY <1>1, <1>2 DEF TreeFits
<1>4. x[2] = y[2]
    <2>1. PICK a \in Words : SectionsFit(tree[x[1]].sections, shown, a)
        BY <1>1 DEF TreeFits
    <2> QED
        BY <1>1, <1>2, <1>3, <2>1 DEF SectionsFit, Sects
<1>5. x[3] = y[3]
    BY <1>1, <1>2, <1>3, <1>4 DEF HasEntry, EntryAt, OnceIn
<1>6. x \in (1..Len(tree)) \X Nat \X Nat /\ y \in (1..Len(tree)) \X Nat \X Nat
    BY DEF HasEntry, Places
<1> QED
    BY <1>3, <1>4, <1>5, <1>6

\* Inventory: every item has one row, in the right place.
LEMMA ItemsListed ==
    ASSUME IsInventory(items)
    PROVE  AllItemsListed
<1> DEFINE part == FilterInventory(items, mask, query)
           open == expanded \cup CollectExpandablePaths(Tree)
           shown == IF Searching THEN InventoryRows ELSE EmitInventoryRows(AllRows, open, Searching)
           At(it) == {i \in DOMAIN shown : shown[i].kind = "item" /\ shown[i].entry = Owned(it)}
<1>1. IsInventory(part) /\ TreeFits(Tree, part)
    BY TreeIs
<1>2. shown = RowsOf(Tree)
    <2>1. CASE Searching
        <3>1. AllOpen(Tree, expanded, Searching)
            BY <2>1 DEF AllOpen
        <3> QED
            BY <1>1, <2>1, <3>1, AllEmitted DEF InventoryRows, AllRows
    <2>2. CASE ~ Searching
        <3>1. AllOpen(Tree, open, Searching)
            BY DEF AllOpen
        <3> HIDE DEF open
        <3> QED
            BY <1>1, <2>2, <3>1, AllEmitted DEF AllRows
    <2> QED
        BY <2>1, <2>2
<1> HIDE DEF part, open, shown
<1>3. shown \in Seq(RowType(EntryType)) /\ \E H : Placed(shown, Tree, H)
    BY <1>1, <1>2, RowsPlaced DEF TreeFits
<1>4. PICK H : Placed(shown, Tree, H)
    BY <1>3
<1>5. /\ H \in [Places(Tree) -> 1..Len(shown)] /\ DOMAIN shown = 1..Len(shown)
      /\ \A x, y \in Places(Tree) : H[x] = H[y] => x = y
      /\ \A i \in 1..Len(shown) : \E x \in Places(Tree) : H[x] = i
      /\ \A x \in Places(Tree) : shown[H[x]] = RowAt(Tree, x)
    BY <1>3, <1>4 DEF Placed
<1>6. ASSUME NEW it \in part, NEW x \in Places(Tree)
      PROVE  RowAt(Tree, x).kind = "item" /\ RowAt(Tree, x).entry = Owned(it) <=> HasEntry(Tree, x, it)
    <2>1. CASE x[3] = 0
        <3>1. RowAt(Tree, x).kind = "header"
            BY <2>1 DEF RowAt, HeaderRow
        <3> QED
            BY <2>1, <3>1 DEF HasEntry
    <2>2. CASE x[3] # 0
        <3>1. x[2] # 0
            BY <1>1, <2>2, AboveIs
        <3>2. RowAt(Tree, x).kind = "item" /\ RowAt(Tree, x).entry = EntryAt(Tree, x)
            BY <2>2, <3>1 DEF RowAt, ItemRow, EntryAt
        <3> QED
            BY <2>2, <3>2 DEF HasEntry
    <2> QED
        BY <2>1, <2>2
<1>7. ASSUME NEW it \in part
      PROVE  At(it) = {H[x] : x \in {y \in Places(Tree) : HasEntry(Tree, y, it)}}
    BY <1>5, <1>6
<1>8. ASSUME NEW it \in part
      PROVE  IF EffectiveStackCount(it) = 0 /\ SubLevelOf(it) \in CountSections
             THEN At(it) = {}
             ELSE /\ Cardinality(At(it)) = 1
                  /\ \A i \in At(it) : shown[i].path = <<TopLevelOf(it), SubLevelOf(it)>>
    <2>1. CASE EffectiveStackCount(it) = 0 /\ SubLevelOf(it) \in CountSections
        <3>1. ASSUME NEW y, HasEntry(Tree, y, it) PROVE FALSE
            <4>1. EffectiveStackCount(it) > 0
                BY <1>1, <2>1, <3>1, EntryBelongs
            <4> QED
                BY <2>1, <4>1
        <3> QED
            BY <1>7, <2>1, <3>1
    <2>2. CASE ~ (EffectiveStackCount(it) = 0 /\ SubLevelOf(it) \in CountSections)
        <3>1. EffectiveStackCount(it) \in Nat
            <4>1. it.stacks \in Nat
                BY <1>1 DEF IsInventory
            <4> QED
                BY <4>1 DEF EffectiveStackCount
        <3>2. Slotless(it)
            BY <2>2, <3>1 DEF Slotless
        <3>3. PICK x : HasEntry(Tree, x, it)
            BY <1>1, <3>2, ItemHasEntry
        <3>4. x \in Places(Tree) /\ \A y : HasEntry(Tree, y, it) => y = x
            BY <1>1, <3>3, OneEntry DEF HasEntry
        <3>5. At(it) = {H[x]}
            BY <1>7, <3>3, <3>4
        <3>6. Cardinality({H[x]}) = 1
            BY FS_Singleton
        <3>7. Sects(Tree, x[1])[x[2]].path = <<TopLevelOf(it), SubLevelOf(it)>> /\ x[2] # 0 /\ x[3] # 0
            BY <1>1, <3>3, EntryBelongs DEF HasEntry
        <3>8. shown[H[x]].path = <<TopLevelOf(it), SubLevelOf(it)>>
            <4>1. RowAt(Tree, x) = ItemRow(Sects(Tree, x[1])[x[2]].path, EntryAt(Tree, x))
                BY <3>7 DEF RowAt, EntryAt
            <4>2. RowAt(Tree, x).path = Sects(Tree, x[1])[x[2]].path
                BY <4>1 DEF ItemRow
            <4>3. shown[H[x]] = RowAt(Tree, x)
                BY <1>5, <3>4
            <4> QED
                BY <3>7, <4>2, <4>3
        <3> QED
            BY <2>2, <3>5, <3>6, <3>8
    <2> QED
        BY <2>1, <2>2
<1> QED
    BY <1>8 DEF AllItemsListed, part, shown, open

-----------------------------------------------------------------------------
(***************************************************************************)
(* The invariant                                                           *)
(***************************************************************************)

\* Numbers from the first to some number: as many as the set has.
LEMMA FirstNumbers ==
    ASSUME NEW n \in Nat, NEW A \in SUBSET (1..n), \A j \in A : \A i \in 1..n : i < j => i \in A
    PROVE  /\ Cardinality(A) \in 0..n /\ A = 1..Cardinality(A)
<1>1. IsFiniteSet(1..n)
    BY FS_Interval
<1>2. IsFiniteSet(A)
    BY <1>1, FS_Subset
<1>3. CASE A = {}
    <2>1. Cardinality(A) = 0
        BY <1>3, FS_EmptySet
    <2> QED
        BY <1>3, <2>1
<1>4. CASE A # {}
    <2> DEFINE m == Max(A)
    <2>1. m \in A /\ \A x \in A : x <= m
        <3>1. A \subseteq Int
            OBVIOUS
        <3> QED
            BY <1>2, <1>4, <3>1, MaxIs
    <2> HIDE DEF m
    <2>2. m \in 1..n
        BY <2>1
    <2>3. A = 1..m
        <3>1. \A i \in 1..m : i \in A
            <4> TAKE i \in 1..m
            <4>1. i = m \/ (i < m /\ i \in 1..n)
                BY <2>2
            <4> QED
                BY <2>1, <4>1
        <3>2. \A i \in A : i \in 1..m
            BY <2>1, <2>2
        <3> QED
            BY <3>1, <3>2
    <2>4. Cardinality(1..m) = m
        <3>1. Cardinality(1..m) = IF 1 > m THEN 0 ELSE m - 1 + 1
            BY <2>2, FS_Interval
        <3> QED
            BY <2>2, <3>1
    <2> QED
        BY <2>2, <2>3, <2>4
<1> QED
    BY <1>3, <1>4

\* A row put into a history where its date belongs.
PutAt(h, at, row) == SubSeq(h, 1, at) \o <<row>> \o SubSeq(h, at + 1, Len(h))

\* g is h with a row put in behind the first rows.
HasPut(g, h, at, row) ==
    /\ Len(g) = Len(h) + 1
    /\ \A i \in 1..at : g[i] = h[i]
    /\ g[at + 1] = row
    /\ \A i \in at + 1..Len(h) : g[i + 1] = h[i]

\* PutAt does this.
LEMMA PutAtIs ==
    ASSUME NEW T, NEW h \in Seq(T), NEW row \in T, NEW at \in 0..Len(h)
    PROVE  PutAt(h, at, row) \in Seq(T) /\ HasPut(PutAt(h, at, row), h, at, row)
<1> DEFINE n == Len(h)
           a == SubSeq(h, 1, at)
           b == SubSeq(h, at + 1, n)
           c == a \o <<row>>
<1>1. n \in Nat /\ \A i \in 1..n : h[i] \in T
    BY ElementOfSeq
<1>2. a \in Seq(T) /\ Len(a) = at /\ \A i \in 1..at : a[i] = h[i]
    <2>1. \A i \in 1..at : h[i] \in T
        BY <1>1
    <2>2. /\ a \in Seq(T) /\ Len(a) = IF 1 <= at THEN at - 1 + 1 ELSE 0
          /\ \A i \in 1..at - 1 + 1 : a[i] = h[1 + i - 1]
        BY <2>1, SubSeqProperties
    <2>3. at \in Nat /\ \A i \in 1..at : i \in 1..at - 1 + 1 /\ 1 + i - 1 = i
        BY <1>1
    <2> HIDE DEF a
    <2> QED
        BY <2>2, <2>3
<1>3. b \in Seq(T) /\ Len(b) = n - at /\ \A i \in 1..n - at : b[i] = h[at + i]
    <2> DEFINE m == at + 1
    <2>1. \A i \in m..n : h[i] \in T
        BY <1>1
    <2>2. m \in Int /\ n \in Int /\ at \in Nat /\ at <= n
        BY <1>1
    <2> HIDE DEF m
    <2>3. b = SubSeq(h, m, n)
        BY DEF m
    <2> HIDE DEF b, n
    <2>4. /\ b \in Seq(T) /\ Len(b) = IF m <= n THEN n - m + 1 ELSE 0
          /\ \A i \in 1..n - m + 1 : b[i] = h[m + i - 1]
        BY <2>1, <2>2, <2>3, SubSeqProperties
    <2>5. \A i \in 1..n - at : i \in 1..n - m + 1 /\ m + i - 1 = at + i
        BY <2>2 DEF m
    <2>6. Len(b) = n - at
        BY <2>2, <2>4 DEF m
    <2> QED
        BY <2>4, <2>5, <2>6
<1> HIDE DEF a, b
<1>4. c \in Seq(T) /\ Len(c) = at + 1 /\ (\A i \in 1..at : c[i] = h[i]) /\ c[at + 1] = row
    <2>1. <<row>> \in Seq(T) /\ Len(<<row>>) = 1 /\ <<row>>[1] = row /\ 1 \in 1..1
        OBVIOUS
    <2> DEFINE r == <<row>>
    <2> HIDE DEF r
    <2>2. /\ a \o r \in Seq(T) /\ Len(a) \in Nat /\ Len(r) \in Nat
          /\ Len(a \o r) = Len(a) + Len(r)
          /\ \A p \in 1..Len(a) : (a \o r)[p] = a[p]
          /\ \A k \in 1..Len(r) : (a \o r)[Len(a) + k] = r[k]
        <3>1. r \in Seq(T)
            BY <2>1 DEF r
        <3>2. a \in Seq(T)
            BY <1>2
        <3> QED
            BY <3>1, <3>2, Behind
    <2> QED
        BY <1>2, <2>1, <2>2 DEF r
<1> HIDE DEF c
<1> DEFINE g == c \o b
<1>5. /\ g \in Seq(T) /\ Len(c) \in Nat /\ Len(b) \in Nat
      /\ Len(g) = Len(c) + Len(b)
      /\ \A p \in 1..Len(c) : g[p] = c[p]
      /\ \A k \in 1..Len(b) : g[Len(c) + k] = b[k]
    <2>1. c \in Seq(T) /\ b \in Seq(T)
        BY <1>3, <1>4
    <2> QED
        BY <2>1, Behind
<1>6. PutAt(h, at, row) = g
    BY DEF PutAt, a, b, c
<1> HIDE DEF g
<1>7. Len(g) = n + 1
    BY <1>1, <1>3, <1>4, <1>5
<1>8. \A i \in 1..at : g[i] = h[i]
    BY <1>1, <1>4, <1>5
<1>9. g[at + 1] = row
    BY <1>1, <1>4, <1>5
<1>10. \A i \in at + 1..n : g[i + 1] = h[i]
    <2> TAKE i \in at + 1..n
    <2> DEFINE k == i - at
    <2>1. k \in 1..Len(b) /\ k \in 1..n - at /\ Len(c) + k = i + 1 /\ at + k = i
        BY <1>1, <1>3, <1>4
    <2> HIDE DEF k
    <2>2. g[Len(c) + k] = b[k]
        BY <1>5, <2>1
    <2>3. b[k] = h[at + k]
        BY <1>3, <2>1
    <2> QED
        BY <2>1, <2>2, <2>3
<1> QED
    BY <1>1, <1>5, <1>6, <1>7, <1>8, <1>9, <1>10 DEF n, HasPut

\* A backup that arrives leaves a history.
LEMMA ArrivalKeeps ==
    ASSUME NEW h, History(h), NEW row \in HistRow, MaxDate \in Nat,
           row.state = "SaveAndExit" => \A i \in DOMAIN h : h[i] # row,
           NEW at, at = Cardinality({i \in DOMAIN h : h[i].date >= row.date})
    PROVE  History(PutAt(h, at, row))
<1> DEFINE n == Len(h)
           A == {i \in DOMAIN h : h[i].date >= row.date}
           g == PutAt(h, at, row)
<1>1. /\ h \in Seq(HistRow) /\ n \in Nat /\ DOMAIN h = 1..n
      /\ \A i, j \in 1..n : i < j => h[i].date >= h[j].date
      /\ \A i, j \in 1..n : h[i].state = "SaveAndExit" /\ h[i] = h[j] => i = j
    BY DEF History
<1>2. \A i \in 1..n : h[i] \in HistRow /\ h[i].date \in Nat
    <2> TAKE i \in 1..n
    <2>1. h[i] \in HistRow
        BY <1>1, ElementOfSeq
    <2> QED
        BY <2>1 DEF HistRow
<1>3. row.date \in Nat
    BY DEF HistRow
<1>4. A \in SUBSET (1..n) /\ \A j \in A : \A i \in 1..n : i < j => i \in A
    <2> SUFFICES ASSUME NEW j \in A, NEW i \in 1..n, i < j PROVE i \in A
        BY <1>1
    <2>1. j \in 1..n /\ h[j].date >= row.date
        BY <1>1
    <2>2. h[i].date >= h[j].date
        BY <1>1, <2>1
    <2>3. h[i].date >= row.date
        BY <1>2, <1>3, <2>1, <2>2
    <2> QED
        BY <1>1, <2>3
<1>5. \A i \in 1..n : i \in A <=> h[i].date >= row.date
    BY <1>1
<1>6. at = Cardinality(A)
    OBVIOUS
<1> HIDE DEF A
<1>7. at \in 0..n /\ A = 1..at
    BY <1>1, <1>4, <1>6, FirstNumbers
<1>8. /\ g \in Seq(HistRow) /\ Len(g) = n + 1
      /\ \A i \in 1..at : g[i] = h[i]
      /\ g[at + 1] = row
      /\ \A i \in at + 1..n : g[i + 1] = h[i]
    <2>1. at \in 0..Len(h) /\ h \in Seq(HistRow)
        BY <1>1, <1>7
    <2>2. g \in Seq(HistRow) /\ HasPut(g, h, at, row)
        BY <2>1, PutAtIs
    <2> QED
        BY <2>2 DEF HasPut
<1> HIDE DEF g, n
\* Every row of the new history is the one that arrived or one of the old.
<1> DEFINE Old(p) == IF p <= at THEN p ELSE p - 1
<1>9. \A p \in 1..n + 1 : p # at + 1 => /\ Old(p) \in 1..n /\ g[p] = h[Old(p)]
                                        /\ p <= at => h[Old(p)].date >= row.date
                                        /\ p > at => h[Old(p)].date < row.date
    <2> SUFFICES ASSUME NEW p \in 1..n + 1, p # at + 1
                 PROVE  /\ Old(p) \in 1..n /\ g[p] = h[Old(p)]
                        /\ p <= at => h[Old(p)].date >= row.date
                        /\ p > at => h[Old(p)].date < row.date
        OBVIOUS
    <2>1. CASE p <= at
        <3>1. p \in 1..at /\ Old(p) = p /\ p \in 1..n
            BY <1>1, <1>7, <2>1
        <3> QED
            BY <1>5, <1>7, <1>8, <2>1, <3>1
    <2>2. CASE p > at + 1
        <3> DEFINE i == p - 1
        <3>1. i \in at + 1..n /\ i + 1 = p /\ Old(p) = i /\ i \in 1..n /\ i \notin 1..at /\ ~ p <= at
            BY <1>1, <1>7, <2>2
        <3> HIDE DEF i
        <3>2. g[p] = h[i]
            BY <1>8, <3>1
        <3>3. ~ h[i].date >= row.date
            BY <1>5, <1>7, <3>1
        <3> QED
            BY <1>2, <1>3, <3>1, <3>2, <3>3
    <2> QED
        BY <1>1, <1>7, <2>1, <2>2
<1>10. \A p, r \in 1..n + 1 : p < r => g[p].date >= g[r].date
    <2> SUFFICES ASSUME NEW p \in 1..n + 1, NEW r \in 1..n + 1, p < r PROVE g[p].date >= g[r].date
        OBVIOUS
    <2>1. CASE p = at + 1
        <3>1. r # at + 1 /\ r > at
            BY <1>1, <1>7, <2>1
        <3>2. Old(r) \in 1..n /\ g[r] = h[Old(r)] /\ h[Old(r)].date < row.date
            BY <1>9, <3>1
        <3> HIDE DEF Old
        <3> QED
            BY <1>2, <1>3, <1>8, <2>1, <3>2
    <2>2. CASE r = at + 1
        <3>1. p # at + 1 /\ p <= at
            BY <1>1, <1>7, <2>2
        <3>2. g[p] = h[Old(p)] /\ h[Old(p)].date >= row.date
            BY <1>9, <3>1
        <3> QED
            BY <1>8, <2>2, <3>2
    <2>3. CASE p # at + 1 /\ r # at + 1
        <3>1. Old(p) < Old(r)
            BY <1>1, <1>7, <2>3
        <3>2. Old(p) \in 1..n /\ g[p] = h[Old(p)] /\ Old(r) \in 1..n /\ g[r] = h[Old(r)]
            BY <1>9, <2>3
        <3> HIDE DEF Old
        <3> QED
            BY <1>1, <3>1, <3>2
    <2> QED
        BY <2>1, <2>2, <2>3
<1>11. \A p, r \in 1..n + 1 : g[p].state = "SaveAndExit" /\ g[p] = g[r] => p = r
    <2> SUFFICES ASSUME NEW p \in 1..n + 1, NEW r \in 1..n + 1, g[p].state = "SaveAndExit", g[p] = g[r] PROVE p = r
        OBVIOUS
    <2>1. CASE p = at + 1 /\ r = at + 1
        BY <2>1
    <2>2. CASE p = at + 1 /\ r # at + 1
        <3>1. Old(r) \in 1..n /\ g[r] = h[Old(r)]
            BY <1>9, <2>2
        <3> HIDE DEF Old
        <3> QED
            BY <1>1, <1>8, <2>2, <3>1
    <2>3. CASE p # at + 1 /\ r = at + 1
        <3>1. Old(p) \in 1..n /\ g[p] = h[Old(p)]
            BY <1>9, <2>3
        <3> HIDE DEF Old
        <3> QED
            BY <1>1, <1>8, <2>3, <3>1
    <2>4. CASE p # at + 1 /\ r # at + 1
        <3>1. Old(p) \in 1..n /\ g[p] = h[Old(p)] /\ Old(r) \in 1..n /\ g[r] = h[Old(r)]
            BY <1>9, <2>4
        <3>2. Old(p) = Old(r)
            <4> HIDE DEF Old
            <4> QED
                BY <1>1, <3>1
        <3> QED
            BY <1>1, <1>7, <2>4, <3>2
    <2> QED
        BY <2>1, <2>2, <2>3, <2>4
<1> QED
    BY <1>8, <1>10, <1>11 DEF History, g

\* Retention leaves a history.
LEMMA PruneKeeps ==
    ASSUME NEW h, History(h), h # << >>
    PROVE  History(Front(h))
<1> DEFINE n == Len(h)
           m == n - 1
           g == SubSeq(h, 1, m)
<1>1. /\ h \in Seq(HistRow) /\ n \in Nat
      /\ \A i, j \in 1..n : i < j => h[i].date >= h[j].date
      /\ \A i, j \in 1..n : h[i].state = "SaveAndExit" /\ h[i] = h[j] => i = j
    BY DEF History
<1>2. n # 0
    BY <1>1, EmptySeq
<1>3. m \in Nat /\ m < n /\ \A i \in 1..m : i \in 1..n /\ h[i] \in HistRow
    BY <1>1, <1>2, ElementOfSeq
<1>4. Front(h) = g
    BY DEF Front
<1> HIDE DEF n, m
<1>5. /\ g \in Seq(HistRow) /\ Len(g) = IF 1 <= m THEN m - 1 + 1 ELSE 0
      /\ \A i \in 1..m - 1 + 1 : g[i] = h[1 + i - 1]
    <2>1. \A i \in 1..m : h[i] \in HistRow
        BY <1>3
    <2> QED
        BY <1>3, <2>1, SubSeqProperties
<1> HIDE DEF g
<1>6. Len(g) = m /\ \A i \in 1..m : g[i] = h[i]
    <2>1. \A i \in 1..m : i \in 1..m - 1 + 1 /\ 1 + i - 1 = i
        BY <1>3
    <2> QED
        BY <1>3, <1>5, <2>1
<1> QED
    BY <1>1, <1>3, <1>4, <1>5, <1>6 DEF History

\* The parts of the invariant: the table, what is shown, and what the keys set.
HistsOK == hists \in [AllFiles -> Seq(HistRow)] /\ \A f \in AllFiles : History(hists[f])
ShownOK ==
    /\ items \in Snapshots /\ found \subseteq {u.id : u \in Uniques}
    /\ \A path \in expanded : Len(path) \in 1..2
KeysOK ==
    /\ cursor \in Nat /\ query \in {NoQuery} \cup Queries
    /\ detail \in {0} \cup AllFiles /\ expandedRun \in 0..MaxDate
    /\ collapse \in BOOLEAN /\ ascending \in BOOLEAN

\* The inductive invariant.
Inv == HistsOK /\ ShownOK /\ KeysOK

\* The files are finitely many numbers, the stash is one of them.
LEMMA FilesAre ==
    /\ AllFiles \subseteq Nat \ {0} /\ IsFiniteSet(AllFiles) /\ BackupFiles \subseteq AllFiles
    /\ StashFile \in AllFiles /\ StashFile \notin BackupFiles /\ MaxDate \in Nat
<1>1. /\ BackupFiles \subseteq Nat \ {0} /\ IsFiniteSet(BackupFiles)
      /\ StashFile \in Nat /\ StashFile # 0 /\ StashFile \notin BackupFiles /\ MaxDate \in Nat
    BY PanesAssumption DEF PanesAssumption
<1>2. IsFiniteSet({StashFile})
    BY FS_Singleton
<1> QED
    BY <1>1, <1>2, FS_Union DEF AllFiles

\* The items on the screen are an inventory.
LEMMA ItemsAre ==
    ASSUME Inv
    PROVE  IsInventory(items)
BY PanesAssumption DEF PanesAssumption, Inv, ShownOK

\* What is read from the end.
LEMMA ReversedIs ==
    ASSUME NEW T, NEW s \in Seq(T)
    PROVE  /\ Reverse(s) \in Seq(T) /\ Len(Reverse(s)) = Len(s) /\ Len(s) \in Nat
           /\ \A i \in 1..Len(s) : Reverse(s)[i] = s[Len(s) + 1 - i] /\ Len(s) + 1 - i \in 1..Len(s)
<1> DEFINE n == Len(s)
<1>1. n \in Nat /\ \A i \in 1..n : s[i] \in T
    BY ElementOfSeq
<1>2. Reverse(s) = [i \in 1..n |-> s[(n - i) + 1]]
    BY DEF Reverse
<1> HIDE DEF n
<1>3. \A i \in 1..n : (n - i) + 1 \in 1..n /\ (n - i) + 1 = n + 1 - i
    BY <1>1
<1>4. Reverse(s) \in [1..n -> T]
    BY <1>1, <1>2, <1>3
<1>5. Reverse(s) \in Seq(T) /\ Len(Reverse(s)) = n
    BY <1>1, <1>4, IsSeq
<1>6. \A i \in 1..n : Reverse(s)[i] = s[n + 1 - i] /\ n + 1 - i \in 1..n
    BY <1>2, <1>3
<1> QED
    BY <1>1, <1>5, <1>6 DEF n

\* The runs of the file that is shown.
FileRuns == GroupRunsForFile(hists[detail], 0)

\* The runs on the screen are those of the file, the newest first.
LEMMA RunsShownAre ==
    ASSUME Inv, detail # 0
    PROVE  /\ History(hists[detail]) /\ hists[detail] \in Seq(HistRow) /\ Len(hists[detail]) \in Nat
           /\ Grouped(hists[detail], FileRuns) /\ FileRuns \in Seq(RunType)
           /\ RunsShown \in Seq(RunType) /\ Len(RunsShown) = Len(FileRuns) /\ Len(RunsShown) \in Nat
           /\ DOMAIN RunsShown = 1..Len(RunsShown)
           /\ \A i \in 1..Len(RunsShown) :
                 /\ RunsShown[i] = FileRuns[Len(FileRuns) + 1 - i] /\ Len(FileRuns) + 1 - i \in 1..Len(FileRuns)
                 /\ RunsShown[i] \in RunType
<1>1. detail \in AllFiles
    BY DEF Inv, KeysOK
<1>2. History(hists[detail])
    BY <1>1 DEF Inv, HistsOK
<1> DEFINE h == hists[detail]
<1>3. MaxDate \in Nat
    BY FilesAre
<1> HIDE DEF h
<1>4. Grouped(h, GroupRunsForFile(h, 0))
    BY <1>2, <1>3, GroupRunsAre DEF h
<1>5. Grouped(hists[detail], FileRuns)
    BY <1>4 DEF h, FileRuns
<1>6. FileRuns \in Seq(RunType)
    BY <1>5 DEF Grouped
<1>7. RunsShown = Reverse(FileRuns)
    BY DEF RunsShown, FileRuns
<1>8. /\ RunsShown \in Seq(RunType) /\ Len(RunsShown) = Len(FileRuns) /\ Len(FileRuns) \in Nat
      /\ \A i \in 1..Len(FileRuns) : RunsShown[i] = FileRuns[Len(FileRuns) + 1 - i] /\ Len(FileRuns) + 1 - i \in 1..Len(FileRuns)
    BY <1>6, <1>7, ReversedIs
<1>9. hists[detail] \in Seq(HistRow) /\ Len(hists[detail]) \in Nat
    BY <1>2 DEF History
<1>10. \A i \in 1..Len(RunsShown) : RunsShown[i] \in RunType
    BY <1>8, ElementOfSeq
<1> QED
    BY <1>2, <1>5, <1>6, <1>8, <1>9, <1>10

\* The summary lists files.
Newer(f, g) == \/ hists[f][1].date > hists[g][1].date
               \/ hists[f][1].date = hists[g][1].date /\ f < g

\* Files that have backups can be sorted by the newest of these.
LEMMA NewestFirst ==
    ASSUME Inv, NEW S, S \subseteq {f \in AllFiles : hists[f] # << >>}
    PROVE  Sorted(S, Newer) \in Seq(AllFiles)
<1> DEFINE b == [x \in S |-> {y \in S : Newer(y, x)}]
<1>1. S \subseteq AllFiles /\ S \subseteq Nat /\ IsFiniteSet(S)
    BY FilesAre, FS_Subset
<1>2. \A f \in S : hists[f][1].date \in Nat
    <2> TAKE f \in S
    <2>1. hists[f] \in Seq(HistRow) /\ hists[f] # << >>
        BY DEF Inv, HistsOK
    <2>2. hists[f][1] \in HistRow
        <3>1. Len(hists[f]) \in Nat \ {0}
            BY <2>1, EmptySeq
        <3> QED
            BY <2>1, <3>1, ElementOfSeq
    <2> QED
        BY <2>2, FilesAre DEF HistRow
<1>3. IsOrder(b, S)
    <2>1. b \in [S -> SUBSET S]
        OBVIOUS
    <2>2. \A x, y \in S : y \in b[x] <=> Newer(y, x)
        OBVIOUS
    <2> HIDE DEF b
    <2>3. \A x \in S : x \notin b[x]
        BY <1>1, <1>2, <2>2 DEF Newer
    <2>4. ASSUME NEW x \in S, NEW y \in S, y \in b[x] PROVE b[y] \subseteq b[x]
        <3> SUFFICES ASSUME NEW z \in b[y] PROVE z \in b[x]
            OBVIOUS
        <3>1. z \in S
            BY <2>1
        <3>2. Newer(z, y) /\ Newer(y, x)
            BY <2>2, <2>4, <3>1
        <3>3. Newer(z, x)
            BY <1>1, <1>2, <3>1, <3>2 DEF Newer
        <3> QED
            BY <2>2, <3>1, <3>3
    <2>5. \A x, y \in S : x # y => x \in b[y] \/ y \in b[x]
        <3> SUFFICES ASSUME NEW x \in S, NEW y \in S, x # y PROVE Newer(x, y) \/ Newer(y, x)
            BY <2>2
        <3>1. x \in Nat /\ y \in Nat /\ hists[x][1].date \in Nat /\ hists[y][1].date \in Nat
            BY <1>1, <1>2
        <3> QED
            BY <3>1 DEF Newer
    <2> QED
        BY <2>1, <2>3, <2>4, <2>5 DEF IsOrder
<1>4. Sorted(S, Newer) = InOrder(S, b)
    BY DEF Sorted
<1> HIDE DEF b
<1>5. InOrderOf(Sorted(S, Newer), S, b)
    BY <1>1, <1>3, <1>4, InOrderIs
<1>6. Sorted(S, Newer) \in Seq(S)
    BY <1>5 DEF InOrderOf
<1> QED
    BY <1>1, <1>6, SeqMonotonic

\* The rows of the overview are files.
LEMMA SummaryIs ==
    ASSUME Inv
    PROVE  SummaryOrder \in Seq(AllFiles) /\ Len(SummaryOrder) \in Nat
<1> DEFINE present == {f \in AllFiles : hists[f] # << >>}
           A == present \cap {StashFile}
           B == {f \in present \ {StashFile} : filter \in {0, f}}
<1>1. Sorted(A, Newer) \in Seq(AllFiles) /\ Sorted(B, Newer) \in Seq(AllFiles)
    BY NewestFirst
<1>2. SummaryOrder = Sorted(A, Newer) \o Sorted(B, Newer)
    BY DEF SummaryOrder, Newer
<1> HIDE DEF A, B
<1>3. SummaryOrder \in Seq(AllFiles)
    BY <1>1, <1>2
<1> QED
    BY <1>3

\* The pane begins with the invariant.
LEMMA InitHolds ==
    ASSUME Init
    PROVE  Inv
<1>1. HistsOK
    <2>1. hists = [f \in AllFiles |-> << >>]
        BY DEF Init
    <2>2. << >> \in Seq(HistRow) /\ Len(<< >>) = 0
        BY EmptySeq
    <2>3. hists \in [AllFiles -> Seq(HistRow)]
        BY <2>1, <2>2
    <2>4. \A f \in AllFiles : History(hists[f])
        <3>1. History(<< >>)
            BY <2>2 DEF History
        <3> QED
            BY <2>1, <3>1
    <2> QED
        BY <2>3, <2>4 DEF HistsOK
<1>2. ShownOK
    <2>1. Snapshots # {}
        BY PanesAssumption DEF PanesAssumption
    <2> QED
        BY <2>1 DEF Init, ShownOK
<1>3. KeysOK
    <2>1. MaxDate \in Nat
        BY FilesAre
    <2> QED
        BY <2>1 DEF Init, KeysOK
<1> QED
    BY <1>1, <1>2, <1>3 DEF Inv

\* A backup that arrives finds its place by its date.
LEMMA ArrivesHolds ==
    ASSUME Inv, NEW f \in AllFiles, NEW d \in 1..MaxDate, NEW s \in RowStates, BackupArrives(f, d, s)
    PROVE  Inv'
<1> DEFINE row == [date |-> d, state |-> s]
           h == hists[f]
           at == Cardinality({i \in DOMAIN h : h[i].date >= row.date})
           g == PutAt(h, at, row)
<1>1. History(h) /\ hists \in [AllFiles -> Seq(HistRow)]
    BY DEF Inv, HistsOK
<1>2. row \in HistRow /\ row.date = d /\ row.state = s
    BY DEF HistRow
<1>3. s = "SaveAndExit" => \A i \in DOMAIN h : h[i] # row
    BY DEF BackupArrives
<1>4. hists' = [hists EXCEPT ![f] = g]
    BY <1>2 DEF BackupArrives, PutAt
<1>5. at = Cardinality({i \in DOMAIN h : h[i].date >= row.date})
    OBVIOUS
<1> HIDE DEF h, row, at
<1>6. History(PutAt(h, at, row))
    BY <1>1, <1>2, <1>3, <1>5, FilesAre, ArrivalKeeps
<1> HIDE DEF g
<1>7. g \in Seq(HistRow) /\ History(g)
    BY <1>6 DEF History, g
<1>8. HistsOK'
    <2>1. hists' \in [AllFiles -> Seq(HistRow)]
        BY <1>1, <1>4, <1>7
    <2>2. \A e \in AllFiles : hists'[e] = IF e = f THEN g ELSE hists[e]
        BY <1>1, <1>4
    <2>3. \A e \in AllFiles : History(hists'[e])
        BY <1>7, <2>2 DEF Inv, HistsOK
    <2> QED
        BY <2>1, <2>3 DEF HistsOK
<1>9. ShownOK' /\ KeysOK'
    BY DEF Inv, ShownOK, KeysOK, BackupArrives, inventory, chronicle
<1> QED
    BY <1>8, <1>9 DEF Inv

\* Retention takes the oldest row of a history.
LEMMA PruneHolds ==
    ASSUME Inv, NEW f \in AllFiles, Prune(f)
    PROVE  Inv'
<1> DEFINE g == Front(hists[f])
<1>1. History(hists[f]) /\ hists \in [AllFiles -> Seq(HistRow)]
    BY DEF Inv, HistsOK
<1>2. hists[f] # << >> /\ hists' = [hists EXCEPT ![f] = g]
    BY DEF Prune
<1>3. History(g)
    BY <1>1, <1>2, PruneKeeps
<1> HIDE DEF g
<1>4. g \in Seq(HistRow)
    BY <1>3 DEF History
<1>5. HistsOK'
    <2>1. hists' \in [AllFiles -> Seq(HistRow)]
        BY <1>1, <1>2, <1>4
    <2>2. \A e \in AllFiles : hists'[e] = IF e = f THEN g ELSE hists[e]
        BY <1>1, <1>2
    <2>3. \A e \in AllFiles : History(hists'[e])
        BY <1>3, <2>2 DEF Inv, HistsOK
    <2> QED
        BY <2>1, <2>3 DEF HistsOK
<1>6. ShownOK' /\ KeysOK'
    BY DEF Inv, ShownOK, KeysOK, Prune, inventory, chronicle
<1> QED
    BY <1>5, <1>6 DEF Inv

\* A rebuild replaces the items, or marks a unique as found.
LEMMA ReplacedHolds ==
    ASSUME Inv, SnapshotReplaced
    PROVE  Inv'
<1>1. HistsOK' /\ KeysOK'
    BY DEF Inv, HistsOK, KeysOK, SnapshotReplaced, backups
<1>2. items' \in Snapshots
    BY DEF Inv, ShownOK, SnapshotReplaced
<1>3. found' \subseteq {u.id : u \in Uniques}
    BY DEF Inv, ShownOK, SnapshotReplaced, SymDiff
<1>4. expanded' = expanded
    BY DEF SnapshotReplaced
<1>5. ShownOK'
    BY <1>2, <1>3, <1>4 DEF Inv, ShownOK
<1> QED
    BY <1>1, <1>5 DEF Inv

\* The number of rows is one, and the cursor a place.
LEMMA ShownRowsAre ==
    ASSUME Inv
    PROVE  ShownRows \in Nat
<1>1. CASE pane = "Chronicle"
    <2>1. IsFiniteSet(FilterForLeaf(found, ownership, query))
        <3>1. IsFiniteSet(Uniques)
            BY UniquesAssumption DEF UniquesAssumption
        <3> QED
            BY <3>1, FS_Subset DEF FilterForLeaf
    <2>2. Cardinality(FilterForLeaf(found, ownership, query)) \in Nat
        BY <2>1, FS_CardinalityType
    <2> QED
        BY <1>1, <2>2 DEF ShownRows
<1>2. CASE pane = "Inventory"
    <2>1. Len(InventoryRows) \in Nat
        BY ItemsAre, InventoryRowsAre
    <2> QED
        BY <1>2, <2>1 DEF ShownRows
<1>3. CASE pane = "Backups" /\ detail = 0
    BY <1>3, SummaryIs DEF ShownRows
<1>4. CASE pane = "Backups" /\ detail # 0
    <2>1. Len(hists[detail]) \in Nat
        BY <1>4, RunsShownAre
    <2>2. Unfolded \in Nat
        <3> DEFINE open == {i \in DOMAIN RunsShown : IsExpanded(RunsShown[i])}
        <3>1. /\ Len(RunsShown) \in Nat /\ DOMAIN RunsShown = 1..Len(RunsShown)
              /\ \A i \in 1..Len(RunsShown) : RunsShown[i] \in RunType
            BY <1>4, RunsShownAre
        <3>2. \A i \in 1..Len(RunsShown) : Len(RunsShown[i].autosaves) \in Nat
            BY <3>1 DEF RunType
        <3>3. open \subseteq 1..Len(RunsShown)
            BY <3>1
        <3>4. open # {} => Max(open) \in open
            <4>1. IsFiniteSet(1..Len(RunsShown))
                BY <3>1, FS_Interval
            <4>2. IsFiniteSet(open) /\ open \subseteq Int
                BY <3>1, <3>3, <4>1, FS_Subset
            <4> HIDE DEF open
            <4> QED
                BY <4>2, MaxIs
        <3>5. Unfolded = Len(RunsShown) + (IF open = {} THEN 0 ELSE Len(RunsShown[Max(open)].autosaves))
            BY DEF Unfolded
        <3> HIDE DEF open
        <3>6. open # {} => Len(RunsShown[Max(open)].autosaves) \in Nat
            BY <3>2, <3>3, <3>4
        <3> DEFINE m == IF open = {} THEN 0 ELSE Len(RunsShown[Max(open)].autosaves)
        <3>7. m \in Nat
            BY <3>6
        <3>8. Unfolded = Len(RunsShown) + m
            BY <3>5
        <3> HIDE DEF m
        <3> QED
            BY <3>1, <3>7, <3>8
    <2> QED
        BY <1>4, <2>1, <2>2 DEF ShownRows
<1>5. CASE pane \notin {"Chronicle", "Inventory", "Backups"}
    BY <1>5 DEF ShownRows
<1> QED
    BY <1>1, <1>2, <1>3, <1>4, <1>5

\* A header's path names a level, or a level and a section.
LEMMA RowPaths ==
    ASSUME IsInventory(items), NEW i \in 1..Len(InventoryRows)
    PROVE  Len(InventoryRows[i].path) \in 1..2
<1> DEFINE all == RowsOf(Tree)
           at == EmittedAt(all, expanded, Searching)
           q == InventoryRows
           part == FilterInventory(items, mask, query)
<1>1. TreeFits(Tree, part) /\ Tree \in Seq(TopType(EntryType))
    BY TreeIs DEF TreeFits
<1>2. all \in Seq(RowType(EntryType)) /\ \E H : Placed(all, Tree, H)
    BY <1>1, RowsPlaced
<1>3. PICK H : Placed(all, Tree, H)
    BY <1>2
<1>4. q = Subsequence(all, at)
    BY EmitIs DEF InventoryRows, AllRows
<1>5. at \in SUBSET DOMAIN all
    BY DEF EmittedAt
<1> HIDE DEF all, at, q, part
<1>6. PICK g : Takes(q, all, at, g)
    BY <1>2, <1>4, <1>5, TakesOne
<1>7. g[i] \in at /\ q[i] = all[g[i]]
    BY <1>6 DEF Takes, q
<1>8. g[i] \in 1..Len(all)
    BY <1>2, <1>5, <1>7
<1>9. PICK x \in Places(Tree) : H[x] = g[i] /\ all[H[x]] = RowAt(Tree, x)
    BY <1>3, <1>8 DEF Placed
<1>10. PICK a, b \in Words :
              /\ RowAt(Tree, LevelOf(x)) = HeaderRow(<<a>>)
              /\ x[2] # 0 => RowAt(Tree, SectionHeadOf(x)) = HeaderRow(<<a, b>>)
              /\ x[2] = 0 => RowAt(Tree, x) = HeaderRow(<<a>>)
              /\ x[2] # 0 /\ x[3] = 0 => RowAt(Tree, x) = HeaderRow(<<a, b>>)
              /\ x[3] # 0 => /\ x[2] # 0
                             /\ RowAt(Tree, x) = ItemRow(<<a, b>>, Sects(Tree, x[1])[x[2]].entries[x[3]])
    BY <1>1, RowPathIs
<1>11. Len(<<a>>) = 1 /\ Len(<<a, b>>) = 2
    BY PathsAre
<1> DEFINE e == Sects(Tree, x[1])[x[2]].entries[x[3]]
<1>12. HeaderRow(<<a>>).path = <<a>> /\ HeaderRow(<<a, b>>).path = <<a, b>> /\ ItemRow(<<a, b>>, e).path = <<a, b>>
    BY DEF HeaderRow, ItemRow
<1>13. RowAt(Tree, x).path \in {<<a>>, <<a, b>>}
    BY <1>10, <1>12
<1>14. q[i].path \in {<<a>>, <<a, b>>}
    BY <1>7, <1>9, <1>13
<1> QED
    BY <1>11, <1>14 DEF q

\* Only levels and sections can be expanded.
LEMMA ExpandablePaths ==
    ASSUME IsInventory(items), NEW path \in CollectExpandablePaths(Tree)
    PROVE  Len(path) \in 1..2
<1> DEFINE part == FilterInventory(items, mask, query)
<1>1. TreeFits(Tree, part)
    BY TreeIs
<1>2. PICK t \in DOMAIN Tree : path \in {Tree[t].path} \cup {sec.path : sec \in ToSet(Tree[t].sections)}
    BY DEF CollectExpandablePaths
<1>3. t \in 1..Len(Tree)
    BY <1>1, <1>2 DEF TreeFits
<1>4. PICK a \in Words : Tree[t].path = <<a>> /\ SectionsFit(Tree[t].sections, part, a)
    BY <1>1, <1>3 DEF TreeFits
<1>5. CASE path = Tree[t].path
    <2>1. Len(<<a>>) = 1
        BY PathsAre
    <2> QED
        BY <1>4, <1>5, <2>1
<1>6. CASE \E sec \in ToSet(Tree[t].sections) : path = sec.path
    <2>1. PICK sec \in ToSet(Tree[t].sections) : path = sec.path
        BY <1>6
    <2>2. PICK s \in 1..Len(Tree[t].sections) : sec = Tree[t].sections[s]
        BY <1>4, <2>1 DEF ToSet, SectionsFit
    <2>3. PICK b \in Words : sec.path = <<a, b>>
        BY <1>4, <2>2 DEF SectionsFit
    <2>4. Len(<<a, b>>) = 2
        BY PathsAre
    <2> QED
        BY <2>1, <2>3, <2>4
<1> QED
    BY <1>2, <1>5, <1>6

\* The run that Enter unfolds has ended.
LEMMA EnterTargetIs ==
    ASSUME Inv, detail # 0
    PROVE  EnterTarget \in 0..MaxDate
<1> DEFINE at == {i \in DOMAIN RunsShown : RunIndex(i) = cursor /\ RunsShown[i].end # 0}
<1>1. /\ DOMAIN RunsShown = 1..Len(RunsShown)
      /\ \A i \in 1..Len(RunsShown) : RunsShown[i] \in RunType
    BY RunsShownAre
<1>2. \A i \in at : RunsShown[i].end \in 0..MaxDate
    BY <1>1 DEF RunType
<1>3. EnterTarget = IF at = {} THEN 0 ELSE RunsShown[CHOOSE i \in at : TRUE].end
    BY DEF EnterTarget
<1> HIDE DEF at
<1>4. at # {} => (CHOOSE i \in at : TRUE) \in at
    OBVIOUS
<1>5. 0 \in 0..MaxDate
    BY FilesAre
<1> QED
    BY <1>2, <1>3, <1>4, <1>5

\* Keys that move the highlight keep the invariant.
LEMMA MoveHolds ==
    ASSUME Inv, MoveKeys
    PROVE  Inv'
<1>1. cursor \in Nat /\ ShownRows \in Nat
    BY ShownRowsAre DEF Inv, KeysOK
<1>2. \A i \in Int : Clamp(i, ShownRows) \in Nat
    BY <1>1, ClampIs
<1>3. cursor' \in Nat
    <2>1. cursor - 1 \in Int /\ cursor + 1 \in Int /\ ShownRows - 1 \in Int
        BY <1>1
    <2>2. \/ cursor' = Clamp(cursor - 1, ShownRows) \/ cursor' = Clamp(cursor + 1, ShownRows)
          \/ cursor' = 0 \/ cursor' = Clamp(ShownRows - 1, ShownRows)
        BY DEF MoveKeys, MoveTo
    <2> QED
        BY <1>2, <2>1, <2>2
<1>4. HistsOK' /\ ShownOK' /\ KeysOK'
    BY <1>3 DEF Inv, HistsOK, ShownOK, KeysOK, MoveKeys, backups, inventory, chronicle
<1> QED
    BY <1>4 DEF Inv

\* Enter on a file opens its history.
LEMMA DrillInHolds ==
    ASSUME Inv, DrillIn
    PROVE  Inv'
<1>1. detail' \in AllFiles
    <2> DEFINE n == Len(SummaryOrder)
               c == Clamp(cursor, n)
    <2>1. SummaryOrder \in Seq(AllFiles) /\ n \in Nat /\ SummaryOrder # << >>
        BY SummaryIs DEF DrillIn
    <2>2. n # 0 /\ cursor \in Nat
        BY <2>1, EmptySeq DEF Inv, KeysOK
    <2>3. detail' = SummaryOrder[c + 1]
        BY DEF DrillIn, Highlighted
    <2>4. n = Len(SummaryOrder) /\ c = Clamp(cursor, n)
        OBVIOUS
    <2> HIDE DEF n, c
    <2>5. cursor \in Int /\ n \in Nat
        BY <2>1, <2>2
    <2>6. n # 0 => Clamp(cursor, n) \in 0..n - 1
        BY <2>5, ClampIs
    <2>7. c + 1 \in 1..n
        BY <2>2, <2>4, <2>5, <2>6
    <2> QED
        BY <2>1, <2>3, <2>4, <2>7, ElementOfSeq
<1>2. HistsOK' /\ ShownOK' /\ KeysOK'
    BY <1>1 DEF Inv, HistsOK, ShownOK, KeysOK, DrillIn, inventory, chronicle
<1> QED
    BY <1>2 DEF Inv

\* Enter on a run opens it or closes it.
LEMMA UnfoldHolds ==
    ASSUME Inv, Unfold
    PROVE  Inv'
<1>1. expandedRun' \in 0..MaxDate
    <2>1. EnterTarget \in 0..MaxDate
        BY EnterTargetIs DEF Unfold
    <2>2. 0 \in 0..MaxDate
        BY FilesAre
    <2> QED
        BY <2>1, <2>2 DEF Unfold
<1>2. HistsOK' /\ ShownOK' /\ KeysOK'
    BY <1>1 DEF Inv, HistsOK, ShownOK, KeysOK, Unfold, inventory, chronicle
<1> QED
    BY <1>2 DEF Inv

\* Right opens a header.
LEMMA RightHolds ==
    ASSUME Inv, Right
    PROVE  Inv'
<1> DEFINE rows == InventoryRows
           n == Len(rows)
           cur == Clamp(cursor, n)
           row == rows[cur + 1]
<1>1. rows # << >> /\ \/ cursor' = cur + 1 /\ expanded' = expanded
                      \/ expanded' = expanded \cup {row.path} /\ cursor' = cursor
    BY DEF Right, Highlighted
<1>2. IsInventory(items) /\ rows \in Seq(RowType(EntryType)) /\ n \in Nat
    BY ItemsAre, InventoryRowsAre
<1>3. n # 0 /\ cursor \in Nat
    BY <1>1, <1>2, EmptySeq DEF Inv, KeysOK
<1>4. cur \in 0..n - 1
    <2>1. cur = Clamp(cursor, n)
        OBVIOUS
    <2> HIDE DEF n, cur
    <2>2. cursor \in Int /\ n \in Nat /\ n # 0
        BY <1>2, <1>3
    <2>3. n # 0 => Clamp(cursor, n) \in 0..n - 1
        BY <2>2, ClampIs
    <2> QED
        BY <2>1, <2>2, <2>3
<1>5. cur + 1 \in 1..n /\ cur + 1 \in Nat
    BY <1>2, <1>4
<1>6. Len(row.path) \in 1..2
    <2> DEFINE i == cur + 1
    <2> HIDE DEF i
    <2>1. i \in 1..Len(InventoryRows)
        BY <1>5 DEF i
    <2>2. Len(InventoryRows[i].path) \in 1..2
        BY <1>2, <2>1, RowPaths
    <2> QED
        BY <2>2 DEF i
<1> HIDE DEF row, cur, n, rows
<1>7. cursor' \in Nat /\ \A path \in expanded' : Len(path) \in 1..2
    BY <1>1, <1>3, <1>5, <1>6 DEF Inv, ShownOK
<1>8. HistsOK' /\ ShownOK' /\ KeysOK'
    BY <1>7 DEF Inv, HistsOK, ShownOK, KeysOK, Right, backups, chronicle
<1> QED
    BY <1>8 DEF Inv

\* Left closes a header or goes up.
LEMMA LeftHolds ==
    ASSUME Inv, Left
    PROVE  Inv'
<1>1. IsInventory(items) /\ cursor \in Nat
    BY ItemsAre DEF Inv, KeysOK
<1>2. cursor' \in Nat
    BY <1>1, LeftGoes
<1>3. expanded' \subseteq expanded
    BY DEF Left
<1>4. HistsOK' /\ ShownOK' /\ KeysOK'
    BY <1>2, <1>3 DEF Inv, HistsOK, ShownOK, KeysOK, Left, backups, chronicle
<1> QED
    BY <1>4 DEF Inv

\* So do the keys that search, fold and unfold.
LEMMA OtherKeysHold ==
    ASSUME Inv, Search \/ DrillOut \/ ToggleRunCollapse \/ ToggleQuality \/ CycleChronicle
                \/ ExpandAll \/ CollapseAll
    PROVE  Inv'
<1>0. 0 \in 0..MaxDate
    BY FilesAre
<1>1. CASE Search
    <2>1. HistsOK' /\ ShownOK' /\ KeysOK'
        BY <1>1 DEF Inv, HistsOK, ShownOK, KeysOK, Search, backups, inventory, chronicle
    <2> QED
        BY <2>1 DEF Inv
<1>2. CASE DrillOut
    <2>1. HistsOK' /\ ShownOK' /\ KeysOK'
        BY <1>2 DEF Inv, HistsOK, ShownOK, KeysOK, DrillOut, inventory, chronicle
    <2> QED
        BY <2>1 DEF Inv
<1>3. CASE ToggleRunCollapse
    <2>1. HistsOK' /\ ShownOK' /\ KeysOK'
        BY <1>0, <1>3 DEF Inv, HistsOK, ShownOK, KeysOK, ToggleRunCollapse, inventory, chronicle
    <2> QED
        BY <2>1 DEF Inv
<1>4. CASE ToggleQuality
    <2>1. HistsOK' /\ ShownOK' /\ KeysOK'
        BY <1>4 DEF Inv, HistsOK, ShownOK, KeysOK, ToggleQuality, backups, chronicle
    <2> QED
        BY <2>1 DEF Inv
<1>5. CASE CycleChronicle
    <2>1. HistsOK' /\ ShownOK' /\ KeysOK'
        BY <1>5 DEF Inv, HistsOK, ShownOK, KeysOK, CycleChronicle, backups, inventory
    <2> QED
        BY <2>1 DEF Inv
<1>6. CASE ExpandAll
    <2>1. expanded' = expanded \cup CollectExpandablePaths(Tree)
        BY <1>6 DEF ExpandAll
    <2>2. \A path \in expanded' : Len(path) \in 1..2
        BY <2>1, ItemsAre, ExpandablePaths DEF Inv, ShownOK
    <2>3. HistsOK' /\ ShownOK' /\ KeysOK'
        BY <1>6, <2>2 DEF Inv, HistsOK, ShownOK, KeysOK, ExpandAll, backups, chronicle
    <2> QED
        BY <2>3 DEF Inv
<1>7. CASE CollapseAll
    <2>1. HistsOK' /\ ShownOK' /\ KeysOK'
        BY <1>7 DEF Inv, HistsOK, ShownOK, KeysOK, CollapseAll, backups, chronicle
    <2> QED
        BY <2>1 DEF Inv
<1> QED
    BY <1>1, <1>2, <1>3, <1>4, <1>5, <1>6, <1>7

\* Every step keeps the invariant.
LEMMA NextHolds ==
    ASSUME Inv, [Next]_vars
    PROVE  Inv'
<1>1. CASE World
    <2>1. CASE \E f \in AllFiles, d \in 1..MaxDate, s \in {"Autosave", "SaveAndExit", "Deleted"} : BackupArrives(f, d, s)
        BY <2>1, ArrivesHolds DEF RowStates
    <2>2. CASE \E f \in AllFiles : Prune(f)
        BY <2>2, PruneHolds
    <2>3. CASE SnapshotReplaced
        BY <2>3, ReplacedHolds
    <2> QED
        BY <1>1, <2>1, <2>2, <2>3 DEF World
<1>2. CASE Keys
    BY <1>2, MoveHolds, DrillInHolds, UnfoldHolds, RightHolds, LeftHolds, OtherKeysHold DEF Keys
<1>3. CASE UNCHANGED vars
    BY <1>3 DEF Inv, HistsOK, ShownOK, KeysOK, vars, backups, inventory, chronicle
<1> QED
    BY <1>1, <1>2, <1>3 DEF Next

\* For every catalogue, inventory, set of files and set of uniques: whatever arrives, is
\* pruned or is reloaded between two keys, the histories stay in order of time, the items
\* an inventory, and what the keys have set refers to them (BackupDb::insert,
\* enforceRetention, the key handlers of rootComp).
THEOREM Invariance == Spec => []Inv
<1>1. Init => Inv
    BY InitHolds
<1>2. Inv /\ [Next]_vars => Inv'
    BY NextHolds
<1> QED
    BY <1>1, <1>2, PTL DEF Spec

\* For every value of the constants: the cursor and the expansions denote something, and the
\* histories stay sorted with the newest row first, whatever arrives and is pruned
\* (BackupDb::insert, enforceRetention, the key handlers of rootComp).
THEOREM TypesHold == Spec => []TypeOK
<1>1. Inv => TypeOK
    <2> SUFFICES ASSUME Inv PROVE TypeOK
        OBVIOUS
    <2>1. ASSUME NEW f \in AllFiles
          PROVE  \A i, j \in DOMAIN hists[f] : i < j => hists[f][i].date >= hists[f][j].date
        <3>1. History(hists[f])
            BY DEF Inv, HistsOK
        <3>2. DOMAIN hists[f] = 1..Len(hists[f])
            BY <3>1, LenProperties DEF History
        <3> QED
            BY <3>1, <3>2 DEF History
    <2> QED
        BY <2>1 DEF Inv, ShownOK, KeysOK, TypeOK
<1> QED
    BY <1>1, Invariance, PTL

\* For every inventory, catalogue, mask and query: once all is unfolded, or during a search,
\* each item that the filter lets through has exactly one row, in its section, and an empty
\* slot of the material tab has none (buildInventoryTree, emitInventoryRows).
THEOREM EveryItemHasARow == Spec => []AllItemsListed
<1>1. Inv => AllItemsListed
    BY ItemsAre, ItemsListed
<1> QED
    BY <1>1, Invariance, PTL

\* For every inventory, whatever is folded and whatever was reloaded since the last key: when
\* Left moves the highlight, it moves up, to the header of the section or level the row
\* hangs under (rootComp, Left, on the rows of emitInventoryRows).
THEOREM LeftGoesUp == Spec => LeftGoesToHeader
<1> DEFINE rows == InventoryRows
           row == Highlighted(rows)
           Up == cursor' # cursor /\ Left =>
                     LET to == rows[cursor' + 1]
                     IN cursor' < cursor /\ to.kind = "header" /\ to.path = ParentPath(row)
<1>1. Inv /\ [Next]_vars => [Up]_vars
    <2> SUFFICES ASSUME Inv, cursor' # cursor, Left
                 PROVE  /\ cursor' < cursor /\ rows[cursor' + 1].kind = "header"
                        /\ rows[cursor' + 1].path = ParentPath(row)
        OBVIOUS
    <2>1. IsInventory(items) /\ cursor \in Nat
        BY ItemsAre DEF Inv, KeysOK
    <2> QED
        BY <2>1, LeftGoes
<1>2. [][Next]_vars /\ []Inv => [][Up]_vars
    BY <1>1, PTL
<1> QED
    BY <1>2, Invariance, PTL DEF Spec, LeftGoesToHeader

\* What the rows of some states say of when they were written.
LEMMA DatesAre ==
    ASSUME NEW h, History(h), MaxDate \in Nat, NEW states
    PROVE  LET rows == Filtered(Reverse(h), LAMBDA r : r.state \in states)
           IN [i \in DOMAIN rows |-> rows[i].date] = DatesOf(Kept(Reverse(h), states, Len(h)))
<1> DEFINE r == Reverse(h)
<1>1. r \in Seq(HistRow) /\ Len(r) = Len(h)
    BY ReverseIs DEF OldestFirst
<1>2. DOMAIN r = 1..Len(h)
    BY <1>1, LenProperties
<1>3. {k \in DOMAIN r : r[k].state \in states} = {k \in 1..Len(h) : r[k].state \in states}
    BY <1>2
<1> QED
    BY <1>3 DEF Filtered, Kept, DatesOf

\* For every history: the runs of a file take up each of its autosaves and exits once and
\* in order; a run begins where the last one ended and its rows lie between its ends
\* (groupRunsForFile).
THEOREM RunsTakeUpAll == Spec => []RunsPartition
<1>1. Inv => RunsPartition
    <2> SUFFICES ASSUME Inv, NEW f \in AllFiles
                 PROVE  LET runs    == GroupRunsForFile(hists[f], 0)
                            oldest  == Reverse(hists[f])
                            Dates(states) == LET rows == Filtered(oldest, LAMBDA r : r.state \in states)
                                             IN [i \in DOMAIN rows |-> rows[i].date]
                            ended   == Filtered(runs, LAMBDA r : r.end # 0)
                        IN /\ FlattenSeq([i \in DOMAIN runs |-> runs[i].autosaves]) = Dates(Autosaves)
                           /\ [i \in DOMAIN ended |-> ended[i].end] = Dates({"SaveAndExit"})
                           /\ \A i \in DOMAIN runs :
                                 /\ runs[i].start = IF i = 1 THEN 0 ELSE runs[i - 1].end
                                 /\ runs[i].end = 0 => i = Len(runs) /\ runs[i].autosaves # << >>
                                 /\ \A d \in ToSet(runs[i].autosaves) :
                                       runs[i].start <= d /\ (runs[i].end # 0 => d <= runs[i].end)
        BY DEF RunsPartition
    <2> DEFINE h == hists[f]
               runs == GroupRunsForFile(h, 0)
               ended == Filtered(runs, LAMBDA r : r.end # 0)
               Dates(states) == LET rows == Filtered(Reverse(h), LAMBDA r : r.state \in states)
                                IN [i \in DOMAIN rows |-> rows[i].date]
    <2>1. History(h) /\ MaxDate \in Nat
        BY FilesAre DEF Inv, HistsOK
    <2>2. \A states : Dates(states) = DatesOf(Kept(Reverse(h), states, Len(h)))
        <3> HIDE DEF h
        <3> QED
            BY <2>1, DatesAre
    <2>3. Grouped(h, runs)
        <3> HIDE DEF h
        <3> QED
            BY <2>1, GroupRunsAre
    <2>4. SavesOf(runs) = Dates(Autosaves)
        BY <2>2, <2>3 DEF Grouped
    <2>5. EndsOf(ended) = Dates({"SaveAndExit"})
        BY <2>2, <2>3 DEF Grouped
    <2>6. runs \in Seq(RunType) /\ DOMAIN runs = 1..Len(runs)
        BY <2>3, LenProperties DEF Grouped
    <2> HIDE DEF Dates, runs, h
    <2>7. ASSUME NEW i \in DOMAIN runs
          PROVE  /\ runs[i].start = IF i = 1 THEN 0 ELSE runs[i - 1].end
                 /\ runs[i].end = 0 => i = Len(runs) /\ runs[i].autosaves # << >>
                 /\ \A d \in ToSet(runs[i].autosaves) :
                       runs[i].start <= d /\ (runs[i].end # 0 => d <= runs[i].end)
        <3>1. RunStands(Len(h), runs, i)
            BY <2>3, <2>6 DEF Grouped
        <3>2. runs[i].autosaves \in Seq(1..MaxDate)
            <4>1. runs[i] \in RunType
                BY <2>6, ElementOfSeq
            <4> QED
                BY <4>1 DEF RunType
        <3>3. DOMAIN runs[i].autosaves = 1..Len(runs[i].autosaves)
            BY <3>2, LenProperties
        <3>4. Len(runs[i].autosaves) # 0 => runs[i].autosaves # << >>
            BY <3>2, EmptySeq
        <3> QED
            BY <3>1, <3>3, <3>4 DEF RunStands, ToSet
    <2> QED
        BY <2>4, <2>5, <2>7 DEF SavesOf, EndsOf, Dates, runs, h
<1> QED
    BY <1>1, Invariance, PTL

-----------------------------------------------------------------------------
(***************************************************************************)
(* The rows of a history, and the keys that count them                     *)
(***************************************************************************)

\* What an expanded run adds below its row, and the rows of a run.
Extras == [j \in DOMAIN RunsShown |->
              IF IsExpanded(RunsShown[j]) THEN Len(RunsShown[j].autosaves) ELSE 0]
\* The rows a run gives in the history of a file.
RunRows(run) ==
    <<VRow(RunDate(run), TRUE, run.end)>>
    \o (IF ~ IsExpanded(run) THEN << >>
        ELSE LET dates == Reverse(run.autosaves)
             IN [k \in DOMAIN dates |-> VRow(dates[k], FALSE, 0)])
RowsOfRuns == [i \in DOMAIN RunsShown |-> RunRows(RunsShown[i])]
VRowType == [date : 0..MaxDate, summary : BOOLEAN, run : 0..MaxDate]

\* The rows of one run: its own, and below it its saves, the newest first.
RowsOfRun(run, rows, extra) ==
    /\ rows \in Seq(VRowType) /\ Len(rows) = 1 + extra
    /\ rows[1] = VRow(RunDate(run), TRUE, run.end)
    /\ \A k \in 1..extra : rows[1 + k] = VRow(run.autosaves[Len(run.autosaves) + 1 - k], FALSE, 0)
    /\ extra \in Nat /\ extra <= Len(run.autosaves) /\ Len(run.autosaves) \in Nat
    /\ IsExpanded(run) => extra = Len(run.autosaves)
    /\ ~ IsExpanded(run) => extra = 0

\* A run gives its summary and, if it is open, its autosaves, the newest first.
LEMMA RunRowsAre ==
    ASSUME NEW run \in RunType, MaxDate \in Nat, run.end = 0 => Len(run.autosaves) # 0
    PROVE  RowsOfRun(run, RunRows(run), IF IsExpanded(run) THEN Len(run.autosaves) ELSE 0)
<1> DEFINE saves == run.autosaves
           n == Len(saves)
           dates == Reverse(saves)
           below == [k \in DOMAIN dates |-> VRow(dates[k], FALSE, 0)]
           e == VRow(RunDate(run), TRUE, run.end)
           T == VRowType
<1>1. saves \in Seq(1..MaxDate) /\ run.end \in 0..MaxDate
    BY DEF RunType
<1>2. n \in Nat /\ \A k \in 1..n : saves[k] \in 1..MaxDate
    BY <1>1, ElementOfSeq
<1>3. /\ dates \in Seq(1..MaxDate) /\ Len(dates) = n
      /\ \A k \in 1..n : dates[k] = saves[n + 1 - k] /\ n + 1 - k \in 1..n
    BY <1>1, ReversedIs
<1>4. DOMAIN dates = 1..n
    BY <1>3, LenProperties
<1>5. e \in T
    <2>1. RunDate(run) \in 0..MaxDate
        <3>1. CASE run.end # 0
            BY <1>1, <3>1 DEF RunDate
        <3>2. CASE run.end = 0
            <4>1. RunDate(run) = saves[n]
                BY <3>2 DEF RunDate, Last
            <4> QED
                BY <1>2, <3>2, <4>1
        <3> QED
            BY <3>1, <3>2
    <2> QED
        BY <1>1, <2>1 DEF VRow, VRowType
<1>6. \A k \in 1..n : dates[k] \in 1..MaxDate /\ dates[k] = saves[n + 1 - k]
    BY <1>2, <1>3
<1> HIDE DEF dates, e
<1>7. below \in [1..n -> T]
    <2>1. \A k \in 1..n : VRow(dates[k], FALSE, 0) \in T
        BY <1>6 DEF VRow, VRowType
    <2> QED
        BY <1>4, <2>1
<1>8. \A k \in 1..n : below[k] = VRow(saves[n + 1 - k], FALSE, 0)
    BY <1>4, <1>6
<1>9. RunRows(run) = <<e>> \o (IF ~ IsExpanded(run) THEN << >> ELSE below)
    BY DEF RunRows, e, dates
<1> HIDE DEF below, n, T
<1>10. below \in Seq(T) /\ Len(below) = n
    BY <1>2, <1>7, IsSeq
<1>11. << >> \in Seq(T) /\ Len(<< >>) = 0
    BY EmptySeq
<1> DEFINE s == IF ~ IsExpanded(run) THEN << >> ELSE below
<1>12. s \in Seq(T)
    BY <1>10, <1>11
<1>13. /\ IsExpanded(run) => s = below /\ Len(s) = n
       /\ ~ IsExpanded(run) => Len(s) = 0
    BY <1>10, <1>11
<1> HIDE DEF s
<1>14. /\ <<e>> \o s \in Seq(T) /\ Len(<<e>> \o s) = 1 + Len(s) /\ Len(s) \in Nat
       /\ (<<e>> \o s)[1] = e /\ \A k \in 1..Len(s) : (<<e>> \o s)[1 + k] = s[k]
    BY <1>5, <1>12, PartIs
<1>15. RunRows(run) = <<e>> \o s
    BY <1>9 DEF s
<1> DEFINE x == IF IsExpanded(run) THEN Len(run.autosaves) ELSE 0
<1>16. /\ Len(s) = x /\ x \in Nat /\ x <= n
       /\ IsExpanded(run) => x = n
       /\ ~ IsExpanded(run) => x = 0
    BY <1>2, <1>13 DEF n
<1>17. \A k \in 1..x : s[k] = VRow(saves[n + 1 - k], FALSE, 0)
    <2>1. CASE IsExpanded(run)
        BY <1>8, <1>13, <1>16, <2>1
    <2>2. CASE ~ IsExpanded(run)
        BY <1>16, <2>2
    <2> QED
        BY <2>1, <2>2
<1> HIDE DEF x, saves
<1>18. RowsOfRun(run, RunRows(run), x)
    BY <1>2, <1>14, <1>15, <1>16, <1>17 DEF RowsOfRun, e, n, T, saves
<1> QED
    BY <1>18 DEF x

\* What is drawn below each run.
LEMMA RunsDrawn ==
    ASSUME Inv, detail # 0, NEW i \in 1..Len(RunsShown)
    PROVE  /\ RowsOfRun(RunsShown[i], RowsOfRuns[i], Extras[i])
           /\ Extras[i] <= Len(hists[detail])
<1> DEFINE n == Len(RunsShown)
           run == RunsShown[i]
           x == IF IsExpanded(run) THEN Len(run.autosaves) ELSE 0
           j == Len(FileRuns) + 1 - i
<1>1. n = Len(FileRuns) /\ n \in Nat /\ DOMAIN RunsShown = 1..n
    BY RunsShownAre
<1>2. run \in RunType /\ run = FileRuns[j] /\ j \in 1..Len(FileRuns)
    BY RunsShownAre
<1>3. RunStands(Len(hists[detail]), FileRuns, j)
    BY <1>2, RunsShownAre DEF Grouped
<1>4. Extras[i] = x /\ RowsOfRuns[i] = RunRows(run)
    BY <1>1 DEF Extras, RowsOfRuns
<1> HIDE DEF run, j
<1>5. Len(run.autosaves) <= Len(hists[detail]) /\ (run.end = 0 => Len(run.autosaves) # 0)
    BY <1>2, <1>3 DEF RunStands
<1>6. MaxDate \in Nat /\ Len(hists[detail]) \in Nat
    BY FilesAre, RunsShownAre
<1>7. RowsOfRun(run, RunRows(run), x)
    BY <1>2, <1>5, <1>6, RunRowsAre
<1>8. x <= Len(hists[detail])
    BY <1>5, <1>6
<1> QED
    BY <1>4, <1>7, <1>8 DEF run

\* Two runs do not end together.
LEMMA OneExpanded ==
    ASSUME Inv, detail # 0, NEW i \in 1..Len(RunsShown), NEW j \in 1..Len(RunsShown),
           IsExpanded(RunsShown[i]), IsExpanded(RunsShown[j])
    PROVE  i = j
<1> DEFINE n == Len(FileRuns)
           a == n + 1 - i
           b == n + 1 - j
<1>1. Len(RunsShown) = n /\ n \in Nat
    BY RunsShownAre
<1>2. RunsShown[i] = FileRuns[a] /\ a \in 1..n /\ RunsShown[j] = FileRuns[b] /\ b \in 1..n
    BY RunsShownAre
<1>3. \A k, l \in 1..n : k < l /\ FileRuns[l].end # 0 => FileRuns[k].end < FileRuns[l].end
    BY RunsShownAre DEF Grouped
<1>4. FileRuns[a].end = FileRuns[b].end /\ FileRuns[a].end # 0 /\ FileRuns[b].end # 0
    BY <1>2 DEF IsExpanded
<1>5. FileRuns[a].end \in Int
    <2>1. FileRuns[a] \in RunType
        BY <1>2, RunsShownAre
    <2> QED
        BY <2>1, FilesAre DEF RunType
<1>6. a = b
    <2> HIDE DEF n, a, b
    <2> QED
        BY <1>1, <1>2, <1>3, <1>4, <1>5
<1> QED
    BY <1>1, <1>6

\* The rows of the runs lie one behind the other, where the keys look for them.
RunsAt(off) ==
    /\ Laid(VRows, RowsOfRuns, Len(RunsShown), off) /\ Apart(RowsOfRuns, Len(RunsShown), off)
    /\ \A i \in 1..Len(RunsShown) : RunIndex(i) = off[i - 1]
    /\ off[Len(RunsShown)] = Len(RunsShown) + SumOf(Extras, 1..Len(RunsShown))

\* The rows of the runs lie one behind the other.
LEMMA RunsLaid ==
    ASSUME Inv, detail # 0, collapse
    PROVE  \E off : RunsAt(off)
<1> DEFINE n == Len(RunsShown)
           ss == RowsOfRuns
           q == VRows
           S == 1..n
<1>1. n \in Nat /\ DOMAIN RunsShown = 1..n
    BY RunsShownAre
<1>2. \A i \in 1..n : RowsOfRun(RunsShown[i], ss[i], Extras[i])
    BY RunsDrawn
<1>3. ss \in [1..n -> Seq(VRowType)]
    <2>1. \A i \in 1..n : RunRows(RunsShown[i]) = ss[i]
        BY <1>1 DEF RowsOfRuns
    <2>2. \A i \in 1..n : RunRows(RunsShown[i]) \in Seq(VRowType)
        BY <1>2, <2>1 DEF RowsOfRun
    <2> QED
        BY <1>1, <2>2 DEF RowsOfRuns
<1>4. q = FlattenSeq(ss)
    BY DEF VRows, RowsOfRuns, RunRows
<1> HIDE DEF q, ss
<1>5. PICK off : Laid(q, ss, n, off)
    BY <1>1, <1>3, <1>4, Flattened
<1>6. \A i \in 1..n : Len(ss[i]) = 1 + Extras[i] /\ Extras[i] \in Nat /\ Len(ss[i]) \in Nat
    <2> TAKE i \in 1..n
    <2>1. Len(ss[i]) = 1 + Extras[i] /\ Extras[i] \in Nat
        BY <1>2 DEF RowsOfRun
    <2> QED
        BY <2>1
<1>7. Apart(ss, n, off)
    <2>1. Parts(ss, n)
        BY <1>6 DEF Parts
    <2> QED
        BY <1>1, <1>5, <2>1, LaidOnce
<1>8. IsFiniteSet(S) /\ \A i \in S : Extras[i] \in Nat
    BY <1>1, <1>6, FS_Interval
<1>9. /\ SumOf(Extras, {}) = 0
      /\ \A s \in SUBSET S : SumOf(Extras, s) \in Nat
      /\ \A s \in SUBSET S : \A x \in s : SumOf(Extras, s) = Extras[x] + SumOf(Extras, s \ {x})
    BY <1>8, SumOfMore
<1> DEFINE W == {i \in Nat : i <= n => off[i] = i + SumOf(Extras, 1..i)}
<1>10. 0 \in W
    <2>1. 1..0 = {} /\ off[0] = 0
        BY <1>5 DEF Laid
    <2> QED
        BY <1>9, <2>1
<1>11. ASSUME NEW i \in W PROVE i + 1 \in W
    <2> SUFFICES ASSUME i + 1 <= n PROVE off[i + 1] = i + 1 + SumOf(Extras, 1..i + 1)
        OBVIOUS
    <2> DEFINE j == i + 1
    <2>1. i \in Nat /\ i <= n /\ j \in S /\ j - 1 = i
        BY <1>1
    <2>2. (1..j) \ {j} = 1..i /\ j \in 1..j /\ 1..j \in SUBSET S /\ 1..i \in SUBSET S
        BY <1>1, <2>1
    <2>3. off[i] = i + SumOf(Extras, 1..i)
        BY <2>1
    <2> HIDE DEF j, W
    <2>4. SumOf(Extras, 1..j) = Extras[j] + SumOf(Extras, 1..i)
        <3> DEFINE A == 1..j
                   B == 1..i
        <3>1. A \in SUBSET S /\ j \in A /\ A \ {j} = B
            BY <2>2
        <3> HIDE DEF A, B, S
        <3>2. SumOf(Extras, A) = Extras[j] + SumOf(Extras, A \ {j})
            BY <1>9, <3>1
        <3>3. SumOf(Extras, A) = Extras[j] + SumOf(Extras, B)
            BY <3>1, <3>2
        <3> QED
            BY <3>3 DEF A, B
    <2>5. off[j] = off[i] + (1 + Extras[j])
        <3>1. off[j] = off[j - 1] + Len(ss[j])
            BY <1>5, <2>1 DEF Laid
        <3> QED
            BY <1>6, <2>1, <3>1
    <2>6. SumOf(Extras, 1..i) \in Nat /\ Extras[j] \in Nat
        BY <1>6, <1>9, <2>1, <2>2
    <2>7. off[j] = j + SumOf(Extras, 1..j)
        BY <2>1, <2>3, <2>4, <2>5, <2>6
    <2> QED
        BY <2>7 DEF j
<1>12. W = Nat
    <2>1. W \in SUBSET Nat
        OBVIOUS
    <2> HIDE DEF W
    <2> QED
        BY <1>10, <1>11, <2>1, CountUp
<1>13. \A i \in 0..n : off[i] = i + SumOf(Extras, 1..i)
    BY <1>1, <1>12
<1>14. ASSUME NEW i \in 1..n PROVE RunIndex(i) = off[i - 1]
    <2>1. RunIndex(i) = i - 1 + SumOf(Extras, 1..i - 1)
        BY DEF RunIndex, Extras
    <2>2. i - 1 \in 0..n
        BY <1>1
    <2> QED
        BY <1>13, <2>1, <2>2
<1>15. off[n] = n + SumOf(Extras, 1..n)
    BY <1>1, <1>13
<1> QED
    BY <1>5, <1>7, <1>14, <1>15 DEF RunsAt, q, ss

\* The keys count the rows that are drawn.
LEMMA RowsCounted ==
    ASSUME Inv, detail # 0, collapse
    PROVE  Unfolded = Len(VRows)
<1> DEFINE n == Len(RunsShown)
           S == 1..n
           open == {i \in DOMAIN RunsShown : IsExpanded(RunsShown[i])}
<1>1. n \in Nat /\ DOMAIN RunsShown = 1..n
    BY RunsShownAre
<1>2. PICK off : RunsAt(off)
    BY RunsLaid
<1>3. Len(VRows) = n + SumOf(Extras, S)
    BY <1>2 DEF RunsAt, Laid
<1>4. \A i \in S : RowsOfRun(RunsShown[i], RowsOfRuns[i], Extras[i])
    BY RunsDrawn
<1>5. /\ \A i \in S : Extras[i] \in Nat
      /\ \A i \in S \ open : Extras[i] = 0
      /\ \A i \in open : Extras[i] = Len(RunsShown[i].autosaves)
      /\ open \in SUBSET S
    BY <1>1, <1>4 DEF RowsOfRun
<1>6. \A i, j \in open : i = j
    BY <1>1, OneExpanded
<1>7. Unfolded = n + (IF open = {} THEN 0 ELSE Len(RunsShown[Max(open)].autosaves))
    BY DEF Unfolded
<1> HIDE DEF n, open
<1>8. IsFiniteSet(S)
    BY <1>1, FS_Interval
<1> HIDE DEF S
<1>9. SumOf(Extras, S) = SumOf(Extras, open)
    BY <1>5, <1>8, SumOfSome
<1>10. /\ SumOf(Extras, {}) = 0
       /\ \A s \in SUBSET S : SumOf(Extras, s) \in Nat
       /\ \A s \in SUBSET S : \A x \in s : SumOf(Extras, s) = Extras[x] + SumOf(Extras, s \ {x})
    BY <1>5, <1>8, SumOfMore
<1>11. CASE open = {}
    BY <1>3, <1>7, <1>9, <1>10, <1>11
<1>12. CASE open # {}
    <2>1. PICK x \in open : TRUE
        BY <1>12
    <2>2. open \ {x} = {}
        BY <1>6
    <2>3. SumOf(Extras, open) = Extras[x]
        <3>1. SumOf(Extras, open) = Extras[x] + SumOf(Extras, open \ {x})
            BY <1>5, <1>10, <2>1
        <3>2. Extras[x] \in Nat
            BY <1>5, <2>1
        <3>3. SumOf(Extras, open \ {x}) = 0
            BY <1>10, <2>2
        <3> QED
            BY <3>1, <3>2, <3>3
    <2>4. Max(open) = x
        <3>1. open \subseteq Int
            BY <1>5 DEF S
        <3>2. IsFiniteSet(open)
            BY <1>5, <1>8, FS_Subset
        <3>3. Max(open) \in open
            BY <1>12, <3>1, <3>2, MaxIs
        <3> QED
            BY <1>6, <2>1, <3>3
    <2> QED
        BY <1>3, <1>5, <1>7, <1>9, <1>12, <2>1, <2>3, <2>4
<1> QED
    BY <1>11, <1>12

\* The number of rows the keys count with is that of the rows drawn.
LEMMA CountsDoAgree ==
    ASSUME Inv, pane = "Backups"
    PROVE  CountsAgree
<1>1. CASE detail = 0
    <2>1. ShownRows = Len(SummaryOrder)
        BY <1>1 DEF ShownRows
    <2>2. DrawnRows = Len(SummaryOrder)
        BY <1>1 DEF DrawnRows
    <2> QED
        BY <2>1, <2>2 DEF CountsAgree
<1>2. CASE detail # 0
    <2>1. ShownRows = IF collapse THEN Unfolded ELSE Len(hists[detail])
        BY <1>2 DEF ShownRows
    <2>2. DrawnRows = Len(VRows)
        BY <1>2 DEF DrawnRows
    <2>3. CASE collapse
        BY <1>2, <2>1, <2>2, <2>3, RowsCounted DEF CountsAgree
    <2>4. CASE ~ collapse
        <3> DEFINE h == hists[detail]
                   n == Len(h)
                   T == {VRow(h[i].date, FALSE, 0) : i \in 1..n}
        <3>1. n \in Nat /\ h \in Seq(HistRow)
            BY <1>2, RunsShownAre
        <3>2. VRows = [i \in DOMAIN h |-> VRow(h[i].date, FALSE, 0)]
            BY <2>4 DEF VRows
        <3>3. DOMAIN h = 1..n
            BY <3>1, LenProperties
        <3>4. VRows \in [1..n -> T]
            BY <3>2, <3>3
        <3> HIDE DEF T, n
        <3>5. Len(VRows) = n
            BY <3>1, <3>4, IsSeq
        <3> QED
            BY <2>1, <2>2, <2>4, <3>5 DEF CountsAgree, n
    <2> QED
        BY <2>3, <2>4
<1> QED
    BY <1>1, <1>2

\* The runs and the autosaves that the keys find under the cursor.
OnRun == {i \in DOMAIN RunsShown : RunIndex(i) = cursor}
\* The run and the autosave under the highlight.
InRun == {p \in (DOMAIN RunsShown) \X (1..Len(hists[detail])) :
             /\ IsExpanded(RunsShown[p[1]]) /\ p[2] <= Len(RunsShown[p[1]].autosaves)
             /\ RunIndex(p[1]) + p[2] = cursor}

\* What the keys take from the row.
LEMMA DateIs ==
    ASSUME collapse, hists[detail] # << >>
    PROVE  /\ \A i : OnRun = {i} => RowDate = RunDate(RunsShown[i])
           /\ \A p : OnRun = {} /\ InRun = {p} =>
                 RowDate = RunsShown[p[1]].autosaves[Len(RunsShown[p[1]].autosaves) + 1 - p[2]]
           /\ OnRun = {} /\ InRun = {} => RowDate = 0
<1> DEFINE First == RunDate(RunsShown[CHOOSE i \in OnRun : TRUE])
           Second == LET at == CHOOSE p \in InRun : TRUE
                         saves == RunsShown[at[1]].autosaves
                     IN saves[Len(saves) + 1 - at[2]]
<1>1. RowDate = CASE hists[detail] = << >> -> 0
                  [] hists[detail] # << >> /\ ~ collapse ->
                        hists[detail][Clamp(cursor, Len(hists[detail])) + 1].date
                  [] collapse /\ OnRun # {} -> First
                  [] collapse /\ OnRun = {} /\ InRun # {} -> Second
                  [] OTHER -> 0
    BY DEF RowDate, OnRun, InRun
<1>2. ASSUME NEW i, OnRun = {i} PROVE RowDate = RunDate(RunsShown[i])
    <2>1. (CHOOSE j \in OnRun : TRUE) = i
        BY <1>2
    <2>2. First = RunDate(RunsShown[i])
        BY <2>1
    <2> HIDE DEF First, Second
    <2> QED
        BY <1>1, <1>2, <2>2
<1>3. ASSUME NEW p, OnRun = {}, InRun = {p}
      PROVE  RowDate = RunsShown[p[1]].autosaves[Len(RunsShown[p[1]].autosaves) + 1 - p[2]]
    <2>1. (CHOOSE q \in InRun : TRUE) = p
        BY <1>3
    <2>2. Second = RunsShown[p[1]].autosaves[Len(RunsShown[p[1]].autosaves) + 1 - p[2]]
        BY <2>1
    <2> HIDE DEF First, Second
    <2>3. RowDate = Second
        BY <1>1, <1>3
    <2> QED
        BY <2>2, <2>3
<1>4. OnRun = {} /\ InRun = {} => RowDate = 0
    <2> HIDE DEF First, Second
    <2> QED
        BY <1>1
<1> QED
    BY <1>2, <1>3, <1>4

\* What Enter acts on is what the highlight is on.
LEMMA TargetIs ==
    /\ \A i : OnRun = {i} => EnterTarget = RunsShown[i].end
    /\ OnRun = {} => EnterTarget = 0
<1> DEFINE at == {i \in DOMAIN RunsShown : RunIndex(i) = cursor /\ RunsShown[i].end # 0}
<1>1. EnterTarget = IF at = {} THEN 0 ELSE RunsShown[CHOOSE i \in at : TRUE].end
    BY DEF EnterTarget
<1>2. at = {i \in OnRun : RunsShown[i].end # 0}
    BY DEF OnRun
<1> HIDE DEF at
<1>3. ASSUME NEW i, OnRun = {i} PROVE EnterTarget = RunsShown[i].end
    <2>1. CASE RunsShown[i].end = 0
        <3>1. at = {}
            BY <1>2, <1>3, <2>1
        <3> QED
            BY <1>1, <2>1, <3>1
    <2>2. CASE RunsShown[i].end # 0
        <3>1. at = {i}
            BY <1>2, <1>3, <2>2
        <3>2. (CHOOSE j \in at : TRUE) = i /\ at # {}
            BY <3>1
        <3> QED
            BY <1>1, <3>2
    <2> QED
        BY <2>1, <2>2
<1>4. OnRun = {} => EnterTarget = 0
    BY <1>1, <1>2
<1> QED
    BY <1>3, <1>4

\* A row of the i-th run: its own is the first.
OnRow(i, k) ==
    /\ k = 1 => OnRun = {i}
    /\ k # 1 => OnRun = {} /\ InRun = {<<i, k - 1>>}

\* The cursor is on a row of one run, or behind all rows.
LEMMA UnderCursor ==
    ASSUME Inv, detail # 0, collapse, NEW off, RunsAt(off)
    PROVE  /\ \A i \in 1..Len(RunsShown) : \A k \in 1..Len(RowsOfRuns[i]) :
                 cursor + 1 = off[i - 1] + k => OnRow(i, k)
           /\ cursor >= Len(VRows) => OnRun = {} /\ InRun = {}
<1> DEFINE n == Len(RunsShown)
           h == Len(hists[detail])
<1>1. n \in Nat /\ DOMAIN RunsShown = 1..n /\ h \in Nat /\ cursor \in Nat
    BY RunsShownAre DEF Inv, KeysOK
<1>2. /\ off \in [0..n -> Nat] /\ Apart(RowsOfRuns, n, off)
      /\ \A i \in 1..n : RunIndex(i) = off[i - 1]
      /\ \A i \in 1..n : \A k \in 1..Len(RowsOfRuns[i]) : off[i - 1] + k \in 1..Len(VRows)
      /\ Len(VRows) = off[n]
    BY DEF RunsAt, Laid
<1>3. ASSUME NEW i \in 1..n
      PROVE  /\ Len(RowsOfRuns[i]) = 1 + Extras[i] /\ Extras[i] \in Nat /\ Extras[i] <= h
             /\ IsExpanded(RunsShown[i]) => Extras[i] = Len(RunsShown[i].autosaves)
             /\ ~ IsExpanded(RunsShown[i]) => Extras[i] = 0
             /\ off[i - 1] \in Nat
    <2>1. RowsOfRun(RunsShown[i], RowsOfRuns[i], Extras[i]) /\ Extras[i] <= h
        BY RunsDrawn
    <2>2. off[i - 1] \in Nat
        BY <1>1, <1>2
    <2> QED
        BY <2>1, <2>2 DEF RowsOfRun
<1> HIDE DEF n, h
<1>4. \A i \in OnRun : i \in 1..n /\ 1 \in 1..Len(RowsOfRuns[i]) /\ cursor + 1 = off[i - 1] + 1
    <2> SUFFICES ASSUME NEW i \in OnRun
                 PROVE  i \in 1..n /\ 1 \in 1..Len(RowsOfRuns[i]) /\ cursor + 1 = off[i - 1] + 1
        OBVIOUS
    <2>1. i \in 1..n /\ RunIndex(i) = cursor
        BY <1>1 DEF OnRun
    <2>2. off[i - 1] = cursor
        BY <1>2, <2>1
    <2>3. Len(RowsOfRuns[i]) = 1 + Extras[i] /\ Extras[i] \in Nat
        BY <1>3, <2>1
    <2>4. 1 \in 1..Len(RowsOfRuns[i])
        BY <2>3
    <2> QED
        BY <2>1, <2>2, <2>4
<1>5. ASSUME NEW p \in InRun
      PROVE  /\ p[1] \in 1..n /\ p[2] \in Nat /\ p[2] + 1 \in 1..Len(RowsOfRuns[p[1]]) /\ p[2] # 0
             /\ cursor + 1 = off[p[1] - 1] + (p[2] + 1)
             /\ p = <<p[1], p[2]>>
    <2>1. p \in (1..n) \X (1..h)
        BY <1>1 DEF InRun, h
    <2>2. /\ IsExpanded(RunsShown[p[1]]) /\ p[2] <= Len(RunsShown[p[1]].autosaves)
          /\ RunIndex(p[1]) + p[2] = cursor
        BY DEF InRun
    <2>3. p[1] \in 1..n /\ p[2] \in 1..h /\ p = <<p[1], p[2]>>
        BY <2>1
    <2> DEFINE a == p[1]
               b == p[2]
    <2>4. /\ a \in 1..n /\ b \in 1..h /\ p = <<a, b>>
          /\ IsExpanded(RunsShown[a]) /\ b <= Len(RunsShown[a].autosaves) /\ RunIndex(a) + b = cursor
        BY <2>2, <2>3
    <2> HIDE DEF a, b
    <2>5. /\ Len(RowsOfRuns[a]) = 1 + Extras[a] /\ Extras[a] = Len(RunsShown[a].autosaves)
          /\ Extras[a] \in Nat /\ off[a - 1] \in Nat
        BY <1>3, <2>4
    <2>6. RunIndex(a) = off[a - 1]
        BY <1>2, <2>4
    <2>7. b \in Nat /\ b # 0 /\ b + 1 \in 1..Len(RowsOfRuns[a])
        BY <1>1, <2>4, <2>5
    <2>8. cursor + 1 = off[a - 1] + (b + 1)
        BY <1>1, <2>4, <2>5, <2>6, <2>7
    <2> QED
        BY <2>4, <2>7, <2>8 DEF a, b
<1>6. ASSUME NEW i \in 1..n, NEW k \in 1..Len(RowsOfRuns[i]), cursor + 1 = off[i - 1] + k
      PROVE  OnRow(i, k)
    <2>1. \A j \in 1..n : \A l \in 1..Len(RowsOfRuns[j]) : cursor + 1 = off[j - 1] + l => j = i /\ l = k
        BY <1>2, <1>6 DEF Apart
    <2>2. ASSUME k = 1 PROVE OnRun = {i}
        <3>1. i \in OnRun
            <4>1. RunIndex(i) = cursor
                BY <1>1, <1>2, <1>3, <1>6, <2>2
            <4> QED
                BY <1>1, <4>1 DEF OnRun
        <3> QED
            BY <1>4, <2>1, <3>1
    <2>3. ASSUME k # 1 PROVE OnRun = {} /\ InRun = {<<i, k - 1>>}
        <3>1. OnRun = {}
            BY <1>4, <2>1, <2>3
        <3> DEFINE p == <<i, k - 1>>
        <3>2. p[1] = i /\ p[2] = k - 1
            OBVIOUS
        <3>3. k - 1 \in 1..h /\ k \in Nat /\ k - 1 = Extras[i] - (Extras[i] - (k - 1))
            BY <1>1, <1>3, <2>3
        <3>4. IsExpanded(RunsShown[i]) /\ k - 1 <= Len(RunsShown[i].autosaves)
            BY <1>3, <2>3, <3>3
        <3>5. RunIndex(i) + (k - 1) = cursor
            <4>1. RunIndex(i) = off[i - 1] /\ off[i - 1] \in Nat
                BY <1>2, <1>3
            <4> QED
                BY <1>1, <1>6, <3>3, <4>1
        <3>6. p \in (DOMAIN RunsShown) \X (1..h)
            BY <1>1, <3>3
        <3> HIDE DEF p
        <3>7. p \in InRun
            BY <3>2, <3>4, <3>5, <3>6 DEF InRun, h
        <3>8. ASSUME NEW q \in InRun PROVE q = <<i, k - 1>>
            <4>1. q[1] = i /\ q[2] + 1 = k
                BY <1>5, <2>1
            <4>2. q[2] = k - 1 /\ q = <<q[1], q[2]>>
                BY <1>5, <3>3, <4>1
            <4> QED
                BY <4>1, <4>2
        <3> QED
            BY <3>1, <3>7, <3>8 DEF p
    <2> QED
        BY <2>2, <2>3 DEF OnRow
<1>7. ASSUME cursor >= Len(VRows) PROVE OnRun = {} /\ InRun = {}
    <2>1. Len(VRows) \in Nat
        BY <1>1, <1>2
    <2>2. \A j \in 1..n : \A l \in 1..Len(RowsOfRuns[j]) : cursor + 1 # off[j - 1] + l
        BY <1>1, <1>2, <1>7, <2>1
    <2>3. OnRun = {}
        BY <1>4, <2>2
    <2>4. InRun = {}
        BY <1>5, <2>2
    <2> QED
        BY <2>3, <2>4
<1> QED
    BY <1>6, <1>7 DEF n

\* What Enter and R do to the highlighted row.
KeysFollow(row, onRows) ==
    /\ RowDate \in (IF onRows THEN {} ELSE {0}) \cup {row.date}
    /\ collapse => EnterTarget \in (IF onRows THEN {} ELSE {0}) \cup {row.run}

\* With a row for each run.
LEMMA KeysFollowRuns ==
    ASSUME Inv, detail # 0, collapse, VRows # << >>
    PROVE  KeysFollow(Highlighted(VRows), cursor < Len(VRows))
<1> DEFINE n == Len(RunsShown)
           c == Len(VRows)
           h == hists[detail]
<1>1. n \in Nat /\ cursor \in Nat
    BY RunsShownAre DEF Inv, KeysOK
<1>2. PICK off : RunsAt(off)
    BY RunsLaid
<1>3. off \in [0..n -> Nat] /\ c = off[n] /\ off[0] = 0
    BY <1>2 DEF RunsAt, Laid
<1>4. c \in Nat
    BY <1>1, <1>3
<1>5. h # << >>
    <2>1. h \in Seq(HistRow) /\ Len(h) \in Nat
        BY RunsShownAre
    <2>2. SUFFICES ASSUME Len(h) = 0 PROVE FALSE
        BY <2>1, EmptySeq
    <2>3. n = 0
        BY <2>2, RunsShownAre DEF Grouped
    <2>4. DOMAIN RunsShown = {}
        BY <2>3, RunsShownAre
    <2>5. VRows = FlattenSeq(RowsOfRuns)
        BY DEF VRows, RowsOfRuns, RunRows
    <2>6. RowsOfRuns = [i \in 1..0 |-> << >>]
        BY <2>4 DEF RowsOfRuns
    <2> DEFINE ss == RowsOfRuns
               m == 0
    <2>7. ss \in [1..m -> Seq(VRowType)] /\ m \in Nat
        BY <2>6
    <2> HIDE DEF ss, m
    <2>8. FlattenSeq(ss) \in Seq(VRowType)
        BY <2>7, Flattened
    <2>9. VRows \in Seq(VRowType)
        BY <2>5, <2>8 DEF ss
    <2>10. c = 0
        BY <1>3, <2>3
    <2> QED
        BY <2>9, <2>10, EmptySeq
<1>6. CASE cursor >= c
    <2>1. OnRun = {} /\ InRun = {}
        BY <1>2, <1>6, UnderCursor
    <2>2. RowDate = 0 /\ EnterTarget = 0
        BY <1>5, <2>1, DateIs, TargetIs
    <2>3. ~ (cursor < c)
        BY <1>1, <1>4, <1>6
    <2> QED
        BY <2>2, <2>3 DEF KeysFollow
<1>7. CASE cursor < c
    <2> DEFINE row == Highlighted(VRows)
    <2>1. Clamp(cursor, c) = cursor
        <3>1. cursor \in 0..c - 1 /\ cursor \in Int
            BY <1>1, <1>4, <1>7
        <3> HIDE DEF c
        <3> QED
            BY <1>4, <3>1, ClampIs
    <2>2. row = VRows[cursor + 1]
        BY <2>1 DEF Highlighted
    <2>3. cursor + 1 \in 1..c
        BY <1>1, <1>4, <1>7
    <2>4. PICK i \in 1..n : \E k \in 1..Len(RowsOfRuns[i]) : cursor + 1 = off[i - 1] + k
        BY <1>2, <2>3 DEF RunsAt, Laid
    <2>5. PICK k \in 1..Len(RowsOfRuns[i]) : cursor + 1 = off[i - 1] + k
        BY <2>4
    <2>6. VRows[off[i - 1] + k] = RowsOfRuns[i][k]
        BY <1>2 DEF RunsAt, Laid
    <2>7. OnRow(i, k)
        BY <1>2, <2>5, UnderCursor
    <2>8. RowsOfRun(RunsShown[i], RowsOfRuns[i], Extras[i])
        BY RunsDrawn
    <2>9. row = RowsOfRuns[i][k]
        BY <2>2, <2>5, <2>6
    <2> HIDE DEF row
    <2>10. RowDate = row.date /\ EnterTarget = row.run
        <3>1. CASE k = 1
            <4>1. OnRun = {i}
                BY <2>7, <3>1 DEF OnRow
            <4>2. row = VRow(RunDate(RunsShown[i]), TRUE, RunsShown[i].end)
                BY <2>8, <2>9, <3>1 DEF RowsOfRun
            <4>3. row.date = RunDate(RunsShown[i]) /\ row.run = RunsShown[i].end
                BY <4>2 DEF VRow
            <4>4. RowDate = RunDate(RunsShown[i])
                BY <1>5, <4>1, DateIs
            <4>5. EnterTarget = RunsShown[i].end
                BY <4>1, TargetIs
            <4> QED
                BY <4>3, <4>4, <4>5
        <3>2. CASE k # 1
            <4> DEFINE p == <<i, k - 1>>
                       l == k - 1
                       saves == RunsShown[i].autosaves
            <4>1. OnRun = {} /\ InRun = {p}
                BY <2>7, <3>2 DEF OnRow
            <4>2. l \in 1..Extras[i] /\ k = 1 + l
                <5>1. Len(RowsOfRuns[i]) = 1 + Extras[i] /\ Extras[i] \in Nat
                    BY <2>8 DEF RowsOfRun
                <5> QED
                    BY <3>2, <5>1
            <4>3. p[1] = i /\ p[2] = l
                OBVIOUS
            <4> HIDE DEF p, l
            <4>4. row = VRow(saves[Len(saves) + 1 - l], FALSE, 0)
                BY <2>8, <2>9, <4>2 DEF RowsOfRun
            <4>5. row.date = saves[Len(saves) + 1 - l] /\ row.run = 0
                BY <4>4 DEF VRow
            <4>6. RowDate = RunsShown[p[1]].autosaves[Len(RunsShown[p[1]].autosaves) + 1 - p[2]]
                BY <1>5, <4>1, DateIs
            <4>7. EnterTarget = 0
                BY <4>1, TargetIs
            <4> QED
                BY <4>3, <4>5, <4>6, <4>7
        <3> QED
            BY <3>1, <3>2
    <2> QED
        BY <1>7, <2>10 DEF KeysFollow, row
<1> QED
    BY <1>1, <1>4, <1>6, <1>7

\* With a row for each row of the database.
LEMMA KeysFollowFile ==
    ASSUME Inv, detail # 0, ~ collapse, VRows # << >>
    PROVE  KeysFollow(Highlighted(VRows), cursor < Len(VRows))
<1> DEFINE h == hists[detail]
           n == Len(h)
           T == {VRow(h[i].date, FALSE, 0) : i \in 1..n}
           c == Clamp(cursor, n)
           row == Highlighted(VRows)
<1>1. n \in Nat /\ h \in Seq(HistRow) /\ cursor \in Int
    BY RunsShownAre DEF Inv, KeysOK
<1>2. VRows = [i \in DOMAIN h |-> VRow(h[i].date, FALSE, 0)]
    BY DEF VRows
<1>3. DOMAIN h = 1..n
    BY <1>1, LenProperties
<1>4. VRows \in [1..n -> T]
    BY <1>2, <1>3
<1>5. row = VRows[Clamp(cursor, Len(VRows)) + 1]
    BY DEF Highlighted
<1>6. h # << >> => RowDate = h[c + 1].date
    BY DEF RowDate
<1> HIDE DEF T, n, c, h, row
<1>7. Len(VRows) = n /\ VRows \in Seq(T)
    BY <1>1, <1>4, IsSeq
<1>8. n # 0 /\ h # << >>
    <2>1. n # 0
        BY <1>7, EmptySeq
    <2> QED
        BY <1>1, <2>1, EmptySeq DEF n
<1>9. c \in 0..n - 1
    <2>1. n # 0 => Clamp(cursor, n) \in 0..n - 1
        BY <1>1, ClampIs
    <2> QED
        BY <1>8, <2>1 DEF c
<1> DEFINE d == c + 1
<1>10. d \in 1..n
    BY <1>1, <1>9
<1>11. row = VRows[d]
    BY <1>5, <1>7 DEF c
<1>12. RowDate = h[d].date
    BY <1>6, <1>8
<1> HIDE DEF d
<1>13. row.date = h[d].date
    BY <1>2, <1>3, <1>10, <1>11 DEF VRow
<1> QED
    BY <1>12, <1>13 DEF KeysFollow, row

\* For every table, whatever arrived or was pruned since the last key: the keys of the Backups
\* pane, which walk the runs by an arithmetic of their own, count as many rows as are drawn,
\* and Enter and R act on the row that is drawn highlighted (rootComp, shownRows;
\* renderBackupsDetail).
THEOREM KeysAgree == Spec => []KeysActOnHighlight
<1>1. ASSUME Inv, pane = "Backups", detail # 0, VRows # << >>
      PROVE  KeysFollow(Highlighted(VRows), cursor < Len(VRows))
    BY <1>1, KeysFollowRuns, KeysFollowFile
<1>2. Inv /\ pane = "Backups" => EnterAndRecoverAgree
    BY <1>1 DEF EnterAndRecoverAgree, KeysFollow
<1>3. Inv => KeysActOnHighlight
    BY <1>2, CountsDoAgree DEF KeysActOnHighlight
<1> QED
    BY <1>3, Invariance, PTL

-----------------------------------------------------------------------------
(***************************************************************************)
(* The grid of the chronicle                                               *)
(***************************************************************************)

\* What has different numbers is in the order of the numbers.
LEMMA NumbersOrder ==
    ASSUME NEW S, NEW key, \A x \in S : key[x] \in Int, \A x, y \in S : key[x] = key[y] => x = y,
           NEW b, b = [x \in S |-> {y \in S : key[y] < key[x]}]
    PROVE  IsOrder(b, S)
<1>1. b \in [S -> SUBSET S] /\ \A x, y \in S : y \in b[x] <=> key[y] < key[x]
    OBVIOUS
<1>2. \A x \in S : x \notin b[x]
    BY <1>1
<1>3. ASSUME NEW x \in S, NEW y \in S, y \in b[x] PROVE b[y] \subseteq b[x]
    <2> SUFFICES ASSUME NEW z \in b[y] PROVE z \in b[x]
        OBVIOUS
    <2>1. z \in S
        BY <1>1
    <2>2. key[z] < key[y] /\ key[y] < key[x]
        BY <1>1, <1>3, <2>1
    <2>3. key[z] < key[x]
        BY <2>1, <2>2
    <2> QED
        BY <1>1, <2>1, <2>3
<1>4. ASSUME NEW x \in S, NEW y \in S, x # y PROVE x \in b[y] \/ y \in b[x]
    <2>1. key[x] < key[y] \/ key[y] < key[x]
        BY <1>4
    <2> QED
        BY <1>1, <2>1
<1> QED
    BY <1>1, <1>2, <1>3, <1>4 DEF IsOrder

\* What a unique is.
IsUnique(u) ==
    /\ u.id \in Nat \ {None} /\ u.tier \in Tiers \cup {None}
    /\ u.family \in Nat /\ u.level \in Nat /\ u.type \in Nat \ {None}
    /\ u.tier # None => u.type # Misc

\* The uniques are finitely many, with an id each.
LEMMA UniquesAre ==
    /\ IsFiniteSet(Uniques) /\ Misc \in Nat \ {None} /\ \A u \in Uniques : IsUnique(u)
    /\ \A u, v \in Uniques : u.id = v.id => u = v
BY UniquesAssumption DEF UniquesAssumption, IsUnique

\* Each belongs to one family and one column.
LEMMA ColumnsAre ==
    ASSUME NEW u \in Uniques
    PROVE  /\ Column(u) \in Tiers /\ FamilyOf(u) \in Families /\ u \in Members[FamilyOf(u)]
           /\ FamilyOf(u).misc <=> u.tier = None
           /\ FamilyOf(u).misc => FamilyOf(u).key = u.id
<1>1. IsUnique(u)
    BY UniquesAre
<1>2. Column(u) \in Tiers
    BY <1>1 DEF Column, IsUnique, Tiers, None
<1>3. FamilyOf(u) \in Families
    BY DEF Families
<1> QED
    BY <1>2, <1>3 DEF FamilyOf, Members

\* What the order of the families looks at.
LEMMA FamiliesAre ==
    ASSUME NEW fam \in Families
    PROVE  /\ Members[fam] \subseteq Uniques /\ AMember[fam] \in Members[fam]
           /\ \A u \in Members[fam] : FamilyOf(u) = fam
           /\ fam = [misc |-> fam.misc, key |-> fam.key] /\ fam.misc \in BOOLEAN /\ fam.key \in Nat
           /\ TypeOf[fam] \in Nat \ {None} /\ AMember[fam].level \in Nat
           /\ fam.misc <=> TypeOf[fam] = Misc
<1>1. PICK v \in Uniques : fam = FamilyOf(v)
    BY DEF Families
<1>2. Members[fam] = {u \in Uniques : FamilyOf(u) = fam}
    BY DEF Members
<1>3. v \in Members[fam]
    BY <1>1, <1>2
<1>4. AMember[fam] \in Members[fam]
    BY <1>3 DEF AMember
<1> DEFINE a == AMember[fam]
<1>5. a \in Uniques /\ FamilyOf(a) = fam
    BY <1>2, <1>4
<1>6. IsUnique(a) /\ IsUnique(v)
    BY <1>1, <1>5, UniquesAre
<1>7. TypeOf[fam] = IF fam.misc THEN Misc ELSE a.type
    BY DEF TypeOf
<1> HIDE DEF a
<1>8. fam.misc = (a.tier = None)
    BY <1>5 DEF FamilyOf
<1>9. fam = [misc |-> fam.misc, key |-> fam.key] /\ fam.misc \in BOOLEAN /\ fam.key \in Nat
    <2>1. (v.tier = None) \in BOOLEAN /\ (IF v.tier = None THEN v.id ELSE v.family) \in Nat
        BY <1>6 DEF IsUnique
    <2> QED
        BY <1>1, <2>1 DEF FamilyOf
<1>10. TypeOf[fam] \in Nat \ {None} /\ a.level \in Nat /\ (fam.misc <=> TypeOf[fam] = Misc)
    <2>1. CASE fam.misc
        BY <1>6, <1>7, <2>1, UniquesAre DEF IsUnique
    <2>2. CASE ~ fam.misc
        <3>1. a.tier # None
            BY <1>8, <2>2
        <3> QED
            BY <1>6, <1>7, <2>2, <3>1 DEF IsUnique
    <2> QED
        BY <2>1, <2>2
<1> QED
    BY <1>2, <1>4, <1>9, <1>10 DEF a

\* The columns of a family, by name.
LEMMA BucketIs ==
    ASSUME NEW fam \in Families, NEW t
    PROVE  LET B == {u \in Members[fam] : Column(u) = t}
               q == Bucket(fam, t)
           IN  /\ q \in Seq(B) /\ Len(q) \in Nat
               /\ \A u \in B : \E k \in 1..Len(q) : q[k] = u
               /\ \A k \in 1..Len(q) : q[k] \in B
               /\ \A k, l \in 1..Len(q) : k < l <=> q[k].id < q[l].id
               /\ \A k, l \in 1..Len(q) : q[k] = q[l] => k = l
<1> DEFINE B == {u \in Members[fam] : Column(u) = t}
           q == Bucket(fam, t)
           key == [u \in B |-> u.id]
           b == [x \in B |-> {y \in B : key[y] < key[x]}]
           c == [x \in B |-> {y \in B : y.id < x.id}]
<1>1. B \subseteq Uniques
    BY FamiliesAre
<1>2. IsFiniteSet(B)
    BY <1>1, UniquesAre, FS_Subset
<1>3. (\A x \in B : key[x] \in Int) /\ \A x, y \in B : key[x] = key[y] => x = y
    BY <1>1, UniquesAre DEF IsUnique
<1>4. q = InOrder(B, c)
    BY DEF Bucket, Sorted
<1>5. b = c
    OBVIOUS
<1>6. \A x \in B : key[x] = x.id
    OBVIOUS
<1>7. \A x, y \in B : y \in b[x] <=> key[y] < key[x]
    OBVIOUS
<1> HIDE DEF B, q, key
<1>8. IsOrder(b, B)
    BY <1>3, NumbersOrder
<1> HIDE DEF b, c
<1>9. InOrderOf(q, B, b)
    BY <1>2, <1>4, <1>5, <1>8, InOrderIs
<1>10. /\ q \in Seq(B) /\ Len(q) \in Nat
       /\ \A u \in B : \E k \in 1..Len(q) : q[k] = u
       /\ \A k \in 1..Len(q) : q[k] \in B
       /\ \A k, l \in 1..Len(q) : k < l <=> q[k] \in b[q[l]]
       /\ \A k, l \in 1..Len(q) : q[k] = q[l] => k = l
    BY <1>9 DEF InOrderOf
<1>11. \A k, l \in 1..Len(q) : k < l <=> q[k].id < q[l].id
    BY <1>6, <1>7, <1>10
<1> QED
    BY <1>10, <1>11 DEF B, q

\* What is before a family in the grid.
LEMMA FamiliesOrder ==
    ASSUME NEW S, S \subseteq Families, NEW asc \in BOOLEAN, NEW b,
           b = [x \in S |-> {y \in S : IF asc THEN FamilyOrder(y, x) ELSE FamilyOrder(x, y)}]
    PROVE  IsOrder(b, S)
<1> DEFINE Before(y, x) == IF asc THEN FamilyOrder(y, x) ELSE FamilyOrder(x, y)
<1>1. b \in [S -> SUBSET S] /\ \A x, y \in S : y \in b[x] <=> Before(y, x)
    OBVIOUS
<1>2. \A x \in S : TypeOf[x] \in Nat /\ AMember[x].level \in Nat /\ x.key \in Nat
    BY FamiliesAre
<1>3. ASSUME NEW x \in S, NEW y \in S, TypeOf[x] = TypeOf[y], x.key = y.key PROVE x = y
    <2>1. x \in Families /\ y \in Families
        OBVIOUS
    <2>2. x = [misc |-> x.misc, key |-> x.key] /\ x.misc \in BOOLEAN /\ (x.misc <=> TypeOf[x] = Misc)
        BY <2>1, FamiliesAre
    <2>3. y = [misc |-> y.misc, key |-> y.key] /\ y.misc \in BOOLEAN /\ (y.misc <=> TypeOf[y] = Misc)
        BY <2>1, FamiliesAre
    <2>4. x.misc = y.misc
        BY <1>3, <2>2, <2>3
    <2> QED
        BY <1>3, <2>2, <2>3, <2>4
<1>4. \A x \in S : ~ FamilyOrder(x, x)
    BY <1>2 DEF FamilyOrder
<1>5. ASSUME NEW x \in S, NEW y \in S, NEW z \in S, FamilyOrder(x, y), FamilyOrder(y, z)
      PROVE  FamilyOrder(x, z)
    <2>1. /\ TypeOf[x] \in Nat /\ AMember[x].level \in Nat /\ x.key \in Nat
          /\ TypeOf[y] \in Nat /\ AMember[y].level \in Nat /\ y.key \in Nat
          /\ TypeOf[z] \in Nat /\ AMember[z].level \in Nat /\ z.key \in Nat
        BY <1>2
    <2> QED
        BY <1>5, <2>1 DEF FamilyOrder
<1>6. ASSUME NEW x \in S, NEW y \in S, x # y PROVE FamilyOrder(x, y) \/ FamilyOrder(y, x)
    <2>1. /\ TypeOf[x] \in Nat /\ AMember[x].level \in Nat /\ x.key \in Nat
          /\ TypeOf[y] \in Nat /\ AMember[y].level \in Nat /\ y.key \in Nat
        BY <1>2
    <2>2. TypeOf[x] # TypeOf[y] \/ x.key # y.key
        BY <1>3, <1>6
    <2> QED
        BY <2>1, <2>2 DEF FamilyOrder
<1>7. \A x \in S : x \notin b[x]
    BY <1>1, <1>4
<1>8. ASSUME NEW x \in S, NEW y \in S, y \in b[x] PROVE b[y] \subseteq b[x]
    <2> SUFFICES ASSUME NEW z \in b[y] PROVE z \in b[x]
        OBVIOUS
    <2>1. z \in S
        BY <1>1
    <2>2. Before(z, y) /\ Before(y, x)
        BY <1>1, <1>8, <2>1
    <2>3. Before(z, x)
        BY <1>5, <2>1, <2>2
    <2> QED
        BY <1>1, <2>1, <2>3
<1>9. ASSUME NEW x \in S, NEW y \in S, x # y PROVE x \in b[y] \/ y \in b[x]
    <2>1. Before(x, y) \/ Before(y, x)
        BY <1>6, <1>9
    <2> QED
        BY <1>1, <2>1
<1> QED
    BY <1>1, <1>7, <1>8, <1>9 DEF IsOrder

\* A row of the grid, and the k-th row of a family.
GridRowType == [banner : Nat, cells : [Tiers -> Nat] \cup {<< >>}]
CellsAt(fam, k) == [t \in Tiers |-> IF k <= Len(Bucket(fam, t)) THEN Bucket(fam, t)[k].id ELSE None]

\* A family has as many rows as its longest column.
LEMMA DataRowsAre ==
    ASSUME NEW fam \in Families
    PROVE  /\ DataRows[fam] \in Seq(GridRowType) /\ Len(DataRows[fam]) \in Nat
           /\ \A k \in 1..Len(DataRows[fam]) : DataRows[fam][k] = [banner |-> None, cells |-> CellsAt(fam, k)]
           /\ \A t \in Tiers : Len(Bucket(fam, t)) <= Len(DataRows[fam])
<1> DEFINE B(t) == Bucket(fam, t)
           buckets == [t \in Tiers |-> Bucket(fam, t)]
           L == {Len(buckets[t]) : t \in Tiers}
           M == {Len(B(1)), Len(B(2)), Len(B(3))}
           m == Max(L)
           row == [i \in 1..m |-> [banner |-> None, cells |-> CellsAt(fam, i)]]
<1>1. DataRows[fam] = [i \in 1..m |->
            [banner |-> None,
             cells  |-> [t \in Tiers |-> IF i <= Len(buckets[t]) THEN buckets[t][i].id ELSE None]]]
    BY DEF DataRows
<1>2. \A t \in Tiers : buckets[t] = B(t)
    OBVIOUS
<1>3. \A i : [t \in Tiers |-> IF i <= Len(buckets[t]) THEN buckets[t][i].id ELSE None] = CellsAt(fam, i)
    BY <1>2 DEF CellsAt
<1>4. DataRows[fam] = row
    BY <1>1, <1>3
<1>5. L = M
    <2>1. Tiers = {1, 2, 3}
        BY DEF Tiers
    <2>2. \A x : x \in L <=> \E t \in Tiers : x = Len(B(t))
        BY <1>2
    <2> HIDE DEF L, B
    <2>3. \A x : x \in L <=> x = Len(B(1)) \/ x = Len(B(2)) \/ x = Len(B(3))
        BY <2>1, <2>2
    <2> QED
        BY <2>3
<1>6. \A t \in Tiers : /\ Len(B(t)) \in Nat
                       /\ \A k \in 1..Len(B(t)) : B(t)[k] \in Uniques
    <2> TAKE t \in Tiers
    <2> DEFINE S == {u \in Members[fam] : Column(u) = t}
    <2>1. Len(B(t)) \in Nat /\ \A k \in 1..Len(B(t)) : B(t)[k] \in S
        BY BucketIs
    <2>2. S \subseteq Uniques
        BY FamiliesAre
    <2> QED
        BY <2>1, <2>2
<1>7. \A t \in Tiers : Len(B(t)) \in L
    BY <1>2
<1> HIDE DEF B, buckets, L
<1>8. IsFiniteSet(M)
    <2>1. IsFiniteSet({Len(B(1))}) /\ IsFiniteSet({Len(B(2))}) /\ IsFiniteSet({Len(B(3))})
        BY FS_Singleton
    <2>2. M = ({Len(B(1))} \cup {Len(B(2))}) \cup {Len(B(3))}
        OBVIOUS
    <2> HIDE DEF M
    <2> QED
        BY <2>1, <2>2, FS_Union
<1>9. M \subseteq Nat /\ M \subseteq Int /\ M # {}
    BY <1>6 DEF Tiers
<1> HIDE DEF M
<1>10. m \in Nat /\ \A x \in L : x <= m
    BY <1>5, <1>8, <1>9, MaxIs
<1> HIDE DEF m
<1>11. \A t \in Tiers : Len(B(t)) <= m
    BY <1>7, <1>10
<1>12. \A i \in 1..m : CellsAt(fam, i) \in [Tiers -> Nat]
    <2> TAKE i \in 1..m
    <2>1. ASSUME NEW t \in Tiers PROVE (IF i <= Len(B(t)) THEN B(t)[i].id ELSE None) \in Nat
        <3>1. CASE i <= Len(B(t))
            <4>1. i \in 1..Len(B(t))
                BY <1>6, <1>10, <3>1
            <4>2. IsUnique(B(t)[i])
                BY <1>6, <4>1, UniquesAre
            <4> QED
                BY <3>1, <4>2 DEF IsUnique
        <3>2. CASE ~ (i <= Len(B(t)))
            BY <3>2 DEF None
        <3> QED
            BY <3>1, <3>2
    <2> QED
        BY <2>1 DEF CellsAt, B
<1>13. row \in [1..m -> GridRowType]
    <2>1. \A i \in 1..m : [banner |-> None, cells |-> CellsAt(fam, i)] \in GridRowType
        BY <1>12 DEF GridRowType, None
    <2> QED
        BY <2>1
<1>14. \A k \in 1..m : row[k] = [banner |-> None, cells |-> CellsAt(fam, k)]
    OBVIOUS
<1> HIDE DEF row
<1>15. row \in Seq(GridRowType) /\ Len(row) = m
    BY <1>10, <1>13, IsSeq
<1> QED
    BY <1>4, <1>10, <1>11, <1>14, <1>15 DEF B

\* The families of the grid, in order.
Surviving == {f \in Families : Survives(f, found, ownership, query)}
\* The families that are drawn, in the order they are drawn in.
FamsBefore == [x \in Surviving |->
                  {y \in Surviving : IF ascending THEN FamilyOrder(y, x) ELSE FamilyOrder(x, y)}]
Fams == InOrder(Surviving, FamsBefore)

\* Classes come one behind the other.
ByType(i, j) ==
    IF ascending THEN TypeOf[Fams[i]] <= TypeOf[Fams[j]] ELSE TypeOf[Fams[j]] <= TypeOf[Fams[i]]

\* Each family comes once, and those of a type are together.
LEMMA FamsAre ==
    ASSUME ascending \in BOOLEAN
    PROVE  /\ Fams \in Seq(Surviving) /\ Len(Fams) \in Nat /\ DOMAIN Fams = 1..Len(Fams)
           /\ \A i \in 1..Len(Fams) : Fams[i] \in Surviving /\ Fams[i] \in Families
           /\ \A f \in Surviving : \E i \in 1..Len(Fams) : Fams[i] = f
           /\ \A i, j \in 1..Len(Fams) : Fams[i] = Fams[j] => i = j
           /\ \A i, j \in 1..Len(Fams) : i <= j => ByType(i, j)
<1> DEFINE S == Surviving
           b == FamsBefore
           q == Fams
<1>1. S \subseteq Families
    BY DEF Surviving
<1>2. IsFiniteSet(Families)
    <2> DEFINE f == [u \in Uniques |-> FamilyOf(u)]
    <2>1. f \in Surjection(Uniques, Families)
        BY DEF Surjection, Families
    <2> QED
        BY <2>1, UniquesAre, FS_Surjection
<1>3. IsFiniteSet(S)
    BY <1>1, <1>2, FS_Subset
<1>4. b = [x \in S |-> {y \in S : IF ascending THEN FamilyOrder(y, x) ELSE FamilyOrder(x, y)}]
    BY DEF FamsBefore
<1>5. q = InOrder(S, b)
    BY DEF Fams
<1>6. \A x, y \in S : y \in b[x] => IF ascending THEN FamilyOrder(y, x) ELSE FamilyOrder(x, y)
    BY <1>4
<1> HIDE DEF S, b, q
<1>7. IsOrder(b, S)
    BY <1>1, <1>4, FamiliesOrder
<1>8. InOrderOf(q, S, b)
    BY <1>3, <1>5, <1>7, InOrderIs
<1>9. /\ q \in Seq(S) /\ Len(q) \in Nat /\ DOMAIN q = 1..Len(q)
      /\ \A x \in S : \E i \in 1..Len(q) : q[i] = x
      /\ \A i, j \in 1..Len(q) : i < j <=> q[i] \in b[q[j]]
      /\ \A i, j \in 1..Len(q) : q[i] = q[j] => i = j
      /\ \A i \in 1..Len(q) : q[i] \in S
    BY <1>8 DEF InOrderOf
<1>10. ASSUME NEW i \in 1..Len(q), NEW j \in 1..Len(q), i <= j PROVE ByType(i, j)
    <2>1. q[i] \in Families /\ q[j] \in Families /\ q[i] \in S /\ q[j] \in S
        BY <1>1, <1>9
    <2>2. TypeOf[q[i]] \in Nat /\ TypeOf[q[j]] \in Nat
        BY <2>1, FamiliesAre
    <2>3. CASE i = j
        BY <2>2, <2>3 DEF ByType, q
    <2>4. CASE i # j
        <3>1. i < j
            BY <1>9, <1>10, <2>4
        <3>2. q[i] \in b[q[j]]
            BY <1>9, <3>1
        <3>3. IF ascending THEN FamilyOrder(q[i], q[j]) ELSE FamilyOrder(q[j], q[i])
            BY <1>6, <2>1, <3>2
        <3> QED
            BY <2>2, <3>3 DEF FamilyOrder, ByType, q
    <2> QED
        BY <2>3, <2>4
<1> QED
    BY <1>1, <1>9, <1>10 DEF S, q

\* What the grid shows of its i-th family: a banner where the class changes, and rows.
HasBanner(i) == i = 1 \/ TypeOf[Fams[i - 1]] # TypeOf[Fams[i]]
\* The banner above a family that begins a type, and all the rows of a family.
Lead(i) == IF HasBanner(i) THEN <<BannerRow(TypeOf[Fams[i]])>> ELSE << >>
FamilyRows == [i \in DOMAIN Fams |-> Lead(i) \o DataRows[Fams[i]]]

\* The rows of a family begin behind base[i].
BannerAt(base, i) == GridRows[base[i]] = BannerRow(TypeOf[Fams[i]])
\* Where the rows of a family are in the grid.
DataAt(base, p, i, k) ==
    /\ p = base[i] + k /\ p \in DOMAIN GridRows
    /\ GridRows[p] = [banner |-> None, cells |-> CellsAt(Fams[i], k)]
GridAt(base) ==
    /\ base \in [1..Len(Fams) -> Nat]
    /\ \A p \in DOMAIN GridRows : \E i \in 1..Len(Fams) :
          \/ HasBanner(i) /\ p = base[i] /\ BannerAt(base, i)
          \/ \E k \in 1..Len(DataRows[Fams[i]]) : DataAt(base, p, i, k)
    /\ \A i \in 1..Len(Fams) : \A k \in 1..Len(DataRows[Fams[i]]) : DataAt(base, base[i] + k, i, k)
    /\ \A i, j \in 1..Len(Fams) : \A k \in 1..Len(DataRows[Fams[i]]), l \in 1..Len(DataRows[Fams[j]]) :
          base[i] + k = base[j] + l => i = j /\ k = l
    /\ DOMAIN GridRows \subseteq Nat

\* The grid is the rows of its families.
LEMMA GridIs ==
    GridRows = FlattenSeq(FamilyRows)
<1> DEFINE Order(a, b) == IF ascending THEN FamilyOrder(a, b) ELSE FamilyOrder(b, a)
           fams == Sorted({f \in Families : Survives(f, found, ownership, query)}, Order)
<1>1. fams = Fams
    BY DEF Sorted, Fams, FamsBefore, Surviving
<1> QED
    BY <1>1 DEF GridRows, DisplayRows, FamilyRows, Lead, HasBanner

\* One family.
LEMMA FamilyRowsAre ==
    ASSUME ascending \in BOOLEAN, NEW i \in 1..Len(Fams)
    PROVE  LET d == DataRows[Fams[i]]
               r == FamilyRows[i]
               n == IF HasBanner(i) THEN 1 ELSE 0
           IN  /\ r \in Seq(GridRowType) /\ Len(d) \in Nat /\ Len(r) = n + Len(d)
               /\ HasBanner(i) => r[1] = BannerRow(TypeOf[Fams[i]])
               /\ \A k \in 1..Len(d) : r[n + k] = [banner |-> None, cells |-> CellsAt(Fams[i], k)]
<1> DEFINE d == DataRows[Fams[i]]
           r == FamilyRows[i]
           e == BannerRow(TypeOf[Fams[i]])
           T == GridRowType
<1>1. Fams[i] \in Families /\ i \in DOMAIN Fams
    BY FamsAre
<1>2. /\ d \in Seq(T) /\ Len(d) \in Nat
      /\ \A k \in 1..Len(d) : d[k] = [banner |-> None, cells |-> CellsAt(Fams[i], k)]
    BY <1>1, DataRowsAre
<1>3. e \in T
    <2>1. TypeOf[Fams[i]] \in Nat
        BY <1>1, FamiliesAre
    <2> QED
        BY <2>1 DEF BannerRow, GridRowType
<1>4. r = (IF HasBanner(i) THEN <<e>> ELSE << >>) \o d
    BY <1>1 DEF FamilyRows, Lead
<1> HIDE DEF d, r, e, T
<1>5. CASE HasBanner(i)
    <2>1. r = <<e>> \o d
        BY <1>4, <1>5
    <2>2. /\ <<e>> \o d \in Seq(T) /\ Len(<<e>> \o d) = 1 + Len(d)
          /\ (<<e>> \o d)[1] = e /\ \A k \in 1..Len(d) : (<<e>> \o d)[1 + k] = d[k]
        BY <1>2, <1>3, PartIs
    <2> QED
        BY <1>2, <1>5, <2>1, <2>2 DEF d, r, e, T
<1>6. CASE ~ HasBanner(i)
    <2>1. r = << >> \o d
        BY <1>4, <1>6
    <2>2. r = d
        BY <1>2, <2>1
    <2>3. \A k \in 1..Len(d) : 0 + k = k
        OBVIOUS
    <2> QED
        BY <1>2, <1>6, <2>2, <2>3 DEF d, r, T
<1> QED
    BY <1>5, <1>6

\* Each row of each family is in the grid, once.
LEMMA GridLaid ==
    ASSUME ascending \in BOOLEAN
    PROVE  \E base : GridAt(base)
<1> DEFINE n == Len(Fams)
           ss == FamilyRows
           q == GridRows
           lead == [i \in 1..n |-> IF HasBanner(i) THEN 1 ELSE 0]
           size == [i \in 1..n |-> Len(DataRows[Fams[i]])]
<1>1. n \in Nat /\ DOMAIN Fams = 1..n
    BY FamsAre
<1>2. ASSUME NEW i \in 1..n
      PROVE  /\ ss[i] \in Seq(GridRowType) /\ size[i] \in Nat /\ Len(ss[i]) = lead[i] + size[i]
             /\ HasBanner(i) => ss[i][1] = BannerRow(TypeOf[Fams[i]])
             /\ \A k \in 1..size[i] : ss[i][lead[i] + k] = [banner |-> None, cells |-> CellsAt(Fams[i], k)]
    BY FamilyRowsAre
<1>3. \A i \in 1..n : lead[i] \in {0, 1} /\ (lead[i] = 1 <=> HasBanner(i))
    OBVIOUS
<1>4. \A i \in 1..n : size[i] = Len(DataRows[Fams[i]])
    OBVIOUS
<1>5. ss \in [1..n -> Seq(GridRowType)]
    <2>1. DOMAIN ss = 1..n /\ ss = [i \in 1..n |-> ss[i]]
        BY <1>1 DEF FamilyRows
    <2> HIDE DEF ss
    <2> QED
        BY <1>2, <2>1
<1>6. q = FlattenSeq(ss)
    BY GridIs
<1> HIDE DEF n, ss, q, lead, size
<1>7. q \in Seq(GridRowType) /\ \E o : Laid(q, ss, n, o)
    BY <1>1, <1>5, <1>6, Flattened
<1>8. PICK off : Laid(q, ss, n, off)
    BY <1>7
<1>9. DOMAIN q = 1..Len(q) /\ Len(q) \in Nat
    BY <1>7, LenProperties
<1>10. /\ off \in [0..n -> Nat]
       /\ \A i \in 1..n : \A k \in 1..Len(ss[i]) : off[i - 1] + k \in 1..Len(q) /\ q[off[i - 1] + k] = ss[i][k]
       /\ \A p \in 1..Len(q) : \E i \in 1..n : \E k \in 1..Len(ss[i]) : p = off[i - 1] + k
    BY <1>8 DEF Laid
<1>11. Apart(ss, n, off)
    <2>1. Parts(ss, n)
        BY <1>2, <1>3 DEF Parts
    <2> QED
        BY <1>1, <1>8, <2>1, LaidOnce
<1> DEFINE base == [i \in 1..n |-> off[i - 1] + lead[i]]
<1>12. \A i \in 1..n : base[i] = off[i - 1] + lead[i] /\ off[i - 1] \in Nat /\ base[i] \in Nat
    <2> TAKE i \in 1..n
    <2>1. base[i] = off[i - 1] + lead[i]
        OBVIOUS
    <2> HIDE DEF base
    <2>2. i - 1 \in 0..n /\ lead[i] \in {0, 1}
        BY <1>1, <1>3
    <2>3. off[i - 1] \in Nat
        BY <1>10, <2>2
    <2> QED
        BY <2>1, <2>2, <2>3
<1>13. base \in [1..n -> Nat]
    BY <1>12
<1> HIDE DEF base
\* The k-th row of a family.
<1>14. ASSUME NEW i \in 1..n, NEW k \in 1..size[i]
       PROVE  /\ DataAt(base, base[i] + k, i, k) /\ base[i] + k = off[i - 1] + (lead[i] + k)
              /\ lead[i] + k \in 1..Len(ss[i])
    <2>1. size[i] \in Nat /\ Len(ss[i]) = lead[i] + size[i] /\ lead[i] \in {0, 1}
        BY <1>2, <1>3
    <2>2. lead[i] + k \in 1..Len(ss[i])
        BY <2>1
    <2>3. base[i] + k = off[i - 1] + (lead[i] + k)
        <3>1. base[i] = off[i - 1] + lead[i] /\ off[i - 1] \in Int /\ lead[i] \in Int /\ k \in Int
            BY <1>12, <2>1
        <3> QED
            BY <3>1
    <2> DEFINE l == lead[i] + k
    <2>4. l \in 1..Len(ss[i]) /\ base[i] + k = off[i - 1] + l
        BY <2>2, <2>3
    <2>5. ss[i][l] = [banner |-> None, cells |-> CellsAt(Fams[i], k)]
        BY <1>2
    <2> HIDE DEF l
    <2>6. off[i - 1] + l \in 1..Len(q) /\ q[off[i - 1] + l] = ss[i][l]
        BY <1>10, <2>4
    <2> QED
        BY <1>9, <2>2, <2>3, <2>4, <2>5, <2>6 DEF DataAt, q
<1>15. ASSUME NEW p \in 1..Len(q)
       PROVE  \E i \in 1..n :
                 \/ HasBanner(i) /\ p = base[i] /\ BannerAt(base, i)
                 \/ \E k \in 1..size[i] : DataAt(base, p, i, k)
    <2>1. PICK i \in 1..n : \E k \in 1..Len(ss[i]) : p = off[i - 1] + k
        BY <1>10
    <2>2. PICK k \in 1..Len(ss[i]) : p = off[i - 1] + k
        BY <2>1
    <2>3. size[i] \in Nat /\ Len(ss[i]) = lead[i] + size[i] /\ lead[i] \in {0, 1}
        BY <1>2, <1>3
    <2>4. CASE k <= lead[i]
        <3>1. k = 1 /\ lead[i] = 1
            BY <2>3, <2>4
        <3>2. HasBanner(i)
            BY <1>3, <3>1
        <3>3. p = base[i]
            BY <1>12, <2>2, <3>1
        <3>4. q[p] = BannerRow(TypeOf[Fams[i]])
            BY <1>2, <1>10, <2>2, <3>1, <3>2
        <3> QED
            BY <3>2, <3>3, <3>4 DEF BannerAt, q
    <2>5. CASE ~ (k <= lead[i])
        <3> DEFINE l == k - lead[i]
        <3>1. l \in 1..size[i] /\ k = lead[i] + l
            BY <2>3, <2>5
        <3>2. p = base[i] + l
            <4>1. base[i] = off[i - 1] + lead[i] /\ off[i - 1] \in Int /\ lead[i] \in Int /\ k \in Int
                BY <1>12, <2>3
            <4> QED
                BY <2>2, <4>1
        <3> HIDE DEF l
        <3>3. DataAt(base, base[i] + l, i, l)
            BY <1>14, <3>1
        <3> QED
            BY <3>1, <3>2, <3>3
    <2> QED
        BY <2>4, <2>5
<1>16. ASSUME NEW i \in 1..n, NEW j \in 1..n, NEW k \in 1..size[i], NEW l \in 1..size[j],
              base[i] + k = base[j] + l
       PROVE  i = j /\ k = l
    <2> DEFINE a == lead[i] + k
               b == lead[j] + l
    <2>1. a \in 1..Len(ss[i]) /\ b \in 1..Len(ss[j]) /\ off[i - 1] + a = off[j - 1] + b
        BY <1>14, <1>16
    <2> HIDE DEF a, b
    <2>2. i = j /\ a = b
        BY <1>11, <2>1 DEF Apart
    <2>3. lead[i] \in {0, 1}
        BY <1>3
    <2> QED
        BY <2>2, <2>3 DEF a, b
<1>17. GridAt(base)
    <2>1. \A p \in DOMAIN GridRows : \E i \in 1..Len(Fams) :
             \/ HasBanner(i) /\ p = base[i] /\ BannerAt(base, i)
             \/ \E k \in 1..Len(DataRows[Fams[i]]) : DataAt(base, p, i, k)
        BY <1>4, <1>9, <1>15 DEF n, q
    <2>2. \A i \in 1..Len(Fams) : \A k \in 1..Len(DataRows[Fams[i]]) : DataAt(base, base[i] + k, i, k)
        BY <1>4, <1>14 DEF n
    <2>3. \A i, j \in 1..Len(Fams) :
             \A k \in 1..Len(DataRows[Fams[i]]), l \in 1..Len(DataRows[Fams[j]]) :
                base[i] + k = base[j] + l => i = j /\ k = l
        BY <1>4, <1>16 DEF n
    <2>4. base \in [1..Len(Fams) -> Nat] /\ DOMAIN GridRows \subseteq Nat
        BY <1>9, <1>13 DEF n, q
    <2> QED
        BY <2>1, <2>2, <2>3, <2>4 DEF GridAt
<1> QED
    BY <1>17

\* The cells that show a unique, and where in its family it is.
CellsOf(u) == {c \in (DOMAIN GridRows) \X Tiers :
                  IsData(GridRows[c[1]]) /\ GridRows[c[1]].cells[c[2]] = u.id}
PlaceOf(u, i, k) ==
    /\ i \in 1..Len(Fams) /\ k \in 1..Len(DataRows[Fams[i]]) /\ Fams[i] = FamilyOf(u)
    /\ k \in 1..Len(Bucket(Fams[i], Column(u))) /\ Bucket(Fams[i], Column(u))[k] = u

\* A banner is no data.
LEMMA BannersAre ==
    ASSUME NEW fam \in Families
    PROVE  ~ IsData(BannerRow(TypeOf[fam]))
<1>1. TypeOf[fam] # None
    BY FamiliesAre
<1> QED
    BY <1>1 DEF IsData, BannerRow

\* A cell is in the rows of its family.
LEMMA CellsAre ==
    ASSUME ascending \in BOOLEAN, NEW base, GridAt(base), NEW u \in Uniques, NEW c \in CellsOf(u)
    PROVE  \E i, k : PlaceOf(u, i, k) /\ c = <<base[i] + k, Column(u)>>
<1> DEFINE p == c[1]
           t == c[2]
<1>1. p \in DOMAIN GridRows /\ t \in Tiers /\ c = <<p, t>> /\ IsData(GridRows[p]) /\ GridRows[p].cells[t] = u.id
    BY DEF CellsOf
<1> HIDE DEF p, t
<1>2. PICK i \in 1..Len(Fams) :
          \/ HasBanner(i) /\ p = base[i] /\ BannerAt(base, i)
          \/ \E k \in 1..Len(DataRows[Fams[i]]) : DataAt(base, p, i, k)
    BY <1>1 DEF GridAt
<1>3. Fams[i] \in Families
    BY FamsAre
<1>4. ~ BannerAt(base, i) \/ p # base[i]
    BY <1>1, <1>3, BannersAre DEF BannerAt
<1>5. PICK k \in 1..Len(DataRows[Fams[i]]) : DataAt(base, p, i, k)
    BY <1>2, <1>4
<1> DEFINE q == Bucket(Fams[i], t)
           B == {v \in Members[Fams[i]] : Column(v) = t}
<1>6. p = base[i] + k /\ GridRows[p].cells = CellsAt(Fams[i], k)
    BY <1>5 DEF DataAt
<1>7. u.id = IF k <= Len(q) THEN q[k].id ELSE None
    BY <1>1, <1>6 DEF CellsAt
<1>8. u.id # None
    BY UniquesAre DEF IsUnique
<1>9. Len(q) \in Nat /\ \A l \in 1..Len(q) : q[l] \in B
    BY <1>3, BucketIs
<1>10. B \subseteq Uniques /\ \A v \in B : Column(v) = t /\ FamilyOf(v) = Fams[i]
    BY <1>3, FamiliesAre
<1> HIDE DEF q, B
<1>11. k \in 1..Len(q) /\ u.id = q[k].id
    <2>1. Len(DataRows[Fams[i]]) \in Nat
        BY <1>3, DataRowsAre
    <2> QED
        BY <1>7, <1>8, <1>9, <2>1
<1>12. q[k] = u
    BY <1>9, <1>10, <1>11, UniquesAre
<1>13. Column(u) = t /\ FamilyOf(u) = Fams[i]
    BY <1>9, <1>10, <1>11, <1>12
<1> QED
    BY <1>1, <1>6, <1>11, <1>12, <1>13 DEF PlaceOf, q

\* A unique has one place.
LEMMA PlaceIsOne ==
    ASSUME ascending \in BOOLEAN, NEW u \in Uniques, NEW i, NEW k, NEW j, NEW l,
           PlaceOf(u, i, k), PlaceOf(u, j, l)
    PROVE  i = j /\ k = l
<1>1. i = j
    BY FamsAre DEF PlaceOf
<1> DEFINE t == Column(u)
           q == Bucket(Fams[i], t)
<1>2. Fams[i] \in Families
    BY FamsAre DEF PlaceOf
<1>3. \A a, b \in 1..Len(q) : q[a] = q[b] => a = b
    BY <1>2, BucketIs
<1>4. k \in 1..Len(q) /\ l \in 1..Len(q) /\ q[k] = u /\ q[l] = u
    BY <1>1 DEF PlaceOf
<1> HIDE DEF q
<1> QED
    BY <1>1, <1>3, <1>4

\* A unique whose family is shown has a cell.
LEMMA CellIs ==
    ASSUME ascending \in BOOLEAN, NEW base, GridAt(base), NEW u \in Uniques, FamilyOf(u) \in Surviving
    PROVE  \E i, k : PlaceOf(u, i, k) /\ CellsOf(u) = {<<base[i] + k, Column(u)>>}
<1> DEFINE fam == FamilyOf(u)
           t == Column(u)
           q == Bucket(fam, t)
           B == {v \in Members[fam] : Column(v) = t}
<1>1. fam \in Families /\ u \in B /\ t \in Tiers
    BY ColumnsAre
<1>2. Len(q) \in Nat /\ \A v \in B : \E k \in 1..Len(q) : q[k] = v
    BY <1>1, BucketIs
<1>3. PICK k \in 1..Len(q) : q[k] = u
    BY <1>1, <1>2
<1>4. Len(q) <= Len(DataRows[fam]) /\ Len(DataRows[fam]) \in Nat
    BY <1>1, DataRowsAre
<1>5. k \in 1..Len(DataRows[fam])
    BY <1>2, <1>4
<1>6. PICK i \in 1..Len(Fams) : Fams[i] = fam
    BY FamsAre
<1>7. PlaceOf(u, i, k)
    BY <1>3, <1>5, <1>6 DEF PlaceOf
<1> DEFINE p == base[i] + k
<1>8. p \in DOMAIN GridRows /\ GridRows[p] = [banner |-> None, cells |-> CellsAt(fam, k)]
    <2>1. DataAt(base, p, i, k)
        BY <1>5, <1>6 DEF GridAt
    <2> QED
        BY <1>6, <2>1 DEF DataAt
<1>9. CellsAt(fam, k)[t] = u.id
    <2>1. k <= Len(q)
        BY <1>2
    <2> QED
        BY <1>1, <1>3, <2>1 DEF CellsAt
<1>10. <<p, t>> \in CellsOf(u)
    <2>1. <<p, t>> \in (DOMAIN GridRows) \X Tiers
        BY <1>1, <1>8
    <2>2. IsData(GridRows[p]) /\ GridRows[p].cells[t] = u.id
        BY <1>8, <1>9 DEF IsData
    <2> HIDE DEF p, t
    <2> QED
        BY <2>1, <2>2 DEF CellsOf
<1>11. ASSUME NEW c \in CellsOf(u) PROVE c = <<p, t>>
    <2>1. PICK j, l : PlaceOf(u, j, l) /\ c = <<base[j] + l, t>>
        BY CellsAre
    <2>2. j = i /\ l = k
        BY <1>7, <2>1, PlaceIsOne
    <2> QED
        BY <2>1, <2>2
<1>12. CellsOf(u) = {<<p, t>>}
    <2> HIDE DEF p, t
    <2> QED
        BY <1>10, <1>11
<1> QED
    BY <1>7, <1>12

\* Members of a family that pass keep it in the grid; what has no tier is alone.
LEMMA FamilyStays ==
    ASSUME NEW u \in Uniques
    PROVE  /\ u \in FilterForLeaf(found, ownership, query) => FamilyOf(u) \in Surviving
           /\ u.tier = None /\ FamilyOf(u) \in Surviving => u \in FilterForLeaf(found, ownership, query)
<1> DEFINE fam == FamilyOf(u)
<1>1. fam \in Families /\ u \in Members[fam]
    BY ColumnsAre
<1>2. u \in FilterForLeaf(found, ownership, query) => fam \in Surviving
    BY <1>1 DEF FilterForLeaf, Surviving, Survives
<1>3. ASSUME u.tier = None, fam \in Surviving PROVE u \in FilterForLeaf(found, ownership, query)
    <2>1. PICK v \in Members[fam] : Passes(v, found, ownership, query)
        BY <1>3 DEF Surviving, Survives
    <2>2. v \in Uniques /\ FamilyOf(v) = fam
        BY <1>1, <2>1, FamiliesAre
    <2>3. fam.misc /\ fam.key = u.id
        BY <1>3, ColumnsAre
    <2>4. fam.key = v.id
        BY <2>2, <2>3, ColumnsAre
    <2>5. v = u
        BY <2>2, <2>3, <2>4, UniquesAre
    <2> QED
        BY <2>1, <2>5 DEF FilterForLeaf
<1> QED
    BY <1>2, <1>3

\* Each class has one banner.
LEMMA BannersDiffer ==
    ASSUME ascending \in BOOLEAN, NEW base, GridAt(base),
           NEW p \in DOMAIN GridRows, NEW r \in DOMAIN GridRows,
           ~ IsData(GridRows[p]), ~ IsData(GridRows[r]), GridRows[p] = GridRows[r]
    PROVE  p = r
<1>1. ASSUME NEW s \in DOMAIN GridRows, ~ IsData(GridRows[s])
      PROVE  \E i \in 1..Len(Fams) : HasBanner(i) /\ s = base[i] /\ GridRows[s] = BannerRow(TypeOf[Fams[i]])
    <2>1. PICK i \in 1..Len(Fams) :
              \/ HasBanner(i) /\ s = base[i] /\ BannerAt(base, i)
              \/ \E k \in 1..Len(DataRows[Fams[i]]) : DataAt(base, s, i, k)
        BY DEF GridAt
    <2>2. \A k : ~ DataAt(base, s, i, k)
        BY <1>1 DEF DataAt, IsData
    <2> QED
        BY <2>1, <2>2 DEF BannerAt
<1>2. PICK i \in 1..Len(Fams) : HasBanner(i) /\ p = base[i] /\ GridRows[p] = BannerRow(TypeOf[Fams[i]])
    BY <1>1
<1>3. PICK j \in 1..Len(Fams) : HasBanner(j) /\ r = base[j] /\ GridRows[r] = BannerRow(TypeOf[Fams[j]])
    BY <1>1
<1>4. TypeOf[Fams[i]] = TypeOf[Fams[j]]
    BY <1>2, <1>3 DEF BannerRow
<1>5. ASSUME NEW a \in 1..Len(Fams), NEW b \in 1..Len(Fams), a < b, HasBanner(b),
             TypeOf[Fams[a]] = TypeOf[Fams[b]]
      PROVE  FALSE
    <2> DEFINE m == b - 1
    <2>1. Len(Fams) \in Nat
        BY FamsAre
    <2>2. m \in 1..Len(Fams) /\ a <= m /\ m <= b /\ b # 1
        BY <1>5, <2>1
    <2>3. TypeOf[Fams[m]] # TypeOf[Fams[b]]
        BY <1>5, <2>2 DEF HasBanner
    <2> HIDE DEF m
    <2>4. ByType(a, m) /\ ByType(m, b)
        BY <2>2, FamsAre
    <2>5. \A x \in 1..Len(Fams) : TypeOf[Fams[x]] \in Nat
        BY FamsAre, FamiliesAre
    <2>6. TypeOf[Fams[a]] \in Nat /\ TypeOf[Fams[m]] \in Nat /\ TypeOf[Fams[b]] \in Nat
        BY <2>2, <2>5
    <2> QED
        BY <1>5, <2>3, <2>4, <2>6 DEF ByType
<1>6. i = j
    <2>1. ~ (i < j) /\ ~ (j < i)
        BY <1>2, <1>3, <1>4, <1>5
    <2>2. Len(Fams) \in Nat
        BY FamsAre
    <2> QED
        BY <2>1, <2>2
<1> QED
    BY <1>2, <1>3, <1>6

\* A family is listed by name.
LEMMA FamilyByName ==
    ASSUME ascending \in BOOLEAN, NEW base, GridAt(base), NEW u \in Uniques, NEW v \in Uniques,
           Column(u) = Column(v), FamilyOf(u) = FamilyOf(v), u.id < v.id,
           NEW c \in CellsOf(u), NEW d \in CellsOf(v)
    PROVE  c[1] < d[1]
<1>1. PICK i, k : PlaceOf(u, i, k) /\ c = <<base[i] + k, Column(u)>>
    BY CellsAre
<1>2. PICK j, l : PlaceOf(v, j, l) /\ d = <<base[j] + l, Column(v)>>
    BY CellsAre
<1>3. i = j /\ i \in 1..Len(Fams)
    BY <1>1, <1>2, FamsAre DEF PlaceOf
<1> DEFINE t == Column(u)
           q == Bucket(Fams[i], t)
<1>4. Fams[i] \in Families /\ base[i] \in Nat
    BY <1>3, FamsAre DEF GridAt
<1>5. Len(q) \in Nat /\ \A a, b \in 1..Len(q) : a < b <=> q[a].id < q[b].id
    BY <1>4, BucketIs
<1>6. k \in 1..Len(q) /\ l \in 1..Len(q) /\ q[k] = u /\ q[l] = v
    BY <1>1, <1>2, <1>3 DEF PlaceOf
<1>7. c[1] = base[i] + k /\ d[1] = base[i] + l
    BY <1>1, <1>2, <1>3
<1> HIDE DEF q
<1>8. k < l
    BY <1>5, <1>6
<1> QED
    BY <1>4, <1>5, <1>6, <1>7, <1>8

\* For every set of uniques, in both orders and whatever is found: each unique that passes the
\* filter has one cell of the grid, in the column of its tier, in order within its family; one
\* without a tier appears only if it passes itself; each class has one banner
\* (renderChronicleByTier).
THEOREM GridIsComplete == Spec => []GridComplete
<1>1. ASSUME Inv PROVE GridComplete
    <2> DEFINE passing == FilterForLeaf(found, ownership, query)
               Rows(u) == {c[1] : c \in CellsOf(u)}
               banners == {i \in DOMAIN GridRows : ~ IsData(GridRows[i])}
    <2>1. ascending \in BOOLEAN
        BY <1>1 DEF Inv, KeysOK
    <2>2. PICK base : GridAt(base)
        BY <2>1, GridLaid
    <2>3. ASSUME NEW u \in Uniques, u.tier = None, CellsOf(u) # {} PROVE u \in passing
        <3>1. PICK c \in CellsOf(u) : TRUE
            BY <2>3
        <3>2. PICK i, k : PlaceOf(u, i, k)
            BY <2>1, <2>2, <3>1, CellsAre
        <3>3. FamilyOf(u) \in Surviving
            BY <2>1, <3>2, FamsAre DEF PlaceOf
        <3> QED
            BY <2>3, <3>3, FamilyStays
    <2>4. ASSUME NEW u \in passing
          PROVE  \E i \in DOMAIN GridRows : CellsOf(u) = {<<i, Column(u)>>}
        <3>1. u \in Uniques
            BY DEF FilterForLeaf
        <3>2. FamilyOf(u) \in Surviving
            BY <3>1, FamilyStays
        <3>3. PICK i, k : PlaceOf(u, i, k) /\ CellsOf(u) = {<<base[i] + k, Column(u)>>}
            BY <2>1, <2>2, <3>1, <3>2, CellIs
        <3> DEFINE p == base[i] + k
        <3>4. <<p, Column(u)>> \in CellsOf(u)
            BY <3>3
        <3> HIDE DEF p
        <3>5. p \in DOMAIN GridRows
            BY <3>4 DEF CellsOf
        <3> QED
            BY <3>3, <3>5 DEF p
    <2>5. \A i, j \in banners : GridRows[i] = GridRows[j] => i = j
        BY <2>1, <2>2, BannersDiffer
    <2>6. ASSUME NEW u \in Uniques, NEW v \in Uniques, Column(u) = Column(v), u.id < v.id,
                 FamilyOf(u) = FamilyOf(v), NEW i \in Rows(u), NEW j \in Rows(v)
          PROVE  i < j
        <3>1. PICK c \in CellsOf(u) : i = c[1]
            OBVIOUS
        <3>2. PICK d \in CellsOf(v) : j = d[1]
            OBVIOUS
        <3>3. c[1] < d[1]
            BY <2>1, <2>2, <2>6, FamilyByName
        <3> QED
            BY <3>1, <3>2, <3>3
    <2>7. \A u \in Uniques : CellsIn(GridRows, u) = CellsOf(u)
        BY DEF CellsIn, CellsOf
    <2>8. passing \subseteq Uniques
        BY DEF FilterForLeaf
    <2> HIDE DEF passing
    <2>9. EachHasItsCell(GridRows, passing)
        BY <2>3, <2>4, <2>5, <2>6, <2>7, <2>8 DEF EachHasItsCell
    <2> QED
        BY <2>9 DEF GridComplete, passing
<1> QED
    BY <1>1, Invariance, PTL

-----------------------------------------------------------------------------
(***************************************************************************)
(* The runs of a session                                                   *)
(***************************************************************************)

\* A row of some history, the exits of a session and the saves after them.
EventType == [file : BackupFiles, index : Nat, date : 1..MaxDate]
EventOf(f, i) == [file |-> f, index |-> i, date |-> hists[f][i].date]
Exits(from, to) == RowsIn(CharacterHists, {"SaveAndExit"}, from, to)
Tails(from, to) == RowsIn(CharacterHists, Autosaves, from, to)

\* Rows of the window, one for each place in a history.
EventsOf(R, from, to) ==
    /\ IsFiniteSet(R) /\ R \subseteq EventType
    /\ \A e \in R : from <= e.date /\ (to = 0 \/ e.date <= to)
    /\ \A a, b \in R : a.file = b.file /\ a.index = b.index => a = b

\* They are rows of the characters within the session.
LEMMA RowsInAre ==
    ASSUME Inv, NEW states, NEW from \in Nat, NEW to \in Nat
    PROVE  EventsOf(RowsIn(CharacterHists, states, from, to), from, to)
<1> DEFINE At(f) == {j \in DOMAIN hists[f] : hists[f][j].state \in states /\ InWindow(hists[f][j], from, to)}
           Of(f) == {EventOf(f, i) : i \in At(f)}
           R == RowsIn(CharacterHists, states, from, to)
           of == [f \in BackupFiles |-> Of(f)]
           P == {of[f] : f \in BackupFiles}
<1>1. DOMAIN CharacterHists = BackupFiles /\ \A f \in BackupFiles : CharacterHists[f] = hists[f]
    BY DEF CharacterHists, Restrict
<1>2. R = UNION {Of(f) : f \in BackupFiles}
    <2>1. \A f \in BackupFiles :
             {[file |-> f, index |-> i, date |-> CharacterHists[f][i].date] :
                i \in {j \in DOMAIN CharacterHists[f] :
                          CharacterHists[f][j].state \in states /\ InWindow(CharacterHists[f][j], from, to)}} = Of(f)
        BY <1>1 DEF EventOf
    <2> HIDE DEF Of
    <2> QED
        BY <1>1, <2>1 DEF RowsIn
<1>3. ASSUME NEW f \in BackupFiles
      PROVE  /\ DOMAIN hists[f] = 1..Len(hists[f]) /\ Len(hists[f]) \in Nat
             /\ \A i \in DOMAIN hists[f] : hists[f][i].date \in 1..MaxDate
    <2>1. History(hists[f])
        BY FilesAre DEF Inv, HistsOK
    <2>2. hists[f] \in Seq(HistRow)
        BY <2>1 DEF History
    <2>3. DOMAIN hists[f] = 1..Len(hists[f]) /\ Len(hists[f]) \in Nat
        BY <2>2, LenProperties
    <2>4. \A i \in DOMAIN hists[f] : hists[f][i] \in HistRow
        BY <2>2, <2>3, ElementOfSeq
    <2> QED
        BY <2>3, <2>4 DEF HistRow
<1>4. ASSUME NEW f \in BackupFiles PROVE IsFiniteSet(Of(f))
    <2> DEFINE g == [i \in At(f) |-> EventOf(f, i)]
               n == Len(hists[f])
               A == At(f)
               S == Of(f)
    <2>1. A \subseteq 1..n /\ n \in Nat
        BY <1>3
    <2>2. IsFiniteSet(1..n)
        BY <2>1, FS_Interval
    <2>3. g \in Surjection(A, S)
        BY DEF Surjection
    <2> HIDE DEF A, S, g, n
    <2>4. IsFiniteSet(A)
        BY <2>1, <2>2, FS_Subset
    <2>5. IsFiniteSet(S)
        BY <2>3, <2>4, FS_Surjection
    <2> QED
        BY <2>5 DEF S
<1>5. IsFiniteSet(R)
    <2>1. of \in Surjection(BackupFiles, P)
        BY DEF Surjection
    <2>2. IsFiniteSet(BackupFiles)
        BY FilesAre, FS_Subset
    <2>3. R = UNION P
        <3>1. \A f \in BackupFiles : of[f] = Of(f)
            OBVIOUS
        <3> HIDE DEF Of, of
        <3> QED
            BY <1>2, <3>1
    <2>4. \A p \in P : IsFiniteSet(p)
        <3>1. \A f \in BackupFiles : of[f] = Of(f)
            OBVIOUS
        <3> HIDE DEF Of, of
        <3> QED
            BY <1>4, <3>1
    <2> HIDE DEF P, R, of
    <2>5. IsFiniteSet(P)
        BY <2>1, <2>2, FS_Surjection
    <2> QED
        BY <2>3, <2>4, <2>5, FS_UNION
<1>6. ASSUME NEW e \in R
      PROVE  /\ e \in EventType /\ from <= e.date /\ (to = 0 \/ e.date <= to)
             /\ e = EventOf(e.file, e.index)
    <2>1. PICK f \in BackupFiles : e \in Of(f)
        BY <1>2
    <2>2. PICK i \in At(f) : e = EventOf(f, i)
        BY <2>1
    <2>3. hists[f][i].date \in 1..MaxDate /\ i \in Nat
        BY <1>3
    <2>4. InWindow(hists[f][i], from, to)
        OBVIOUS
    <2>5. e.file = f /\ e.index = i /\ e.date = hists[f][i].date
        BY <2>2 DEF EventOf
    <2> QED
        BY <2>2, <2>3, <2>4, <2>5 DEF EventType, EventOf, InWindow
<1> HIDE DEF R
<1>7. EventsOf(R, from, to)
    BY <1>5, <1>6 DEF EventsOf
<1> QED
    BY <1>7 DEF R

\* The timeline of events.
InTime(q, R) ==
    /\ q \in Seq(EventType) /\ Len(q) \in Nat
    /\ \A i \in 1..Len(q) : q[i] \in R
    /\ \A e \in R : \E i \in 1..Len(q) : q[i] = e
    /\ \A i, j \in 1..Len(q) : q[i] = q[j] => i = j
    /\ \A i, j \in 1..Len(q) : i <= j => q[i].date <= q[j].date

\* Sorted they are in order of time.
LEMMA EventsInTime ==
    ASSUME NEW R, NEW from, NEW to, EventsOf(R, from, to), MaxDate \in Nat
    PROVE  InTime(Sorted(R, EventOrder), R)
<1> DEFINE b == [x \in R |-> {y \in R : EventOrder(y, x)}]
           q == Sorted(R, EventOrder)
<1>1. IsFiniteSet(R) /\ R \subseteq EventType
    BY DEF EventsOf
<1>2. \A e \in R : e.date \in Nat /\ e.file \in Nat /\ e.index \in Nat
    <2> TAKE e \in R
    <2>1. BackupFiles \subseteq Nat
        BY FilesAre
    <2>2. e \in EventType
        BY <1>1
    <2>3. e.file \in BackupFiles /\ e.index \in Nat /\ e.date \in 1..MaxDate
        BY <2>2 DEF EventType
    <2>4. \A d \in 1..MaxDate : d \in Nat
        OBVIOUS
    <2>5. e.date \in Nat
        BY <2>3, <2>4
    <2>6. e.file \in Nat
        BY <2>1, <2>3
    <2> QED
        BY <2>3, <2>5, <2>6
<1>3. \A x, y \in R : x # y => x.file # y.file \/ x.index # y.index
    BY DEF EventsOf
<1>4. b \in [R -> SUBSET R] /\ \A x, y \in R : y \in b[x] <=> EventOrder(y, x)
    OBVIOUS
<1>5. q = InOrder(R, b)
    BY DEF Sorted
<1> HIDE DEF b, q
<1>6. IsOrder(b, R)
    <2>1. \A x \in R : x \notin b[x]
        BY <1>2, <1>4 DEF EventOrder
    <2>2. ASSUME NEW x \in R, NEW y \in R, y \in b[x] PROVE b[y] \subseteq b[x]
        <3> SUFFICES ASSUME NEW z \in b[y] PROVE z \in b[x]
            OBVIOUS
        <3>1. z \in R
            BY <1>4
        <3>2. EventOrder(z, y) /\ EventOrder(y, x)
            BY <1>4, <2>2, <3>1
        <3>3. /\ x.date \in Nat /\ x.file \in Nat /\ x.index \in Nat
              /\ y.date \in Nat /\ y.file \in Nat /\ y.index \in Nat
              /\ z.date \in Nat /\ z.file \in Nat /\ z.index \in Nat
            BY <1>2, <3>1
        <3>4. EventOrder(z, x)
            BY <3>2, <3>3 DEF EventOrder
        <3> QED
            BY <1>4, <3>1, <3>4
    <2>3. ASSUME NEW x \in R, NEW y \in R, x # y PROVE x \in b[y] \/ y \in b[x]
        <3>1. /\ x.date \in Nat /\ x.file \in Nat /\ x.index \in Nat
              /\ y.date \in Nat /\ y.file \in Nat /\ y.index \in Nat
            BY <1>2
        <3>2. x.file # y.file \/ x.index # y.index
            BY <1>3, <2>3
        <3>3. EventOrder(x, y) \/ EventOrder(y, x)
            BY <3>1, <3>2 DEF EventOrder
        <3> QED
            BY <1>4, <3>3
    <2> QED
        BY <1>4, <2>1, <2>2, <2>3 DEF IsOrder
<1>7. InOrderOf(q, R, b)
    BY <1>1, <1>5, <1>6, InOrderIs
<1>8. /\ q \in Seq(R) /\ Len(q) \in Nat
      /\ \A x \in R : \E i \in 1..Len(q) : q[i] = x
      /\ \A i, j \in 1..Len(q) : i < j <=> q[i] \in b[q[j]]
      /\ \A i, j \in 1..Len(q) : q[i] = q[j] => i = j
      /\ \A i \in 1..Len(q) : q[i] \in R
    BY <1>7 DEF InOrderOf
<1>9. ASSUME NEW i \in 1..Len(q), NEW j \in 1..Len(q), i <= j PROVE q[i].date <= q[j].date
    <2>1. q[i] \in R /\ q[j] \in R /\ q[i].date \in Nat /\ q[j].date \in Nat
        BY <1>2, <1>8
    <2>2. CASE i = j
        BY <2>1, <2>2
    <2>3. CASE i # j
        <3>1. i < j
            BY <1>8, <1>9, <2>3
        <3>2. EventOrder(q[i], q[j])
            BY <1>4, <1>8, <2>1, <3>1
        <3> QED
            BY <2>1, <3>2 DEF EventOrder
    <2> QED
        BY <2>2, <2>3
<1>10. q \in Seq(EventType)
    BY <1>1, <1>8, SeqMonotonic
<1> QED
    BY <1>8, <1>9, <1>10 DEF InTime, q

\* The exits of the window in order: each begins where the one before it was.
Ends(from, to) == Sorted(Exits(from, to), EventOrder)
\* The runs that the exits of a session end.
StartOf(ends, from, i) == IF i = 1 THEN from ELSE ends[i - 1].date
LastOf(ends, from) == IF Len(ends) = 0 THEN from ELSE ends[Len(ends)].date
Closed(ends, from) ==
    [i \in 1..Len(ends) |-> SessionRun(ends[i].file, StartOf(ends, from, i), ends[i].date, << >>)]

\* Each begins where the one before ended.
EndsFit(ends, from) ==
    /\ \A i \in 1..Len(ends) : /\ ends[i].date \in Nat \ {0} /\ StartOf(ends, from, i) \in Nat
                               /\ StartOf(ends, from, i) <= ends[i].date
    /\ LastOf(ends, from) \in Nat /\ from <= LastOf(ends, from)

\* The exits of a session end runs like these.
LEMMA EndsDoFit ==
    ASSUME NEW R, NEW from \in Nat, NEW to, EventsOf(R, from, to), NEW ends, InTime(ends, R), MaxDate \in Nat
    PROVE  EndsFit(ends, from) /\ LastOf(ends, from) = Max({from} \cup {e.date : e \in R})
<1> DEFINE n == Len(ends)
           D == {from} \cup {e.date : e \in R}
           last == LastOf(ends, from)
<1>1. /\ n \in Nat /\ \A i \in 1..n : ends[i] \in R
      /\ \A e \in R : \E i \in 1..n : ends[i] = e
      /\ \A i, j \in 1..n : i <= j => ends[i].date <= ends[j].date
    BY DEF InTime
<1>2. \A e \in R : e.date \in Nat \ {0} /\ from <= e.date
    <2> TAKE e \in R
    <2>1. e \in EventType /\ from <= e.date
        BY DEF EventsOf
    <2> QED
        BY <2>1 DEF EventType
<1>3. \A i \in 1..n : ends[i].date \in Nat \ {0} /\ from <= ends[i].date
    BY <1>1, <1>2
<1>4. ASSUME NEW i \in 1..n
      PROVE  StartOf(ends, from, i) \in Nat /\ StartOf(ends, from, i) <= ends[i].date
    <2>1. CASE i = 1
        BY <1>3, <2>1 DEF StartOf
    <2>2. CASE i # 1
        <3> DEFINE m == i - 1
        <3>1. m \in 1..n /\ m <= i
            BY <1>1, <2>2
        <3>2. StartOf(ends, from, i) = ends[m].date
            BY <2>2 DEF StartOf
        <3> HIDE DEF m
        <3>3. ends[m].date \in Nat /\ ends[m].date <= ends[i].date
            BY <1>1, <1>3, <3>1
        <3> QED
            BY <3>2, <3>3
    <2> QED
        BY <2>1, <2>2
<1>5. last = IF n = 0 THEN from ELSE ends[n].date
    BY DEF LastOf
<1>6. n # 0 => n \in 1..n
    BY <1>1
<1> HIDE DEF last, n
<1>7. last \in Nat /\ from <= last
    BY <1>3, <1>5, <1>6
<1>8. \A e \in R : e.date <= last
    <2> TAKE e \in R
    <2>1. PICK i \in 1..n : ends[i] = e
        BY <1>1
    <2>2. n # 0 /\ i <= n
        BY <1>1, <2>1
    <2> QED
        BY <1>1, <1>5, <1>6, <2>1, <2>2
<1>9. last \in D
    <2>1. CASE n = 0
        BY <1>5, <2>1
    <2>2. CASE n # 0
        BY <1>1, <1>5, <1>6, <2>2
    <2> QED
        BY <2>1, <2>2
<1>10. \A d \in D : d \in Int /\ d <= last
    BY <1>2, <1>7, <1>8
<1>11. IsFiniteSet(D)
    <2> DEFINE E == {e.date : e \in R}
               g == [e \in R |-> e.date]
    <2>1. g \in Surjection(R, E)
        BY DEF Surjection
    <2>2. IsFiniteSet(R)
        BY DEF EventsOf
    <2>3. D = {from} \cup E
        OBVIOUS
    <2> HIDE DEF E, g, D
    <2>4. IsFiniteSet(E)
        BY <2>1, <2>2, FS_Surjection
    <2>5. IsFiniteSet({from})
        BY FS_Singleton
    <2> QED
        BY <2>3, <2>4, <2>5, FS_Union
<1> HIDE DEF D
<1>12. D \subseteq Int /\ D # {}
    BY <1>9, <1>10
<1>13. Max(D) \in D /\ \A d \in D : d <= Max(D)
    BY <1>11, <1>12, MaxIs
<1>14. Max(D) <= last /\ last <= Max(D) /\ Max(D) \in Int
    BY <1>9, <1>10, <1>12, <1>13
<1>15. last = Max(D)
    BY <1>7, <1>14
<1> QED
    BY <1>3, <1>4, <1>7, <1>15 DEF EndsFit, D, last, n

\* What the closed runs last adds up to the last exit.
Lasts(ends, from) == [i \in 1..Len(ends) |-> ends[i].date - StartOf(ends, from, i)]

\* These runs take up the time from the start to the last exit.
LEMMA ClosedAddUp ==
    ASSUME NEW ends, NEW from \in Nat, EndsFit(ends, from), Len(ends) \in Nat
    PROVE  SumOf(Lasts(ends, from), 1..Len(ends)) = LastOf(ends, from) - from
<1> DEFINE n == Len(ends)
           F == Lasts(ends, from)
           S == 1..n
           at == [k \in 0..n |-> IF k = 0 THEN from ELSE ends[k].date]
           W == {k \in Nat : k <= n => SumOf(F, 1..k) = at[k] - from}
<1>1. \A i \in S : F[i] = ends[i].date - StartOf(ends, from, i)
    BY DEF Lasts
<1>2. \A i \in S : /\ ends[i].date \in Nat /\ StartOf(ends, from, i) \in Nat
                   /\ StartOf(ends, from, i) <= ends[i].date
    BY DEF EndsFit
<1>3. \A k \in 0..n : at[k] = IF k = 0 THEN from ELSE ends[k].date
    OBVIOUS
<1>4. n \in Nat /\ LastOf(ends, from) = at[n]
    BY DEF LastOf
<1> HIDE DEF F, at, n
<1>5. \A i \in S : F[i] \in Nat
    BY <1>1, <1>2
<1>6. \A k \in 0..n : at[k] \in Nat
    BY <1>2, <1>3, <1>4
<1>7. IsFiniteSet(S)
    BY <1>4, FS_Interval
<1>8. /\ SumOf(F, {}) = 0
      /\ \A s \in SUBSET S : SumOf(F, s) \in Nat
      /\ \A s \in SUBSET S : \A x \in s : SumOf(F, s) = F[x] + SumOf(F, s \ {x})
    BY <1>5, <1>7, SumOfMore
<1>9. 0 \in W
    <2>1. 1..0 = {} /\ at[0] = from
        BY <1>3, <1>4
    <2> QED
        BY <1>8, <2>1
<1>10. ASSUME NEW k \in W PROVE k + 1 \in W
    <2> SUFFICES ASSUME k + 1 <= n PROVE SumOf(F, 1..k + 1) = at[k + 1] - from
        OBVIOUS
    <2> DEFINE j == k + 1
               A == 1..j
               B == 1..k
    <2>1. k \in Nat /\ k <= n /\ j \in S /\ j - 1 = k /\ k \in 0..n /\ j \in 0..n /\ j # 0
        BY <1>4
    <2>2. A \ {j} = B /\ j \in A /\ A \in SUBSET S
        BY <1>4, <2>1
    <2>3. SumOf(F, B) = at[k] - from
        BY <2>1
    <2>4. StartOf(ends, from, j) = at[k]
        <3>1. j = 1 <=> k = 0
            BY <2>1
        <3>2. k # 0 => ends[j - 1].date = ends[k].date
            BY <2>1
        <3> HIDE DEF j
        <3> QED
            BY <1>3, <2>1, <3>1, <3>2 DEF StartOf
    <2> HIDE DEF j, A, B, W, S
    <2>5. SumOf(F, A) = F[j] + SumOf(F, A \ {j})
        BY <1>8, <2>2
    <2>6. F[j] = at[j] - at[k]
        BY <1>1, <1>3, <2>1, <2>4
    <2>7. at[j] \in Nat /\ at[k] \in Nat
        BY <1>6, <2>1
    <2>8. SumOf(F, A) = at[j] - from
        <3>1. SumOf(F, A) = F[j] + SumOf(F, B)
            BY <2>2, <2>5
        <3> DEFINE s == SumOf(F, A)
                   r == SumOf(F, B)
                   d == F[j]
                   x == at[j]
                   y == at[k]
        <3>2. s = d + r /\ r = y - from /\ d = x - y /\ x \in Nat /\ y \in Nat
            BY <2>3, <2>6, <2>7, <3>1
        <3> HIDE DEF s, r, d, x, y
        <3>3. s = x - from
            BY <3>2
        <3> QED
            BY <3>3 DEF s, x
    <2> QED
        BY <2>8 DEF A, j
<1>11. W = Nat
    <2>1. W \in SUBSET Nat
        OBVIOUS
    <2> HIDE DEF W
    <2> QED
        BY <1>9, <1>10, <2>1, CountUp
<1>12. SumOf(F, 1..n) = at[n] - from
    BY <1>4, <1>11
<1> QED
    BY <1>4, <1>12 DEF F, n

\* The newest of some rows, and of a number and some rows.
LEMMA NewestIs ==
    ASSUME NEW R, NEW from, NEW to, EventsOf(R, from, to), MaxDate \in Nat, NEW x \in Nat
    PROVE  LET D == {e.date : e \in R}
           IN  /\ IsFiniteSet(D) /\ D \subseteq Nat \ {0}
               /\ D # {} => Max(D) \in D /\ \A d \in D : d <= Max(D)
               /\ Max({x} \cup D) \in {x} \cup D /\ \A d \in {x} \cup D : d <= Max({x} \cup D)
<1> DEFINE D == {e.date : e \in R}
           g == [e \in R |-> e.date]
           E == {x} \cup D
<1>1. g \in Surjection(R, D)
    BY DEF Surjection
<1>2. IsFiniteSet(R) /\ \A e \in R : e \in EventType
    BY DEF EventsOf
<1>3. \A e \in R : e.date \in 1..MaxDate
    BY <1>2 DEF EventType
<1>4. \A d \in 1..MaxDate : d \in Nat \ {0}
    OBVIOUS
<1>5. D \subseteq Nat \ {0}
    BY <1>3, <1>4
<1> HIDE DEF D, g
<1>6. IsFiniteSet(D)
    BY <1>1, <1>2, FS_Surjection
<1>7. D \subseteq Int /\ E \subseteq Int /\ E # {}
    BY <1>5
<1>8. IsFiniteSet(E)
    <2>1. IsFiniteSet({x})
        BY FS_Singleton
    <2> QED
        BY <1>6, <2>1, FS_Union
<1>9. D # {} => Max(D) \in D /\ \A d \in D : d <= Max(D)
    BY <1>6, <1>7, MaxIs
<1> HIDE DEF E
<1>10. Max(E) \in E /\ \A d \in E : d <= Max(E)
    BY <1>7, <1>8, MaxIs
<1> QED
    BY <1>5, <1>6, <1>9, <1>10 DEF D, E

\* The run of the character who was saved last, if someone was after the last exit.
Saves(from, to) == {e.date : e \in Tails(from, to)}
\* There are saves after the last exit; the run in progress they make.
Live(from, to) == \E d \in Saves(from, to) : d > LastOf(Ends(from, to), from)
LiveRun(run, from, to) ==
    /\ run.file \in BackupFiles /\ run.start = LastOf(Ends(from, to), from) /\ run.end = 0
    /\ run.autosaves # << >> /\ Last(run.autosaves) = Max(Saves(from, to))
    /\ \E t \in Tails(from, to) : t.file = run.file /\ t.date = Max(Saves(from, to))

\* The rows of one file since its last exit.
Past(f, from, to) == {t \in Tails(from, to) : t.file = f /\ t.date > LastExitOf(Exits(from, to), f)}
\* The dates of rows in order of time.
DatesInTime(R) ==
    LET order == Sorted(R, EventOrder) IN [i \in 1..Len(order) |-> order[i].date]

\* The last save of the run in progress is the last save there is.
LEMMA PastIs ==
    ASSUME Inv, NEW from \in Nat, NEW to \in Nat, NEW u \in Tails(from, to),
           u.date = Max(Saves(from, to)), u.date > LastOf(Ends(from, to), from)
    PROVE  /\ DatesInTime(Past(u.file, from, to)) # << >>
           /\ Last(DatesInTime(Past(u.file, from, to))) = Max(Saves(from, to))
<1> DEFINE exits == Exits(from, to)
           tails == Tails(from, to)
           last == LastOf(Ends(from, to), from)
           f == u.file
           past == Past(f, from, to)
           order == Sorted(past, EventOrder)
           q == DatesInTime(past)
           mine == {x \in exits : x.file = f}
           D == {e.date : e \in mine}
           m == Max(Saves(from, to))
<1>0. MaxDate \in Nat
    BY FilesAre
<1>1. EventsOf(exits, from, to) /\ EventsOf(tails, from, to)
    BY RowsInAre DEF Exits, Tails
<1>2. InTime(Ends(from, to), exits)
    <2> HIDE DEF exits
    <2>1. InTime(Sorted(exits, EventOrder), exits)
        BY <1>0, <1>1, EventsInTime
    <2> QED
        BY <2>1 DEF Ends, exits
<1>3. last \in Nat /\ \A e \in exits : e.date <= last
    <2> DEFINE ends == Ends(from, to)
               A == {e.date : e \in exits}
    <2> HIDE DEF exits, ends
    <2>1. EndsFit(ends, from) /\ LastOf(ends, from) = Max({from} \cup A)
        BY <1>0, <1>1, <1>2, EndsDoFit DEF ends
    <2>2. \A d \in {from} \cup A : d <= Max({from} \cup A)
        BY <1>0, <1>1, NewestIs
    <2>3. \A e \in exits : e.date \in A
        OBVIOUS
    <2> HIDE DEF A
    <2>4. \A e \in exits : e.date <= LastOf(ends, from)
        BY <2>1, <2>2, <2>3
    <2>5. LastOf(ends, from) \in Nat
        BY <2>1 DEF EndsFit
    <2> QED
        BY <2>4, <2>5 DEF ends
<1>4. EventsOf(mine, from, to)
    <2>1. mine \subseteq exits
        OBVIOUS
    <2> HIDE DEF mine, exits
    <2> QED
        BY <1>1, <2>1, FS_Subset DEF EventsOf
<1>5. LastExitOf(exits, f) <= last /\ LastExitOf(exits, f) \in Nat
    <2>1. LastExitOf(exits, f) = Max({0} \cup D)
        BY DEF LastExitOf
    <2>2. \A d \in D : d <= last /\ d \in Nat
        <3>1. \A d \in D : d <= last
            BY <1>3
        <3>2. D \subseteq Nat \ {0}
            <4> HIDE DEF mine
            <4> QED
                BY <1>0, <1>4, NewestIs
        <3> QED
            BY <3>1, <3>2
    <2>3. Max({0} \cup D) \in {0} \cup D
        <3> HIDE DEF mine
        <3> QED
            BY <1>0, <1>4, NewestIs
    <2> HIDE DEF D
    <2> QED
        BY <1>3, <2>1, <2>2, <2>3
<1>6. u.date \in Nat
    <2>1. u \in EventType
        BY <1>1 DEF EventsOf
    <2>2. u.date \in 1..MaxDate
        BY <2>1 DEF EventType
    <2> QED
        BY <1>0, <2>2
<1>7. u \in past
    <2>1. u.date > LastExitOf(exits, f)
        BY <1>3, <1>5, <1>6
    <2> QED
        BY <2>1 DEF Past
<1>8. EventsOf(past, from, to)
    <2>1. past \subseteq tails
        BY DEF Past
    <2> HIDE DEF past, tails
    <2> QED
        BY <1>1, <2>1, FS_Subset DEF EventsOf
<1>9. \A t \in past : t.date <= m /\ t.date \in 1..MaxDate
    <2>1. \A d \in Saves(from, to) : d <= m
        <3> DEFINE A == {e.date : e \in tails}
        <3>1. A = Saves(from, to)
            BY DEF Saves
        <3>2. u.date \in A
            OBVIOUS
        <3> HIDE DEF tails
        <3>3. A # {} => \A d \in A : d <= Max(A)
            BY <1>0, <1>1, NewestIs
        <3> HIDE DEF A
        <3> QED
            BY <3>1, <3>2, <3>3
    <2>2. \A t \in past : t.date \in Saves(from, to)
        BY DEF Past, Saves
    <2>3. \A t \in past : t \in EventType
        BY <1>8 DEF EventsOf
    <2> QED
        BY <2>1, <2>2, <2>3 DEF EventType
<1>10. InTime(order, past)
    <2> HIDE DEF past
    <2> QED
        BY <1>0, <1>8, EventsInTime
<1>11. q = [i \in 1..Len(order) |-> order[i].date]
    BY DEF DatesInTime
<1> HIDE DEF past, order, q, m
<1>12. PICK k \in 1..Len(order) : order[k] = u
    BY <1>7, <1>10 DEF InTime
<1> DEFINE n == Len(order)
<1>13. /\ n \in Nat /\ \A i \in 1..n : order[i] \in past
       /\ \A i, j \in 1..n : i <= j => order[i].date <= order[j].date
    BY <1>10 DEF InTime
<1> HIDE DEF n
<1>14. n \in 1..n /\ k <= n /\ k \in 1..n /\ n # 0
    BY <1>12, <1>13 DEF n
<1>15. q \in [1..n -> 1..MaxDate]
    BY <1>9, <1>11, <1>13 DEF n
<1>16. q \in Seq(1..MaxDate) /\ Len(q) = n
    BY <1>13, <1>15, IsSeq
<1>17. q # << >>
    BY <1>14, <1>16, EmptySeq
<1>18. Last(q) = order[n].date
    BY <1>11, <1>14, <1>16 DEF Last, n
<1>19. order[n].date = m
    <2>1. order[k].date <= order[n].date /\ order[k].date = m
        BY <1>12, <1>13, <1>14 DEF m
    <2>2. order[n].date <= m /\ order[n].date \in 1..MaxDate
        BY <1>9, <1>13, <1>14
    <2>3. m \in Nat
        BY <1>6 DEF m
    <2> QED
        BY <1>0, <2>1, <2>2, <2>3
<1> QED
    BY <1>17, <1>18, <1>19 DEF q, past, m

\* The runs of a session.
Runs(from, to) == GroupSessionRuns(CharacterHists, from, to)

\* What the exits of a session are, and what they end.
LEMMA TimelineIs ==
    ASSUME Inv, NEW from \in Nat, NEW to \in Nat
    PROVE  /\ InTime(Ends(from, to), Exits(from, to)) /\ EndsFit(Ends(from, to), from)
           /\ LastOf(Ends(from, to), from) = Max({from} \cup {e.date : e \in Exits(from, to)})
           /\ EventsOf(Exits(from, to), from, to) /\ EventsOf(Tails(from, to), from, to)
<1> DEFINE exits == Exits(from, to)
           ends == Ends(from, to)
<1>1. EventsOf(exits, from, to) /\ EventsOf(Tails(from, to), from, to) /\ MaxDate \in Nat
    BY RowsInAre, FilesAre DEF Exits, Tails
<1>2. ends = Sorted(exits, EventOrder)
    BY DEF Ends
<1> HIDE DEF exits, ends
<1>3. InTime(Sorted(exits, EventOrder), exits)
    BY <1>1, EventsInTime
<1>4. InTime(ends, exits)
    BY <1>2, <1>3
<1>5. EndsFit(ends, from) /\ LastOf(ends, from) = Max({from} \cup {e.date : e \in exits})
    BY <1>1, <1>4, EndsDoFit
<1> QED
    BY <1>1, <1>4, <1>5 DEF exits, ends

\* Who still plays was saved last.
LEMMA StillPlayedAre ==
    ASSUME Inv, NEW from \in Nat, NEW to \in Nat
    PROVE  LET last == LastOf(Ends(from, to), from)
               played == StillPlayed(Tails(from, to), last)
           IN  /\ ~ Live(from, to) => played = {}
               /\ Live(from, to) => /\ played # {}
                                    /\ \A f \in played : \E u \in Tails(from, to) :
                                          /\ u.file = f /\ u.date = Max(Saves(from, to)) /\ u.date > last
<1> DEFINE tails == Tails(from, to)
           last == LastOf(Ends(from, to), from)
           played == StillPlayed(tails, last)
           after == {t \in tails : t.date > last}
           D == Saves(from, to)
           m == Max(D)
<1>1. /\ D \subseteq Nat /\ (D # {} => m \in D /\ \A d \in D : d <= m)
      /\ \A t \in tails : t.date \in D
      /\ \A d \in D : \E t \in tails : t.date = d
    <2> DEFINE A == {e.date : e \in tails}
    <2>1. EventsOf(tails, from, to) /\ MaxDate \in Nat
        BY TimelineIs, FilesAre
    <2>2. A = D
        BY DEF Saves
    <2>3. (\A t \in tails : t.date \in A) /\ \A d \in A : \E t \in tails : t.date = d
        OBVIOUS
    <2> HIDE DEF tails
    <2>4. A \subseteq Nat \ {0} /\ (A # {} => Max(A) \in A /\ \A d \in A : d <= Max(A))
        BY <2>1, NewestIs
    <2> HIDE DEF A, D
    <2> QED
        BY <2>2, <2>3, <2>4 DEF m
<1>2. last \in Nat
    BY TimelineIs DEF EndsFit
<1>3. played = {t.file : t \in {u \in after : \A v \in after : v.date <= u.date}}
    BY DEF StillPlayed
<1>4. Live(from, to) <=> \E d \in D : d > last
    BY DEF Live
<1> HIDE DEF D, last, tails, played, m
<1>5. ASSUME ~ Live(from, to) PROVE played = {}
    <2>1. after = {}
        BY <1>1, <1>4, <1>5
    <2> HIDE DEF after
    <2> QED
        BY <1>3, <2>1
<1>6. ASSUME Live(from, to) PROVE played # {}
    <2>1. PICK d \in D : d > last
        BY <1>4, <1>6
    <2>2. m \in D /\ d <= m /\ m \in Nat /\ d \in Nat
        BY <1>1, <2>1
    <2>3. PICK t \in tails : t.date = m
        BY <1>1, <2>2
    <2>4. m > last
        BY <1>2, <2>1, <2>2
    <2>5. t \in {u \in after : \A v \in after : v.date <= u.date}
        BY <1>1, <2>3, <2>4
    <2> HIDE DEF after
    <2>6. t.file \in played
        BY <1>3, <2>5
    <2> QED
        BY <2>6
<1>7. ASSUME Live(from, to), NEW f \in played
      PROVE  \E u \in tails : u.file = f /\ u.date = m /\ u.date > last
    <2>1. PICK u \in after : (\A v \in after : v.date <= u.date) /\ u.file = f
        BY <1>3
    <2>2. PICK d \in D : d > last
        BY <1>4, <1>7
    <2>3. m \in D /\ d <= m /\ m \in Nat /\ d \in Nat
        BY <1>1, <2>2
    <2>4. PICK t \in tails : t.date = m
        BY <1>1, <2>3
    <2>5. t \in after
        BY <1>2, <2>2, <2>3, <2>4
    <2>6. u \in tails /\ u.date \in Nat /\ u.date <= m /\ u.date > last
        BY <1>1
    <2>7. m <= u.date
        BY <2>1, <2>4, <2>5
    <2>8. u.date = m
        BY <2>3, <2>6, <2>7
    <2> QED
        BY <2>1, <2>6, <2>8
<1> QED
    BY <1>5, <1>6, <1>7 DEF D, last, tails, played, m

\* The runs are those that the exits end and, if there are saves after them, one in progress.
LEMMA SessionRunsAre ==
    ASSUME Inv, NEW from \in Nat, NEW to \in Nat
    PROVE  LET closed == Closed(Ends(from, to), from)
           IN  /\ ~ Live(from, to) => Runs(from, to) = closed
               /\ Live(from, to) => \E run : LiveRun(run, from, to) /\ Runs(from, to) = Append(closed, run)
<1> DEFINE exits == Exits(from, to)
           tails == Tails(from, to)
           ends == Ends(from, to)
           newest == IF ends = << >> THEN from ELSE Last(ends).date
           last == LastOf(ends, from)
           closed == Closed(ends, from)
           played == StillPlayed(tails, newest)
           f == CHOOSE g \in played : TRUE
           run == SessionRun(f, newest, 0, DatesInTime(Past(f, from, to)))
<1>1. Runs(from, to) = IF played = {} THEN closed ELSE Append(closed, run)
    <2>1. closed = [i \in 1..Len(ends) |->
                      SessionRun(ends[i].file, IF i = 1 THEN from ELSE ends[i - 1].date,
                                 ends[i].date, << >>)]
        BY DEF Closed, StartOf
    <2> QED
        BY <2>1 DEF Runs, GroupSessionRuns, Ends, Exits, Tails, Past, DatesInTime
<1>2. newest = last
    <2>1. ends \in Seq(EventType)
        BY TimelineIs DEF InTime
    <2>2. ends = << >> <=> Len(ends) = 0
        BY <2>1, EmptySeq
    <2> QED
        BY <2>2 DEF LastOf, Last
<1> HIDE DEF newest
<1>3. CASE ~ Live(from, to)
    <2>1. StillPlayed(tails, last) = {}
        BY <1>3, StillPlayedAre
    <2> QED
        BY <1>1, <1>2, <1>3, <2>1
<1>4. CASE Live(from, to)
    <2>1. /\ played # {}
          /\ \A g \in played : \E u \in tails : u.file = g /\ u.date = Max(Saves(from, to)) /\ u.date > last
        BY <1>2, <1>4, StillPlayedAre
    <2>2. f \in played
        BY <2>1
    <2> HIDE DEF f, played
    <2>3. PICK u \in tails : u.file = f /\ u.date = Max(Saves(from, to)) /\ u.date > last
        BY <2>1, <2>2
    <2> DEFINE q == DatesInTime(Past(f, from, to))
    <2>4. q # << >> /\ Last(q) = Max(Saves(from, to))
        BY <2>3, PastIs
    <2>5. f \in BackupFiles
        <3>1. u \in EventType
            BY TimelineIs DEF EventsOf
        <3> QED
            BY <2>3, <3>1 DEF EventType
    <2> HIDE DEF q
    <2>6. SessionRun(f, last, 0, q).file = f /\ SessionRun(f, last, 0, q).start = last
          /\ SessionRun(f, last, 0, q).end = 0 /\ SessionRun(f, last, 0, q).autosaves = q
        BY DEF SessionRun
    <2>7. run = SessionRun(f, last, 0, q)
        BY <1>2 DEF q
    <2> HIDE DEF run
    <2>8. LiveRun(run, from, to)
        BY <2>3, <2>4, <2>5, <2>6, <2>7 DEF LiveRun
    <2> QED
        BY <1>1, <1>4, <2>1, <2>8
<1> QED
    BY <1>3, <1>4

\* How long a run lasts.
LEMMA DurationIs ==
    ASSUME NEW run, NEW to \in Nat, run.start \in Nat
    PROVE  /\ run.end # 0 /\ run.end \in Nat /\ run.start <= run.end =>
                 RunDurationSecs(run, to) = run.end - run.start
           /\ run.end = 0 /\ to > run.start => RunDurationSecs(run, to) = to - run.start
           /\ run.end = 0 /\ to <= run.start /\ run.autosaves # << >> /\ Last(run.autosaves) > run.start =>
                 RunDurationSecs(run, to) = Last(run.autosaves) - run.start
<1> DEFINE end == CASE run.end # 0                          -> run.end
                    [] run.end = 0 /\ to > run.start        -> to
                    [] run.end = 0 /\ to <= run.start /\ run.autosaves # << >> -> Last(run.autosaves)
                    [] OTHER                                -> 0
<1>1. RunDurationSecs(run, to) = IF end > run.start THEN end - run.start ELSE 0
    BY DEF RunDurationSecs
<1>2. run.end # 0 => end = run.end
    OBVIOUS
<1>3. run.end = 0 /\ to > run.start => end = to
    OBVIOUS
<1>4. run.end = 0 /\ to <= run.start /\ run.autosaves # << >> => end = Last(run.autosaves)
    <2> SUFFICES ASSUME run.end = 0, to <= run.start, run.autosaves # << >>
                 PROVE  end = Last(run.autosaves)
        OBVIOUS
    <2>1. ~ (to > run.start)
        OBVIOUS
    <2> QED
        BY <2>1
<1> HIDE DEF end
<1> QED
    BY <1>1, <1>2, <1>3, <1>4

\* A window of time: it may have no end.
IsSession(from, to) == from \in 0..MaxDate /\ to \in 0..MaxDate /\ (to = 0 \/ from < to)
\* Until when a session is counted while a game is running.
Until(from, to) == IF to = 0 THEN Max(Saves(from, to)) ELSE to

\* What the runs of a session are: those of the exits, and one that still goes on.
RunsFit(runs, from, to) ==
    LET ends == Ends(from, to)
        n == Len(ends)
        m == Len(runs)
    IN  /\ n \in Nat /\ m \in Nat /\ DOMAIN runs = 1..m
        /\ m = IF Live(from, to) THEN n + 1 ELSE n
        /\ \A i \in 1..n : /\ runs[i].file = ends[i].file /\ runs[i].end # 0 /\ runs[i].file \in BackupFiles
                           /\ RunDurationSecs(runs[i], to) = Lasts(ends, from)[i]
        /\ Live(from, to) =>
              /\ LiveRun(runs[m], from, to)
              /\ RunDurationSecs(runs[m], to) = Until(from, to) - LastOf(ends, from)
              /\ Until(from, to) \in Nat /\ LastOf(ends, from) <= Until(from, to)

\* A run that an exit ends lasts until that exit.
LEMMA ClosedAre ==
    ASSUME NEW ends, NEW from \in Nat, NEW to \in Nat, NEW R, EventsOf(R, from, to), InTime(ends, R), EndsFit(ends, from),
           NEW i \in 1..Len(ends)
    PROVE  /\ Closed(ends, from)[i].file = ends[i].file /\ Closed(ends, from)[i].end # 0
           /\ Closed(ends, from)[i].file \in BackupFiles
           /\ RunDurationSecs(Closed(ends, from)[i], to) = Lasts(ends, from)[i]
<1> DEFINE run == Closed(ends, from)[i]
<1>1. run = SessionRun(ends[i].file, StartOf(ends, from, i), ends[i].date, << >>)
    BY DEF Closed
<1>2. Lasts(ends, from)[i] = ends[i].date - StartOf(ends, from, i)
    BY DEF Lasts
<1> HIDE DEF run
<1>3. run.file = ends[i].file /\ run.start = StartOf(ends, from, i) /\ run.end = ends[i].date
    BY <1>1 DEF SessionRun
<1>4. ends[i].date \in Nat \ {0} /\ StartOf(ends, from, i) \in Nat /\ StartOf(ends, from, i) <= ends[i].date
    BY DEF EndsFit
<1>5. ends[i].file \in BackupFiles
    <2>1. ends[i] \in EventType
        BY DEF InTime, EventsOf
    <2> QED
        BY <2>1 DEF EventType
<1>6. RunDurationSecs(run, to) = run.end - run.start
    BY <1>3, <1>4, DurationIs
<1> QED
    BY <1>2, <1>3, <1>4, <1>5, <1>6 DEF run

\* The run in progress lasts until the last save, or until now.
LEMMA LiveIs ==
    ASSUME Inv, NEW from, NEW to, IsSession(from, to), Live(from, to), NEW run, LiveRun(run, from, to)
    PROVE  LET last == LastOf(Ends(from, to), from)
           IN  /\ RunDurationSecs(run, to) = Until(from, to) - last
               /\ Until(from, to) \in Nat /\ last <= Until(from, to)
<1> DEFINE last == LastOf(Ends(from, to), from)
           m == Max(Saves(from, to))
           tails == Tails(from, to)
<1>1. MaxDate \in Nat /\ from \in Nat /\ to \in Nat
    BY FilesAre DEF IsSession
<1>2. last \in Nat /\ from <= last /\ EventsOf(tails, from, to)
    BY <1>1, TimelineIs DEF EndsFit
<1>3. PICK t \in tails : t.file = run.file /\ t.date = m
    BY DEF LiveRun
<1>4. t \in EventType /\ (to = 0 \/ m <= to)
    BY <1>2, <1>3 DEF EventsOf
<1>5. m \in 1..MaxDate
    BY <1>3, <1>4 DEF EventType
<1>6. m > last
    <2>1. StillPlayed(tails, last) # {}
        BY <1>1, StillPlayedAre
    <2>2. \A f \in StillPlayed(tails, last) : \E u \in tails : u.date = m /\ u.date > last
        BY <1>1, StillPlayedAre
    <2> QED
        BY <2>1, <2>2
<1>7. run.start = last /\ run.end = 0 /\ run.autosaves # << >> /\ Last(run.autosaves) = m
    BY DEF LiveRun
<1> HIDE DEF last, m, tails
<1>8. m \in Nat
    BY <1>1, <1>5
<1>9. CASE to = 0
    <2>1. to <= run.start
        BY <1>2, <1>7, <1>9
    <2>2. RunDurationSecs(run, to) = m - last
        BY <1>1, <1>2, <1>6, <1>7, <1>9, <2>1, DurationIs
    <2> QED
        BY <1>2, <1>6, <1>8, <1>9, <2>2 DEF Until, last, m
<1>10. CASE to # 0
    <2>1. to > last
        BY <1>1, <1>2, <1>4, <1>6, <1>8, <1>10
    <2>2. RunDurationSecs(run, to) = to - last
        BY <1>1, <1>2, <1>7, <2>1, DurationIs
    <2> QED
        BY <1>1, <1>2, <1>10, <2>1, <2>2 DEF Until, last
<1> QED
    BY <1>9, <1>10

\* The runs of a session follow one another from its start to its end.
LEMMA RunsDoFit ==
    ASSUME Inv, NEW from, NEW to, IsSession(from, to)
    PROVE  RunsFit(Runs(from, to), from, to)
<1> DEFINE ends == Ends(from, to)
           n == Len(ends)
           runs == Runs(from, to)
           closed == Closed(ends, from)
           C == {closed[i] : i \in 1..n}
<1>1. from \in Nat /\ to \in Nat
    BY FilesAre DEF IsSession
<1>2. /\ InTime(ends, Exits(from, to)) /\ EndsFit(ends, from) /\ EventsOf(Exits(from, to), from, to)
      /\ n \in Nat
    BY <1>1, TimelineIs DEF InTime
<1>3. \A i \in 1..n : /\ closed[i].file = ends[i].file /\ closed[i].end # 0 /\ closed[i].file \in BackupFiles
                      /\ RunDurationSecs(closed[i], to) = Lasts(ends, from)[i]
    BY <1>1, <1>2, ClosedAre
<1>4. /\ ~ Live(from, to) => runs = closed
      /\ Live(from, to) => \E run : LiveRun(run, from, to) /\ runs = Append(closed, run)
    BY <1>1, SessionRunsAre
<1>5. closed \in [1..n -> C] /\ DOMAIN closed = 1..n
    BY DEF Closed
<1> HIDE DEF ends, n, runs, closed, C
<1>6. CASE ~ Live(from, to)
    <2>1. Len(closed) = n
        BY <1>2, <1>5, IsSeq
    <2> QED
        BY <1>2, <1>3, <1>4, <1>5, <1>6, <2>1 DEF RunsFit, ends, n, runs
<1>7. CASE Live(from, to)
    <2>1. PICK run : LiveRun(run, from, to) /\ runs = Append(closed, run)
        BY <1>4, <1>7
    <2> DEFINE T == C \cup {run}
               m == n + 1
    <2>2. closed \in Seq(T) /\ Len(closed) = n
        <3>1. closed \in [1..n -> T]
            BY <1>5
        <3> HIDE DEF T
        <3> QED
            BY <1>2, <3>1, IsSeq
    <2>3. run \in T
        OBVIOUS
    <2> HIDE DEF T
    <2>4. runs \in Seq(T) /\ Len(runs) = m /\ runs[m] = run /\ \A i \in 1..n : runs[i] = closed[i]
        BY <2>1, <2>2, <2>3, AppendProperties
    <2>5. DOMAIN runs = 1..m /\ m \in Nat
        BY <1>2, <2>4, LenProperties
    <2>6. /\ RunDurationSecs(run, to) = Until(from, to) - LastOf(ends, from)
          /\ Until(from, to) \in Nat /\ LastOf(ends, from) <= Until(from, to)
        BY <1>7, <2>1, LiveIs DEF ends
    <2> QED
        BY <1>2, <1>3, <1>7, <2>1, <2>4, <2>5, <2>6 DEF RunsFit, ends, n, runs
<1> QED
    BY <1>6, <1>7

\* How long the runs last, and which are a character's.
Durations(runs, to) == [i \in DOMAIN runs |-> RunDurationSecs(runs[i], to)]
\* The runs of a character.
Mine(runs, f) == {i \in DOMAIN runs : runs[i].file = f}

\* No second counts for two runs and none is missing.
LEMMA RunsAddUp ==
    ASSUME Inv, NEW from, NEW to, IsSession(from, to), NEW runs, RunsFit(runs, from, to)
    PROVE  LET last == LastOf(Ends(from, to), from)
           IN  /\ \A i \in DOMAIN runs : Durations(runs, to)[i] \in Nat
               /\ SumOf(Durations(runs, to), DOMAIN runs) =
                     IF Live(from, to) THEN Until(from, to) - from ELSE last - from
<1> DEFINE ends == Ends(from, to)
           n == Len(ends)
           m == Len(runs)
           F == Durations(runs, to)
           G == Lasts(ends, from)
           last == LastOf(ends, from)
           A == 1..n
           S == 1..m
<1>0. from \in Nat /\ to \in Nat
    BY FilesAre DEF IsSession
<1>1. EndsFit(ends, from)
    BY <1>0, TimelineIs
<1>2. /\ n \in Nat /\ m \in Nat /\ DOMAIN runs = S
      /\ m = IF Live(from, to) THEN n + 1 ELSE n
      /\ \A i \in A : RunDurationSecs(runs[i], to) = G[i]
      /\ Live(from, to) => /\ RunDurationSecs(runs[m], to) = Until(from, to) - last
                           /\ Until(from, to) \in Nat /\ last <= Until(from, to)
    BY DEF RunsFit
<1>3. \A i \in S : F[i] = RunDurationSecs(runs[i], to)
    BY <1>2 DEF Durations
<1>4. \A i \in A : G[i] \in Nat
    <2> TAKE i \in A
    <2>1. G[i] = ends[i].date - StartOf(ends, from, i)
        BY DEF Lasts
    <2>2. ends[i].date \in Nat /\ StartOf(ends, from, i) \in Nat /\ StartOf(ends, from, i) <= ends[i].date
        BY <1>1 DEF EndsFit
    <2> QED
        BY <2>1, <2>2
<1>5. last \in Nat /\ from <= last
    BY <1>1 DEF EndsFit
<1>6. SumOf(G, A) = last - from
    BY <1>0, <1>1, <1>2, ClosedAddUp
<1> HIDE DEF ends, n, m, F, G, last
<1>7. A \in SUBSET S
    BY <1>2
<1>8. \A i \in A : F[i] = G[i]
    BY <1>2, <1>3, <1>7
<1>9. IsFiniteSet(A) /\ IsFiniteSet(S)
    BY <1>2, FS_Interval
<1>10. SumOf(F, A) = SumOf(G, A)
    <2> HIDE DEF A
    <2> QED
        BY <1>8, <1>9, SumOfSame
<1>11. \A i \in S : F[i] \in Nat
    <2> TAKE i \in S
    <2>1. CASE i \in A
        BY <1>4, <1>8, <2>1
    <2>2. CASE i \notin A
        <3>1. Live(from, to) /\ i = m
            BY <1>2, <2>2
        <3> QED
            BY <1>2, <1>3, <1>5, <3>1
    <2> QED
        BY <2>1, <2>2
<1>12. CASE ~ Live(from, to)
    <2>1. S = A
        BY <1>2, <1>12
    <2>2. SumOf(F, S) = last - from
        BY <1>6, <1>10, <2>1
    <2> QED
        BY <1>2, <1>11, <1>12, <2>2 DEF F, last, ends
<1>13. CASE Live(from, to)
    <2>1. m \in S /\ S \ {m} = A
        BY <1>2, <1>13
    <2> DEFINE T == S
    <2>2. \A s \in SUBSET T : \A x \in s : SumOf(F, s) = F[x] + SumOf(F, s \ {x})
        <3> HIDE DEF T
        <3>1. IsFiniteSet(T) /\ \A i \in T : F[i] \in Nat
            BY <1>9, <1>11 DEF T
        <3> QED
            BY <3>1, SumOfMore
    <2>3. SumOf(F, S) = F[m] + SumOf(F, A)
        <3> HIDE DEF S, A
        <3>1. SumOf(F, S) = F[m] + SumOf(F, S \ {m})
            BY <2>1, <2>2
        <3> QED
            BY <2>1, <3>1
    <2>4. F[m] = Until(from, to) - last /\ SumOf(F, A) = last - from /\ Until(from, to) \in Nat
        BY <1>2, <1>3, <1>6, <1>10, <1>13, <2>1
    <2>5. SumOf(F, S) = Until(from, to) - from
        <3> DEFINE s == SumOf(F, S)
                   r == SumOf(F, A)
                   d == F[m]
                   y == Until(from, to)
        <3>1. s = d + r /\ d = y - last /\ r = last - from /\ y \in Nat
            BY <2>3, <2>4
        <3> HIDE DEF s, r, d, y
        <3>2. s = y - from
            BY <1>0, <1>5, <3>1
        <3> QED
            BY <3>2 DEF s, y
    <2> QED
        BY <1>2, <1>11, <1>13, <2>5 DEF F, last, ends
<1> QED
    BY <1>12, <1>13

\* The characters share the runs.
LEMMA CharactersAddUp ==
    ASSUME Inv, NEW from, NEW to, IsSession(from, to), NEW runs, RunsFit(runs, from, to)
    PROVE  SumOf([f \in BackupFiles |-> StatsOf(runs, f, to).secs], BackupFiles)
           = SumOf(Durations(runs, to), DOMAIN runs)
<1> DEFINE F == Durations(runs, to)
           S == DOMAIN runs
           B == BackupFiles
           R == [f \in B |-> Mine(runs, f)]
<1>1. \A i \in S : F[i] \in Nat
    BY RunsAddUp
<1>2. IsFiniteSet(S)
    <2>1. S = 1..Len(runs) /\ Len(runs) \in Nat
        BY DEF RunsFit
    <2> QED
        BY <2>1, FS_Interval
<1>3. \A i \in S : runs[i].file \in B
    <2>1. \A i \in 1..Len(runs) : i \in 1..Len(Ends(from, to)) \/ (Live(from, to) /\ i = Len(runs))
        BY DEF RunsFit
    <2>2. S = 1..Len(runs)
        BY DEF RunsFit
    <2> QED
        BY <2>1, <2>2 DEF RunsFit, LiveRun
<1>4. ASSUME NEW f \in B PROVE StatsOf(runs, f, to).secs = SumOf(F, R[f]) /\ R[f] \in SUBSET S
    <2> DEFINE mine == Mine(runs, f)
               g == [i \in mine |-> RunDurationSecs(runs[i], to)]
    <2>1. StatsOf(runs, f, to).secs = SumOf(g, mine)
        BY DEF StatsOf, Mine
    <2>2. mine \subseteq S
        BY DEF Mine
    <2>3. \A i \in mine : g[i] = F[i]
        BY <2>2 DEF Durations
    <2>4. R[f] = mine
        OBVIOUS
    <2> HIDE DEF mine, g, R, S
    <2>5. IsFiniteSet(mine)
        BY <1>2, <2>2, FS_Subset
    <2>6. SumOf(g, mine) = SumOf(F, mine)
        BY <2>3, <2>5, SumOfSame
    <2> QED
        BY <2>1, <2>2, <2>4, <2>6
<1>5. R \in [B -> SUBSET S]
    BY <1>4
<1>6. \A a, b \in B : a # b => R[a] \cap R[b] = {}
    BY DEF Mine
<1>7. UNION {R[f] : f \in B} = S
    <2>1. \A i \in S : i \in R[runs[i].file]
        BY <1>3 DEF Mine
    <2>2. \A f \in B : R[f] \subseteq S
        BY <1>4
    <2> HIDE DEF R, S
    <2> QED
        BY <1>3, <2>1, <2>2
<1>8. IsFiniteSet(B)
    BY FilesAre, FS_Subset
<1>9. [f \in B |-> StatsOf(runs, f, to).secs] = [f \in B |-> SumOf(F, R[f])]
    BY <1>4
<1> HIDE DEF F, S, R, B
<1>10. SumOf(F, UNION {R[f] : f \in B}) = SumOf([f \in B |-> SumOf(F, R[f])], B)
    BY <1>1, <1>2, <1>5, <1>6, <1>8, SumOfParts
<1>11. SumOf(F, S) = SumOf([f \in B |-> StatsOf(runs, f, to).secs], B)
    BY <1>7, <1>9, <1>10
<1> QED
    BY <1>11 DEF F, S, B

\* A run in progress is the last, and the session's.
LEMMA InProgress ==
    ASSUME Inv, NEW from, NEW to, NEW runs, RunsFit(runs, from, to), NEW i \in DOMAIN runs
    PROVE  /\ runs[i].end = 0 => Live(from, to) /\ i = Len(runs) /\ LiveRun(runs[i], from, to)
           /\ runs[i].end # 0 => i \in 1..Len(Ends(from, to))
<1>1. DOMAIN runs = 1..Len(runs) /\ Len(runs) \in Nat /\ Len(Ends(from, to)) \in Nat
    BY DEF RunsFit
<1>2. i \in 1..Len(Ends(from, to)) \/ (Live(from, to) /\ i = Len(runs))
    BY <1>1 DEF RunsFit
<1>3. i \in 1..Len(Ends(from, to)) => runs[i].end # 0
    BY DEF RunsFit
<1>4. Live(from, to) /\ i = Len(runs) => LiveRun(runs[i], from, to)
    BY DEF RunsFit
<1>5. LiveRun(runs[i], from, to) => runs[i].end = 0
    BY DEF LiveRun
<1> QED
    BY <1>2, <1>3, <1>4, <1>5

\* Every exit ends a run of the character it belongs to.
LEMMA ExitsCounted ==
    ASSUME Inv, NEW from, NEW to, IsSession(from, to), NEW runs, RunsFit(runs, from, to),
           NEW f \in BackupFiles
    PROVE  StatsOf(runs, f, to).runCount = Cardinality({e \in Exits(from, to) : e.file = f})
<1> DEFINE ends == Ends(from, to)
           n == Len(ends)
           exits == Exits(from, to)
           I == {i \in Mine(runs, f) : runs[i].end # 0}
           E == {e \in exits : e.file = f}
           g == [i \in I |-> ends[i]]
<1>1. StatsOf(runs, f, to).runCount = Cardinality(I)
    BY DEF StatsOf, Mine
<1>2. from \in Nat /\ to \in Nat
    BY FilesAre DEF IsSession
<1>3. /\ \A i \in 1..n : ends[i] \in exits
      /\ \A e \in exits : \E i \in 1..n : ends[i] = e
      /\ \A i, j \in 1..n : ends[i] = ends[j] => i = j
    BY <1>2, TimelineIs DEF InTime
<1>4. /\ n \in Nat /\ \A i \in 1..n : i \in DOMAIN runs /\ runs[i].file = ends[i].file /\ runs[i].end # 0
    BY DEF RunsFit
<1>5. \A i : i \in I <=> i \in 1..n /\ ends[i].file = f
    <2>1. \A i \in I : i \in DOMAIN runs /\ runs[i].end # 0 /\ runs[i].file = f
        BY DEF Mine
    <2>2. \A i \in I : i \in 1..n
        BY <2>1, InProgress
    <2>3. \A i \in I : ends[i].file = f
        BY <1>4, <2>1, <2>2
    <2>4. ASSUME NEW i \in 1..n, ends[i].file = f PROVE i \in I
        BY <1>4, <2>4 DEF Mine
    <2> HIDE DEF I, n
    <2> QED
        BY <2>2, <2>3, <2>4
<1> HIDE DEF ends, n, exits
<1>6. g \in [I -> E] /\ \A i \in I : g[i] = ends[i]
    BY <1>3, <1>5
<1>7. \A e \in E : \E i \in I : g[i] = e
    BY <1>3, <1>5, <1>6
<1>8. \A i, j \in I : g[i] = g[j] => i = j
    BY <1>3, <1>5, <1>6
<1>9. IsFiniteSet(I)
    <2>1. I \subseteq 1..n /\ n \in Nat
        BY <1>4, <1>5
    <2>2. IsFiniteSet(1..n)
        BY <2>1, FS_Interval
    <2> HIDE DEF I
    <2> QED
        BY <2>1, <2>2, FS_Subset
<1> HIDE DEF g, I, E
<1>10. g \in Bijection(I, E)
    BY <1>6, <1>7, <1>8 DEF Bijection, Injection, Surjection, IsInjective
<1>11. Cardinality(E) = Cardinality(I)
    BY <1>9, <1>10, FS_Bijection DEF ExistsBijection
<1> QED
    BY <1>1, <1>11 DEF E, exits

\* The game that runs is of the character who was saved last.
LEMMA SavedLast ==
    ASSUME Inv, NEW from, NEW to, IsSession(from, to), NEW runs, RunsFit(runs, from, to),
           NEW f \in BackupFiles, StatsOf(runs, f, to).hasInProgress
    PROVE  /\ Live(from, to)
           /\ Max({0} \cup {e.date : e \in {x \in Tails(from, to) : x.file = f}}) = Max(Saves(from, to))
<1> DEFINE tails == Tails(from, to)
           mine == {x \in tails : x.file = f}
           D == {e.date : e \in mine}
           m == Max(Saves(from, to))
<1>1. from \in Nat /\ to \in Nat /\ MaxDate \in Nat
    BY FilesAre DEF IsSession
<1>2. PICK i \in Mine(runs, f) : runs[i].end = 0
    BY DEF StatsOf, Mine
<1>3. i \in DOMAIN runs /\ runs[i].file = f
    BY <1>2 DEF Mine
<1>4. Live(from, to) /\ LiveRun(runs[i], from, to)
    BY <1>2, <1>3, InProgress
<1>5. PICK t \in tails : t.file = f /\ t.date = m
    BY <1>3, <1>4 DEF LiveRun
<1>6. EventsOf(tails, from, to)
    BY <1>1, TimelineIs
<1>7. EventsOf(mine, from, to)
    <2>1. mine \subseteq tails
        OBVIOUS
    <2> HIDE DEF mine, tails
    <2> QED
        BY <1>6, <2>1, FS_Subset DEF EventsOf
<1>8. m \in D
    BY <1>5
<1>9. \A d \in D : d <= m
    <2> DEFINE A == {e.date : e \in tails}
    <2>1. A = Saves(from, to)
        BY DEF Saves
    <2>2. D \subseteq A /\ A # {}
        BY <1>5
    <2> HIDE DEF tails, D
    <2>3. A # {} => \A d \in A : d <= Max(A)
        BY <1>1, <1>6, NewestIs
    <2> HIDE DEF A
    <2> QED
        BY <2>1, <2>2, <2>3
<1>10. /\ D \subseteq Nat \ {0} /\ Max({0} \cup D) \in {0} \cup D
       /\ \A d \in {0} \cup D : d <= Max({0} \cup D)
    <2> HIDE DEF mine
    <2> QED
        BY <1>1, <1>7, NewestIs
<1> HIDE DEF D, m
<1>11. m \in Nat /\ Max({0} \cup D) \in Nat /\ m <= Max({0} \cup D) /\ Max({0} \cup D) <= m
    <2> DEFINE x == Max({0} \cup D)
    <2>1. m \in Nat /\ x \in Nat /\ m <= x
        <3>1. m \in Nat
            BY <1>8, <1>10
        <3>2. x \in {0} \cup D
            BY <1>10
        <3>3. \A d \in {0} \cup D : d <= x
            BY <1>10
        <3> HIDE DEF x
        <3>4. x \in Nat
            BY <1>10, <3>2
        <3> QED
            BY <1>8, <3>1, <3>3, <3>4
    <2>2. x \in D \/ x = 0
        BY <1>10
    <2> HIDE DEF x
    <2>3. x <= m
        BY <1>9, <2>1, <2>2
    <2> QED
        BY <2>1, <2>3 DEF x
<1>12. Max({0} \cup D) = m
    BY <1>11
<1> QED
    BY <1>4, <1>12 DEF D, m

\* The character who still plays has a run in progress.
LEMMA SomeonePlays ==
    ASSUME Inv, NEW from, NEW to, NEW runs, RunsFit(runs, from, to), Live(from, to)
    PROVE  \E f \in BackupFiles : StatsOf(runs, f, to).hasInProgress
<1> DEFINE m == Len(runs)
           f == runs[m].file
<1>1. m \in DOMAIN runs /\ LiveRun(runs[m], from, to)
    <2>1. m \in Nat /\ DOMAIN runs = 1..m /\ m # 0 /\ LiveRun(runs[m], from, to)
        <3>1. Len(Ends(from, to)) \in Nat /\ m = Len(Ends(from, to)) + 1
            BY DEF RunsFit
        <3> QED
            BY <3>1 DEF RunsFit
    <2> QED
        BY <2>1
<1>2. f \in BackupFiles /\ runs[m].end = 0
    BY <1>1 DEF LiveRun
<1>3. StatsOf(runs, f, to).hasInProgress
    BY <1>1, <1>2 DEF StatsOf
<1> QED
    BY <1>2, <1>3

\* For every table and session: the seconds of the characters add up to the time until the
\* last exit or, while a game is running, until the end of the session, so that none is
\* counted twice and none up to that moment is missing; each exit is a run of its character, and the game that is running
\* is the one saved last (groupSessionRuns, computeSessionRunStats).
THEOREM SessionsAreTiled == Spec => []SessionTiles
<1>1. ASSUME Inv PROVE SessionTiles
    <2> SUFFICES ASSUME NEW from, NEW to, IsSession(from, to)
                 PROVE  LET runs  == GroupSessionRuns(CharacterHists, from, to)
                            exits == RowsIn(CharacterHists, {"SaveAndExit"}, from, to)
                            last  == Max({from} \cup {e.date : e \in exits})
                            tails == RowsIn(CharacterHists, Autosaves, from, to)
                            saves == {e.date : e \in tails}
                            live  == \E d \in saves : d > last
                            total == SumOf([f \in BackupFiles |-> StatsOf(runs, f, to).secs], BackupFiles)
                        IN /\ total = IF live THEN (IF to = 0 THEN Max(saves) ELSE to) - from ELSE last - from
                           /\ \A f \in BackupFiles :
                                 LET stats == StatsOf(runs, f, to)
                                     newest == Max({0} \cup {e.date : e \in {x \in tails : x.file = f}})
                                 IN /\ stats.runCount = Cardinality({e \in exits : e.file = f})
                                    /\ stats.hasInProgress => live /\ newest = Max(saves)
                           /\ live => \E f \in BackupFiles : StatsOf(runs, f, to).hasInProgress
        <3>1. \A session \in Sessions : IsSession(session[1], session[2])
            BY DEF Sessions, IsSession
        <3> QED
            BY <3>1 DEF SessionTiles
    <2> DEFINE runs == Runs(from, to)
               exits == Exits(from, to)
               tails == Tails(from, to)
               saves == Saves(from, to)
               last == Max({from} \cup {e.date : e \in exits})
               total == SumOf([f \in BackupFiles |-> StatsOf(runs, f, to).secs], BackupFiles)
    <2>1. RunsFit(runs, from, to)
        BY <1>1, RunsDoFit
    <2>2. last = LastOf(Ends(from, to), from)
        <3>1. from \in Nat /\ to \in Nat
            BY <1>1, FilesAre DEF IsSession
        <3> QED
            BY <1>1, <3>1, TimelineIs
    <2>3. Live(from, to) <=> \E d \in saves : d > last
        BY <2>2 DEF Live
    <2> HIDE DEF runs
    <2>4. total = IF Live(from, to) THEN Until(from, to) - from ELSE last - from
        <3>1. total = SumOf(Durations(runs, to), DOMAIN runs)
            BY <1>1, <2>1, CharactersAddUp
        <3>2. SumOf(Durations(runs, to), DOMAIN runs) =
                 IF Live(from, to) THEN Until(from, to) - from ELSE LastOf(Ends(from, to), from) - from
            BY <1>1, <2>1, RunsAddUp
        <3> HIDE DEF total, last
        <3> QED
            BY <2>2, <3>1, <3>2
    <2>5. ASSUME NEW f \in BackupFiles
          PROVE  /\ StatsOf(runs, f, to).runCount = Cardinality({e \in exits : e.file = f})
                 /\ StatsOf(runs, f, to).hasInProgress =>
                       /\ Live(from, to)
                       /\ Max({0} \cup {e.date : e \in {x \in tails : x.file = f}}) = Max(saves)
        BY <1>1, <2>1, ExitsCounted, SavedLast
    <2>6. Live(from, to) => \E f \in BackupFiles : StatsOf(runs, f, to).hasInProgress
        BY <1>1, <2>1, SomeonePlays
    <2>7. saves = {e.date : e \in tails}
        BY DEF Saves
    <2>8. Until(from, to) = IF to = 0 THEN Max(saves) ELSE to
        BY DEF Until
    <2> HIDE DEF saves, last, total, Live
    <2> QED
        BY <2>3, <2>4, <2>5, <2>6, <2>7, <2>8 DEF runs, exits, tails, Runs, Exits, Tails, last, total
<1> QED
    BY <1>1, Invariance, PTL

=============================================================================
