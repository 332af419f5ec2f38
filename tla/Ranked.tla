------------------------------- MODULE Ranked --------------------------------
(***************************************************************************)
(* std::sort on sets, and what a loop with a condition leaves of a         *)
(* sequence, by the rank of each element, which TLC need not search for;   *)
(* and what a loop with a counter adds up.                                 *)
(***************************************************************************)
EXTENDS Integers, Sequences, FiniteSetsExt

\* The elements of S; before[x] are those that come before x.
InOrder(S, before) ==
    [i \in 1..Cardinality(S) |-> CHOOSE x \in S : Cardinality(before[x]) = i - 1]

\* The elements of S in the strict total order Less.
Sorted(S, Less(_, _)) == InOrder(S, [x \in S |-> {y \in S : Less(y, x)}])

\* The elements of seq at some of its positions.
Subsequence(seq, at) ==
    LET order == InOrder(at, [i \in at |-> {j \in at : j < i}])
    IN [k \in 1..Cardinality(at) |-> seq[order[k]]]

\* The elements of seq that pass the test.
Filtered(seq, Test(_)) == Subsequence(seq, {i \in DOMAIN seq : Test(seq[i])})

\* The sum of F[x] over S.
SumOf(F, S) == MapThenSumSet(LAMBDA x : F[x], S)
=============================================================================
