--------------------------- MODULE WeightedSplit ---------------------------
(***************************************************************************)
(* x/auction/keeper/math.go: an amount divided over weighted buckets by    *)
(* the method of the largest remainder.  The order of equal remainders is  *)
(* left open by sort.Slice, so the result is one of a set of allocations.  *)
(***************************************************************************)
EXTENDS Integers, FiniteSetsExt

totalInts(f) == MapThenSumSet(LAMBDA i : f[i], DOMAIN f)

quo(amount, w, i) == (amount * w[i]) \div totalInts(w)
rem(amount, w, i) == (amount * w[i]) % totalInts(w)
leftToAllocate(amount, w) == amount - totalInts([i \in DOMAIN w |-> quo(amount, w, i)])

\* Variant: the remainder goes to arbitrary buckets.
Unsorted(amount, w) == {L \in SUBSET DOMAIN w : Cardinality(L) = leftToAllocate(amount, w)}
\* Variant: the remainder is not allocated.
Truncated(amount, w) == {{}}
\* The buckets that get one more: the first ones in the order of decreasing
\* remainders, until nothing is left.
LargestRemainders(amount, w) ==
    {L \in SUBSET DOMAIN w :
        /\ Cardinality(L) = leftToAllocate(amount, w)
        /\ \A i \in L, j \in DOMAIN w \ L : rem(amount, w, i) >= rem(amount, w, j)}

splitIntIntoWeightedBuckets(amount, w) ==
    {[i \in DOMAIN w |-> quo(amount, w, i) + IF i \in lucky THEN 1 ELSE 0] :
        lucky \in LargestRemainders(amount, w)}
=============================================================================
