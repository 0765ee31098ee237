---------------------------------- MODULE Sums ----------------------------------
(***************************************************************************)
(* Sums without recursion.  SumSet and MapThenSumSet of the community       *)
(* modules add up one element after the other, so what is known of them is  *)
(* shown by induction over an operator.  Here a sum is a number of pairs,   *)
(* and two sums are compared by pairing what they count.                    *)
(***************************************************************************)
EXTENDS Naturals, FiniteSets

\* The sum of n[x] over the elements x of S: each x stands in n[x] pairs.
Added(n, S) == Cardinality(UNION {{x} \X (1 .. n[x]) : x \in S})

=============================================================================
