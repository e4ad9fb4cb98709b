------------------------------- MODULE Order -------------------------------
(***************************************************************************)
(* Sets and parts of sequences in an order, and steps one after the other: *)
(* what sorting, filtering and going through a collection come to.  The    *)
(* community modules define these by recursion with operators or by a      *)
(* choice among all permutations; here an element is found by how many     *)
(* come before it and a step is a function, which Order_proofs can reason  *)
(* about.                                                                  *)
(***************************************************************************)
EXTENDS Naturals, Sequences, FiniteSets

\* How many elements of S come before x in the relation R.
Rank(S, R, x) == Cardinality({y \in S : <<y, x>> \in R})

\* The elements of S, each after those that come before it.
InOrder(S, R) == [i \in 1..Cardinality(S) |-> CHOOSE x \in S : Rank(S, R, x) = i - 1]

LessThan(K) == {jk \in K \X K : jk[1] < jk[2]}

\* What s has at some of its places, in their order.
Kept(s, K) ==
  LET places == InOrder(K, LessThan(K)) IN [i \in DOMAIN places |-> s[places[i]]]

\* What n steps from a start come to: step[k] is what the k-th makes of what the last one gave.
Iterate(n, start, step) ==
  LET after[k \in 0..n] == IF k = 0 THEN start ELSE step[k][after[k - 1]] IN after[n]
=============================================================================
