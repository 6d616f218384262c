------------------------------ MODULE Ordering ------------------------------
(***************************************************************************)
(* Sets and the parts of lists in an order: what a std::map keyed by them, *)
(* or a loop that skips some elements, goes through.                       *)
(***************************************************************************)
EXTENDS Naturals, FiniteSets

\* The elements of S as a sequence in the order R, a set of pairs <<x, y>> with x
\* before y; and the order of numbers.
InOrder(S, R) ==
  [n \in 1 .. Cardinality(S) |->
     CHOOSE x \in S : Cardinality({y \in S : <<y, x>> \in R}) = n - 1]
Ascending(S) == {e \in S \X S : e[1] < e[2]}

\* Numbers in their order, and the elements of a list at the places P.
Listed(P) == InOrder(P, Ascending(P))
Selected(s, P) == [n \in DOMAIN Listed(P) |-> s[Listed(P)[n]]]
=============================================================================
