------------------------------- MODULE Lists ---------------------------------
(* sorted and filter over lists.  SortSeq and SelectSeq of the libraries say  *)
(* the same, by recursion.                                                    *)
EXTENDS Integers, FiniteSets

(* The elements of a set in an order, first the one that none goes before.    *)
InOrder(S, before(_, _)) ==
  [k \in 1 .. Cardinality(S) |->
     CHOOSE x \in S : Cardinality({y \in S : before(y, x)}) = k - 1]

(* What a filter keeps of a list: its elements at some places, in its order.  *)
Kept(list, places) ==
  LET at == InOrder(places, <)
  IN  [k \in DOMAIN at |-> list[at[k]]]
=============================================================================
