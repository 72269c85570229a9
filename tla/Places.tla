------------------------------- MODULE Places -------------------------------
(***************************************************************************)
(* The elements of a finite set of numbers by their order, as a loop that  *)
(* goes over them, or keeps some of a list, meets them.                    *)
(***************************************************************************)
EXTENDS Naturals, FiniteSets

Rank(i, places) == Cardinality({j \in places : j <= i})
Nth(n, places) == CHOOSE i \in places : Rank(i, places) = n
=============================================================================
