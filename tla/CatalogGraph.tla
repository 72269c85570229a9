---------------------------- MODULE CatalogGraph ----------------------------
(***************************************************************************)
(* What publishing promises to the owner of a semantic catalog: the        *)
(* requests of an envelope take effect one after another, each once, and   *)
(* a receipt is given out only when all of them have.                      *)
(***************************************************************************)
EXTENDS Integers

CONSTANTS
  Envelopes,  \* approved handoffs
  Size        \* Size[e]: the number of requests of envelope e

VARIABLES
  graph,     \* graph[e]: the numbers of e's requests that have taken effect
  receipts   \* the envelopes for which a receipt has been given out

Init ==
  /\ graph = [e \in Envelopes |-> {}]
  /\ receipts = {}

Apply(e) ==
  /\ \E n \in 1..Size[e] :
       graph[e] = 1..(n - 1) /\ graph' = [graph EXCEPT ![e] = 1..n]
  /\ UNCHANGED receipts

Confirm(e) ==
  /\ graph[e] = 1..Size[e]
  /\ receipts' = receipts \cup {e}
  /\ UNCHANGED graph

Next == \E e \in Envelopes : Apply(e) \/ Confirm(e)
Spec == Init /\ [][Next]_<<graph, receipts>>
=============================================================================
