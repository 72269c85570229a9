----------------------------- MODULE MCBatchRun -----------------------------
(* Instances of BatchRun for TLC. *)
EXTENDS BatchRun

CONSTANTS c1, c2, c3, c4, s1, s2

MCSessions == {s1, s2}

\* A batch of two files beside a batch of one.
ThreeCalls == {c1, c2, c3}
TwoAndOne == [s \in MCSessions |-> IF s = s1 THEN <<c1, c2>> ELSE <<c3>>]

\* A batch of two files, and the same or another batch of two.
FourCalls == {c1, c2, c3, c4}
TwoAndTwo == [s \in MCSessions |-> IF s = s1 THEN <<c1, c2>> ELSE <<c3, c4>>]
=============================================================================
