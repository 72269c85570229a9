-------------------------- MODULE MCArtifactLoader --------------------------
(* Instances of ArtifactLoader for TLC. *)
EXTENDS ArtifactLoader, TLC

CONSTANTS c1, c2, c3, s1, s2, a1, a2

ThreeCalls == {c1, c2, c3}
TwoSessions == {s1, s2}

\* Calls and sessions are interchangeable; used by safety runs only.
CallSymmetry == Permutations({c1, c2, c3}) \cup Permutations({s1, s2})
=============================================================================
