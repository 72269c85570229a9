--------------------------- MODULE ArtifactLedger ---------------------------
(***************************************************************************)
(* What a caller of load_table may rely on when no two calls work on the   *)
(* same artifact at the same time: an artifact is either unknown or holds  *)
(* the rows of exactly one load, whatever crashed, was retried or was      *)
(* answered late.                                                          *)
(*                                                                         *)
(* An "artifact" is one key of the ingest catalog: a source sha256         *)
(* together with a target table.  The rows one call writes are named by    *)
(* the call.                                                               *)
(***************************************************************************)
CONSTANTS
  Calls,          \* invocations of load_table
  Artifacts,      \* (source_artifact_sha256, table_name) pairs
  EmptyArtifacts  \* the artifacts whose primary table has no data rows

VARIABLES
  request,        \* request[c]: the artifact and duplicate mode c was given
  contents,       \* contents[a]: the calls whose rows a's table holds
  known,          \* the artifacts recorded as ingested
  outcome         \* outcome[c]: what c's caller has been told

vars == <<request, contents, known, outcome>>

Modes == {"skip", "replace"}
Requests == [artifact : Artifacts, mode : Modes]

\* The rows a call writes for artifact a.
Batch(c, a) == IF a \in EmptyArtifacts THEN {} ELSE {c}

Init ==
  /\ request \in [Calls -> Requests]
  /\ contents = [a \in Artifacts |-> {}]
  /\ known = {}
  /\ outcome = [c \in Calls |-> "pending"]

(***************************************************************************)
(* The rows of an artifact and its record change in one step.  A caller    *)
(* can be told "failed" although the load took effect (the answer to the   *)
(* commit was lost), never "loaded" when it did not.                       *)
(***************************************************************************)
Load(c) ==
  LET a == request[c].artifact IN
  /\ outcome[c] = "pending"
  /\ a \in known => request[c].mode = "replace"
  /\ contents' = [contents EXCEPT ![a] = Batch(c, a)]
  /\ known' = known \cup {a}
  /\ \E answer \in {"loaded", "failed"} :
       outcome' = [outcome EXCEPT ![c] = answer]
  /\ UNCHANGED request

Skip(c) ==
  /\ outcome[c] = "pending"
  /\ request[c].mode = "skip"
  /\ request[c].artifact \in known
  /\ outcome' = [outcome EXCEPT ![c] = "skipped"]
  /\ UNCHANGED <<request, contents, known>>

Fail(c) ==
  /\ outcome[c] = "pending"
  /\ outcome' = [outcome EXCEPT ![c] = "failed"]
  /\ UNCHANGED <<request, contents, known>>

Next == \E c \in Calls : Load(c) \/ Skip(c) \/ Fail(c)

Spec == Init /\ [][Next]_vars
=============================================================================
