--------------------------- MODULE ArtifactLoader ---------------------------
(***************************************************************************)
(* load_table over PsycopgSink: several calls, each on a PostgreSQL        *)
(* session, bring artifacts' rows and catalog entries into one database    *)
(* under READ COMMITTED.  One action is one SQL statement, transaction     *)
(* boundary or failure.                                                    *)
(*                                                                         *)
(* Data: an artifact is one catalog key (source_artifact_sha256,           *)
(* table_name).  All rows one call writes are one generation, named by the *)
(* call, so `stored' is the set of generations that are committed.  A      *)
(* catalog entry is named by the call whose upsert it holds; the only      *)
(* status the code writes is "loaded".  The statements that only concern   *)
(* the shape of the table (CREATE, ADD COLUMN, ALTER TYPE, COMMENT) have   *)
(* no effect here, only their failures and commits.                        *)
(***************************************************************************)
CONSTANTS
  Calls,           \* invocations of load_table
  Artifacts,       \* (source_artifact_sha256, table_name) pairs
  EmptyArtifacts,  \* the artifacts whose primary table has no data rows
  Sessions,        \* PsycopgSink connections
  NoCall,          \* "no catalog entry"
  NoSession        \* the session of a call that has not started

ASSUME EmptyAssumption == EmptyArtifacts \subseteq Artifacts
ASSUME NoCallAssumption == NoCall \notin Calls
ASSUME NoSessionAssumption == NoSession \notin Sessions

VARIABLES
  request,   \* request[c]: the artifact and duplicate mode of call c
  session,   \* session[c]: the sink c was given
  stage,     \* stage[c]: the statement c executes next, or its outcome
  existing,  \* existing[c]: the catalog entry c's catalog_get returned
  tx,        \* tx[s]: transaction status of session s
  pending,   \* pending[s]: uncommitted work of session s
  stored,    \* committed generations of business rows
  catalog    \* catalog[a]: the committed catalog entry of a

callVars == <<request, session, existing>>
dbVars == <<stored, catalog>>
vars == <<request, session, stage, existing, tx, pending, stored, catalog>>

Modes == {"skip", "replace"}
Requests == [artifact : Artifacts, mode : Modes]

\* Stages outside and inside the try block of write_artifact_rows.
BeforeTry == {"ensure_catalog", "ensure_table", "catalog_get", "promote"}
InTry == {"delete", "deleting", "copy", "upsert", "commit"}
Active == BeforeTry \cup InTry
Final == {"loaded", "skipped", "failed"}

TxStatus == {"closed", "idle", "open", "aborted"}
Usable(s) == tx[s] \in {"idle", "open"}

\* target: rows a running DELETE has found and may still wait for.
Work == [target : SUBSET Calls, deleted : SUBSET Calls,
         copied : SUBSET Calls, entry : Calls \cup {NoCall}]
NoWork == [target |-> {}, deleted |-> {}, copied |-> {}, entry |-> NoCall]

Of(a) == {c \in Calls : request[c].artifact = a}
Busy(s) == \E c \in Calls : session[c] = s /\ stage[c] \in Active

Init ==
  /\ request \in [Calls -> Requests]
  /\ session = [c \in Calls |-> NoSession]
  /\ stage = [c \in Calls |-> "new"]
  /\ existing = [c \in Calls |-> NoCall]
  /\ tx = [s \in Sessions |-> "closed"]
  /\ pending = [s \in Sessions |-> NoWork]
  /\ stored = {}
  /\ catalog = [a \in Artifacts |-> NoCall]

-----------------------------------------------------------------------------
(* Helpers: one change of a call's stage, one change of a session.         *)

Goto(c, next) == stage' = [stage EXCEPT ![c] = next]

SetSession(s, status, work) ==
  /\ tx' = [tx EXCEPT ![s] = status]
  /\ pending' = [pending EXCEPT ![s] = work]

\* The database after session s commits.
Publish(s) ==
  LET e == pending[s].entry IN
  /\ stored' = (stored \ pending[s].deleted) \cup pending[s].copied
  /\ catalog' = IF e = NoCall THEN catalog
                ELSE [catalog EXCEPT ![request[e].artifact] = e]

-----------------------------------------------------------------------------
(* Sessions.                                                               *)

\* A new PsycopgSink: connected, no transaction begun.
Connect(s) ==
  /\ tx[s] = "closed" /\ ~Busy(s)
  /\ SetSession(s, "idle", NoWork)
  /\ UNCHANGED <<callVars, stage, dbVars>>

\* close(): PostgreSQL rolls back what was not committed.
Close(s) ==
  /\ tx[s] # "closed" /\ ~Busy(s)
  /\ SetSession(s, "closed", NoWork)
  /\ UNCHANGED <<callVars, stage, dbVars>>

\* rollback(): a caller that shares a sink clears a failed transaction.
Rollback(s) ==
  /\ tx[s] \in {"open", "aborted"} /\ ~Busy(s)
  /\ SetSession(s, "idle", NoWork)
  /\ UNCHANGED <<callVars, stage, dbVars>>

\* count_rows(): a SELECT that opens a transaction and leaves it open, or
\* fails and leaves it aborted.
CountRows(s) ==
  /\ Usable(s) /\ ~Busy(s)
  /\ SetSession(s, "open", pending[s]) \/ SetSession(s, "aborted", NoWork)
  /\ UNCHANGED <<callVars, stage, dbVars>>

\* The connection breaks or the process dies: the server drops the
\* transaction and the call, if one is running, ends in an error.
ConnectionLost(s) ==
  /\ tx[s] # "closed"
  /\ SetSession(s, "closed", NoWork)
  /\ stage' = [c \in Calls |->
                 IF session[c] = s /\ stage[c] \in Active THEN "failed"
                 ELSE stage[c]]
  /\ UNCHANGED <<callVars, dbVars>>

-----------------------------------------------------------------------------
(* load_table.                                                             *)

Start(c, s) ==
  /\ stage[c] = "new" /\ ~Busy(s)
  /\ session' = [session EXCEPT ![c] = s]
  /\ Goto(c, "ensure_catalog")
  /\ UNCHANGED <<request, existing, tx, pending, dbVars>>

\* ensure_catalog: CREATE TABLE IF NOT EXISTS, the status migration, commit.
\* The commit also publishes whatever an earlier call left uncommitted.
EnsureCatalog(c) ==
  LET s == session[c] IN
  /\ stage[c] = "ensure_catalog" /\ Usable(s)
  /\ Publish(s)
  /\ SetSession(s, "idle", NoWork)
  /\ Goto(c, "ensure_table")
  /\ UNCHANGED callVars

\* ensure_table: create or evolve the relation, comment it, commit.
EnsureTable(c) ==
  LET s == session[c] IN
  /\ stage[c] = "ensure_table" /\ Usable(s)
  /\ Publish(s)
  /\ SetSession(s, "idle", NoWork)
  /\ Goto(c, "catalog_get")
  /\ UNCHANGED callVars

\* catalog_get and the duplicate decision.  The SELECT opens a transaction
\* that a skipped call leaves open.
CatalogGet(c) ==
  LET s == session[c]
      found == catalog[request[c].artifact]
      skip == found # NoCall /\ request[c].mode = "skip" IN
  /\ stage[c] = "catalog_get" /\ Usable(s)
  /\ existing' = [existing EXCEPT ![c] = found]
  /\ SetSession(s, "open", pending[s])
  /\ Goto(c, IF skip THEN "skipped" ELSE "promote")
  /\ UNCHANGED <<request, session, dbVars>>

\* `replaced' in load_table: decided by the entry read earlier.
Replaces(c) == request[c].mode = "replace" /\ existing[c] # NoCall
AfterDelete(c) ==
  IF request[c].artifact \in EmptyArtifacts THEN "upsert" ELSE "copy"

\* Mutant: the rows of the earlier load are not deleted.
AfterPromoteKeepsRows(c) == AfterDelete(c)
AfterPromote(c) == IF Replaces(c) THEN "delete" ELSE AfterDelete(c)

\* write_artifact_rows up to the try: the live column types are read.
ColumnsToPromote(c) ==
  /\ stage[c] = "promote" /\ Usable(session[c])
  /\ SetSession(session[c], "open", pending[session[c]])
  /\ Goto(c, AfterPromote(c))
  /\ UNCHANGED <<callVars, dbVars>>

\* DELETE takes its snapshot when the statement starts ...
BeginDelete(c) ==
  LET s == session[c] IN
  /\ stage[c] = "delete" /\ Usable(s)
  /\ SetSession(s, "open", [pending[s] EXCEPT
                              !.target = stored \cap Of(request[c].artifact)])
  /\ Goto(c, "deleting")
  /\ UNCHANGED <<callVars, dbVars>>

\* Mutant: the deletion is committed on its own.
FinishDeleteCommits(c) ==
  LET s == session[c] IN
  /\ stage[c] = "deleting" /\ Usable(s)
  /\ stored' = stored \ pending[s].target
  /\ SetSession(s, "idle", NoWork)
  /\ Goto(c, AfterDelete(c))
  /\ UNCHANGED <<callVars, catalog>>

\* ... waits for transactions that have deleted the same rows, and passes
\* over the rows that are gone when those commit.
FinishDelete(c) ==
  LET s == session[c] IN
  /\ stage[c] = "deleting" /\ Usable(s)
  /\ \A r \in Sessions \ {s} : pending[r].deleted \cap pending[s].target = {}
  /\ SetSession(s, "open", [pending[s] EXCEPT
                              !.deleted = @ \cup (pending[s].target \cap stored),
                              !.target = {}])
  /\ Goto(c, AfterDelete(c))
  /\ UNCHANGED <<callVars, dbVars>>

\* COPY FROM STDIN.
CopyRows(c) ==
  LET s == session[c] IN
  /\ stage[c] = "copy" /\ Usable(s)
  /\ SetSession(s, "open", [pending[s] EXCEPT !.copied = @ \cup {c}])
  /\ Goto(c, "upsert")
  /\ UNCHANGED <<callVars, dbVars>>

\* INSERT ... ON CONFLICT DO UPDATE waits while another transaction has an
\* uncommitted entry for the same key.
UpsertCatalog(c) ==
  LET s == session[c] IN
  /\ stage[c] = "upsert" /\ Usable(s)
  /\ \A r \in Sessions \ {s} :
       pending[r].entry # NoCall =>
         request[pending[r].entry].artifact # request[c].artifact
  /\ SetSession(s, "open", [pending[s] EXCEPT !.entry = c])
  /\ Goto(c, "commit")
  /\ UNCHANGED <<callVars, dbVars>>

\* Mutant: write_artifact_rows returns without committing.
CommitForgotten(c) ==
  /\ stage[c] = "commit" /\ Usable(session[c])
  /\ Goto(c, "loaded")
  /\ UNCHANGED <<callVars, tx, pending, dbVars>>

Commit(c) ==
  LET s == session[c] IN
  /\ stage[c] = "commit" /\ Usable(s)
  /\ Publish(s)
  /\ SetSession(s, "idle", NoWork)
  /\ Goto(c, "loaded")
  /\ UNCHANGED callVars

\* The server commits but the answer is lost with the connection; the
\* rollback in the except block fails too and the call raises.
CommitInDoubt(c) ==
  LET s == session[c] IN
  /\ stage[c] = "commit" /\ Usable(s)
  /\ Publish(s)
  /\ SetSession(s, "closed", NoWork)
  /\ Goto(c, "failed")
  /\ UNCHANGED callVars

-----------------------------------------------------------------------------
(* Failures of a call.                                                     *)

\* A statement before the try fails: nobody rolls back here.  An error of
\* the server aborts the transaction; an exception raised by the client
\* between statements leaves it open with its work.
StatementFails(c) ==
  LET s == session[c] IN
  /\ stage[c] \in BeforeTry /\ Usable(s)
  /\ \/ SetSession(s, "aborted", NoWork)
     \/ SetSession(s, "open", pending[s])
  /\ Goto(c, "failed")
  /\ UNCHANGED <<callVars, dbVars>>

\* Every statement on an aborted or closed session is refused.
StatementRefused(c) ==
  /\ stage[c] \in BeforeTry /\ ~Usable(session[c])
  /\ Goto(c, "failed")
  /\ UNCHANGED <<callVars, tx, pending, dbVars>>

\* Mutant: the except block re-raises without rolling back.
WriteFailsOpen(c) ==
  /\ stage[c] \in InTry /\ Usable(session[c])
  /\ Goto(c, "failed")
  /\ UNCHANGED <<callVars, tx, pending, dbVars>>

\* A statement inside the try fails (deadlock, timeout, bad value, refused
\* commit): roll back, raise LoadError.
WriteFails(c) ==
  /\ stage[c] \in InTry /\ Usable(session[c])
  /\ SetSession(session[c], "idle", NoWork)
  /\ Goto(c, "failed")
  /\ UNCHANGED <<callVars, dbVars>>

-----------------------------------------------------------------------------
\* What a running call does by itself, without outside failures.
Proceed(c) ==
  \/ EnsureCatalog(c) \/ EnsureTable(c) \/ CatalogGet(c)
  \/ ColumnsToPromote(c) \/ BeginDelete(c) \/ FinishDelete(c)
  \/ CopyRows(c) \/ UpsertCatalog(c) \/ Commit(c) \/ StatementRefused(c)

CallNext(c) ==
  \/ \E s \in Sessions : Start(c, s)
  \/ Proceed(c)
  \/ CommitInDoubt(c) \/ StatementFails(c) \/ WriteFails(c)

SessionNext(s) ==
  \/ Connect(s) \/ Close(s) \/ Rollback(s) \/ CountRows(s)
  \/ ConnectionLost(s)

Next == (\E c \in Calls : CallNext(c)) \/ (\E s \in Sessions : SessionNext(s))

Spec == Init /\ [][Next]_vars

(***************************************************************************)
(* The deployment the documents describe: one writer per artifact.  A      *)
(* single batch has it (one session, one file at a time); across processes *)
(* nothing in the code enforces it.                                        *)
(***************************************************************************)
OneWriterPerArtifact ==
  \A c, d \in Calls :
    /\ stage[c] \in Active /\ stage[d] \in Active
    /\ request[c].artifact = request[d].artifact
    => c = d

ExclusiveSpec == Init /\ [][Next /\ OneWriterPerArtifact']_vars

-----------------------------------------------------------------------------
(* Properties.                                                             *)

\* Types, and the shape of a session's work: a call inside the try block
\* runs in an open transaction, and a session runs at most one call.
TypeOK ==
  /\ request \in [Calls -> Requests]
  /\ session \in [Calls -> Sessions \cup {NoSession}]
  /\ stage \in [Calls -> {"new"} \cup Active \cup Final]
  /\ existing \in [Calls -> Calls \cup {NoCall}]
  /\ tx \in [Sessions -> TxStatus]
  /\ pending \in [Sessions -> Work]
  /\ stored \subseteq Calls
  /\ catalog \in [Artifacts -> Calls \cup {NoCall}]
  /\ \A c \in Calls : stage[c] \in Active => session[c] \in Sessions
  /\ \A c \in Calls : stage[c] \in InTry => tx[session[c]] = "open"
  /\ \A c, d \in Calls :
       stage[c] \in Active /\ stage[d] \in Active /\ session[c] = session[d]
         => c = d

\* The catalog never promises rows the table does not hold, and the table
\* never holds rows of an artifact the catalog does not know: an entry names
\* a load of that artifact all of whose rows are committed.  Holds for any
\* number of concurrent loads, replacements, crashes and lost answers
\* (write_artifact_rows: rows and catalog entry in one transaction).
CatalogDescribesRows ==
  \A a \in Artifacts :
    /\ catalog[a] # NoCall =>
         /\ catalog[a] \in Of(a)
         /\ a \notin EmptyArtifacts => catalog[a] \in stored
    /\ stored \cap Of(a) # {} => catalog[a] # NoCall

\* A caller that was told "loaded" or "skipped" finds the artifact's rows and
\* entry, at that moment and ever after, whatever other calls did since
\* (load_table's LoadResult).
SuccessIsDurable ==
  \A c \in Calls :
    LET a == request[c].artifact IN
    stage[c] \in {"loaded", "skipped"} =>
      /\ catalog[a] # NoCall
      /\ a \notin EmptyArtifacts => stored \cap Of(a) # {}

\* Rows of an artifact disappear only in the step in which a replacing call
\* commits its own rows and its entry: no reader ever sees the artifact
\* emptied by a replacement that failed or is half done (load_table: "no
\* committed empty state if insert fails").
AtomicReplacement ==
  [][\A a \in Artifacts :
       (stored \ stored') \cap Of(a) # {} =>
         \E c \in (stored' \ stored) \cap Of(a) :
           /\ stage[c] = "commit" /\ request[c].mode = "replace"
           /\ catalog'[a] = c]_vars

\* Work of one call is never published by another: a generation or an entry
\* becomes visible only when its own call commits, though every load starts
\* with two commits on a session that may hold an earlier call's leftovers.
OnlyOwnCommitPublishes ==
  [][/\ \A c \in stored' \ stored : stage[c] = "commit"
     /\ \A a \in Artifacts :
          catalog'[a] # catalog[a] => stage[catalog'[a]] = "commit"]_vars

\* With one writer per artifact the table holds exactly the rows of the load
\* the catalog names: nothing is loaded twice, in either duplicate mode and
\* through any sequence of failures, lost answers and retries (README: the
\* default `skip' is idempotent).
ExactlyOnce ==
  \A a \in Artifacts :
    stored \cap Of(a) =
      IF catalog[a] = NoCall \/ a \in EmptyArtifacts THEN {} ELSE {catalog[a]}

\* The same promise for concurrent callers that all use `skip'.  The code
\* reads the catalog and writes later without a lock in between.
SkipIsIdempotent ==
  (\A c \in Calls : request[c].mode = "skip") =>
    \A a \in Artifacts : \A c, d \in stored \cap Of(a) : c = d

(***************************************************************************)
(* With one writer per artifact the loader implements the ledger.          *)
(***************************************************************************)
Ledger == INSTANCE ArtifactLedger WITH
  contents <- [a \in Artifacts |-> stored \cap Of(a)],
  known <- {a \in Artifacts : catalog[a] # NoCall},
  outcome <- [c \in Calls |->
                IF stage[c] \in Final THEN stage[c] ELSE "pending"]

ImplementsLedger == Ledger!Spec
=============================================================================
