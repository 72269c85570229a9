--------------------------- MODULE CatalogUpgrade ---------------------------
(***************************************************************************)
(* Two releases share a database.  The previous one keeps the status of a  *)
(* load in column status of the ingest catalog and the rows of a source    *)
(* table under a one-word name; the present one renames the column when a  *)
(* load sets the catalog up, and refuses to create its own table beside    *)
(* the old one.  Loads of both run while the present release is being      *)
(* deployed, and an operator may run the down migration at any time.       *)
(*                                                                         *)
(* Data: of the business tables one source table is kept, with its name in *)
(* either release, and of the rows only whether the table has any.         *)
(***************************************************************************)
EXTENDS Naturals, FiniteSets

CONSTANTS
  Loads,       \* processes that load into the source table
  MaxFailures  \* bound on statements that fail for outside reasons

ASSUME FailuresAssumption == MaxFailures \in Nat

VARIABLES
  column,    \* status column(s) of the committed catalog
  tables,    \* committed business tables
  written,   \* the tables that hold rows
  release,   \* the release deployed: "previous", both while "rolling", or "present"
  reverted,  \* the down migration has been run
  failures,  \* number of outside failures
  stage,     \* stage[l]: the statement load l executes next
  runs,      \* runs[l]: the release l belongs to
  draft,     \* draft[l]: status column l has set and not committed
  lock       \* lock[l]: l's lock on the catalog

shared == <<column, tables, written>>
operator == <<release, reverted, failures>>
vars == <<shared, operator, stage, runs, draft, lock>>

Releases == {"previous", "present"}
ColumnStates == {"none", "status", "load_status_code", "both"}
Stages == {"idle", "catalog", "check", "rename", "setup", "legacy", "create",
           "get", "write", "skipped"}

\* The names a release uses.
StatusColumn(r) == IF r = "present" THEN "load_status_code" ELSE "status"
Table(r) == IF r = "present" THEN "new" ELSE "old"

Init ==
  /\ column \in {"none", "status", "both"}
  /\ tables \in SUBSET {"old"} /\ written \in SUBSET tables
  /\ release \in Releases /\ reverted = FALSE /\ failures = 0
  /\ stage = [l \in Loads |-> "idle"]
  /\ runs = [l \in Loads |-> "previous"]
  /\ draft = [l \in Loads |-> "none"]
  /\ lock = [l \in Loads |-> "none"]

-----------------------------------------------------------------------------
(* The catalog as one transaction sees it, and its locks.                  *)

View(l) == IF draft[l] = "none" THEN column ELSE draft[l]

\* ACCESS EXCLUSIVE waits for every lock, ACCESS SHARE for an exclusive one.
CanLock(l, mode) ==
  \A k \in Loads \ {l} :
    lock[k] = "none" \/ (mode = "shared" /\ lock[k] = "shared")

Goto(l, next) == stage' = [stage EXCEPT ![l] = next]
EndTx(l) ==
  draft' = [draft EXCEPT ![l] = "none"] /\ lock' = [lock EXCEPT ![l] = "none"]

\* LoadError: the transaction is aborted and the load is over.
Fail(l) == Goto(l, "idle") /\ EndTx(l) /\ UNCHANGED <<shared, operator, runs>>

Deployed == IF release = "rolling" THEN Releases ELSE {release}

\* A load begins, the first or one tried again.
Start(l) ==
  /\ stage[l] = "idle"
  /\ \E r \in Deployed : runs' = [runs EXCEPT ![l] = r]
  /\ Goto(l, "catalog")
  /\ UNCHANGED <<shared, operator, draft, lock>>

-----------------------------------------------------------------------------
(* ensure_catalog.                                                         *)

\* CATALOG_DDL: CREATE TABLE IF NOT EXISTS, which may fail on a duplicate
\* key while another transaction creates the table.
CreateCatalog(l) ==
  /\ stage[l] = "catalog"
  /\ IF column = "none" /\ ~CanLock(l, "exclusive") THEN Fail(l)
     ELSE /\ IF column = "none"
               THEN /\ draft' = [draft EXCEPT ![l] = StatusColumn(runs[l])]
                    /\ lock' = [lock EXCEPT ![l] = "exclusive"]
               ELSE UNCHANGED <<draft, lock>>
          /\ Goto(l, IF runs[l] = "present" THEN "check" ELSE "setup")
          /\ UNCHANGED <<shared, operator, runs>>

\* Mutant: the column in use is not looked for before the rename.
CheckStatusOnly(l) ==
  /\ stage[l] = "check"
  /\ Goto(l, IF View(l) = "status" THEN "rename" ELSE "setup")
  /\ UNCHANGED <<shared, operator, runs, draft, lock>>

\* CATALOG_STATUS_MIGRATION_DDL: the conditions, read without a lock.
CheckStatus(l) ==
  /\ stage[l] = "check"
  /\ IF View(l) = "both" THEN Fail(l)
     ELSE /\ Goto(l, IF View(l) = "status" THEN "rename" ELSE "setup")
          /\ UNCHANGED <<shared, operator, runs, draft, lock>>

\* Its ALTER TABLE ... RENAME, which fails when the column is gone.
RenameStatus(l) ==
  /\ stage[l] = "rename" /\ CanLock(l, "exclusive")
  /\ IF View(l) # "status" THEN Fail(l)
     ELSE /\ draft' = [draft EXCEPT ![l] = "load_status_code"]
          /\ lock' = [lock EXCEPT ![l] = "exclusive"]
          /\ Goto(l, "setup")
          /\ UNCHANGED <<shared, operator, runs>>

\* Mutant: the migration is rolled back.
CommitCreation(l) ==
  /\ stage[l] = "setup"
  /\ column' = (IF column = "none" THEN View(l) ELSE column) /\ EndTx(l)
  /\ Goto(l, IF runs[l] = "present" THEN "legacy" ELSE "create")
  /\ UNCHANGED <<tables, written, operator, runs>>

CommitCatalog(l) ==
  /\ stage[l] = "setup"
  /\ column' = View(l) /\ EndTx(l)
  /\ Goto(l, IF runs[l] = "present" THEN "legacy" ELSE "create")
  /\ UNCHANGED <<tables, written, operator, runs>>

-----------------------------------------------------------------------------
(* ensure_table.                                                           *)

\* Mutant: the old table is no reason to stop.
IgnoreLegacyTable(l) ==
  /\ stage[l] = "legacy" /\ Goto(l, "create")
  /\ UNCHANGED <<shared, operator, runs, draft, lock>>

\* _reject_legacy_table_split: a statement of its own before the CREATE.
RejectLegacyTable(l) ==
  /\ stage[l] = "legacy"
  /\ IF "old" \in tables THEN Fail(l)
     ELSE Goto(l, "create") /\ UNCHANGED <<shared, operator, runs, draft, lock>>

\* CREATE TABLE IF NOT EXISTS and its commit, which makes it visible.
CreateTable(l) ==
  /\ stage[l] = "create"
  /\ tables' = tables \cup {Table(runs[l])}
  /\ Goto(l, "get")
  /\ UNCHANGED <<column, written, operator, runs, draft, lock>>

-----------------------------------------------------------------------------
(* load_table after the setup: one transaction.                            *)

\* Mutant: the query is a transaction of its own.
ReadEntryOnly(l) ==
  /\ stage[l] = "get" /\ CanLock(l, "shared")
  /\ IF column \notin {StatusColumn(runs[l]), "both"} THEN Fail(l)
     ELSE /\ \/ Goto(l, "write")
             \/ Table(runs[l]) \in written /\ Goto(l, "skipped")
          /\ UNCHANGED <<shared, operator, runs, draft, lock>>

\* catalog_get: the query fails when the release's column is not there; an
\* artifact that is recorded is skipped.
ReadEntry(l) ==
  /\ stage[l] = "get" /\ CanLock(l, "shared")
  /\ IF column \notin {StatusColumn(runs[l]), "both"} THEN Fail(l)
     ELSE /\ \/ Goto(l, "write")
             \/ Table(runs[l]) \in written /\ Goto(l, "skipped")
          /\ lock' = [lock EXCEPT ![l] = "shared"]
          /\ UNCHANGED <<shared, operator, runs, draft>>

\* write_artifact_rows: COPY, the catalog entry and the commit.
WriteRows(l) ==
  /\ stage[l] = "write" /\ CanLock(l, "shared")
  /\ IF column \notin {StatusColumn(runs[l]), "both"} THEN Fail(l)
     ELSE /\ written' = written \cup {Table(runs[l])}
          /\ Goto(l, "idle") /\ EndTx(l)
          /\ UNCHANGED <<column, tables, operator, runs>>

\* A skipped load keeps its transaction until the sink is closed.
CloseSink(l) == stage[l] = "skipped" /\ Fail(l)

-----------------------------------------------------------------------------
\* A statement fails for a reason outside: connection lost, timeout.
StatementFails(l) ==
  /\ stage[l] # "idle" /\ failures < MaxFailures
  /\ failures' = failures + 1
  /\ Goto(l, "idle") /\ EndTx(l)
  /\ UNCHANGED <<shared, release, reverted, runs>>

\* The operator deploys the present release, beside the previous one first.
Deploy ==
  /\ \/ release = "previous" /\ release' = "rolling"
     \/ release = "rolling" /\ release' = "present"
  /\ UNCHANGED <<shared, reverted, failures, stage, runs, draft, lock>>

\* CATALOG_STATUS_ROLLBACK_DDL, and the previous release again; it raises
\* when both columns exist.
Revert ==
  /\ release # "previous" /\ column \in {"status", "load_status_code"}
  /\ \A l \in Loads : lock[l] = "none"
  /\ column' = "status" /\ release' = "previous" /\ reverted' = TRUE
  /\ UNCHANGED <<tables, written, failures, stage, runs, draft, lock>>

LoadStep(l) ==
  \/ Start(l) \/ CreateCatalog(l) \/ CheckStatus(l) \/ RenameStatus(l) \/ CommitCatalog(l)
  \/ RejectLegacyTable(l) \/ CreateTable(l) \/ ReadEntry(l) \/ WriteRows(l) \/ CloseSink(l)

Next ==
  \/ \E l \in Loads : LoadStep(l) \/ StatementFails(l)
  \/ Deploy \/ Revert

Spec == Init /\ [][Next]_vars

\* Loads are tried again until they succeed, and the database executes
\* every statement that can get its lock.
FairSpec == Spec /\ \A l \in Loads : WF_vars(LoadStep(l))

-----------------------------------------------------------------------------
Typed ==
  /\ column \in ColumnStates /\ tables \subseteq {"old", "new"}
  /\ written \subseteq tables
  /\ release \in Releases \cup {"rolling"} /\ reverted \in BOOLEAN
  /\ failures \in 0..MaxFailures
  /\ stage \in [Loads -> Stages] /\ runs \in [Loads -> Releases]
  /\ draft \in [Loads -> {"none", "status", "load_status_code"}]
  /\ lock \in [Loads -> {"none", "shared", "exclusive"}]

Held(l) ==
  /\ (draft[l] # "none") <=> (lock[l] = "exclusive")
  /\ lock[l] = "exclusive" => stage[l] \in {"check", "setup"}
  /\ (lock[l] = "shared") <=> (stage[l] \in {"write", "skipped"})

\* The types, and what a transaction holds: a column it has set is covered
\* by the exclusive lock, which belongs to the set-up of the catalog alone;
\* a load past catalog_get shares the catalog until it ends.
UpgradeTypeOK == Typed /\ \A l \in Loads : Held(l)

\* CatalogSteady: a load that has read its entry (catalog_get) still finds
\* the column it read when it writes, although loads of the other release
\* rename it at their start and the operator renames it back.
CatalogSteady ==
  \A l \in Loads :
    stage[l] = "write" => column \in {StatusColumn(runs[l]), "both"}

\* HistoryNotSplit: until the migration is reverted, the rows of one source
\* table are never spread over the old and the new relation, although the
\* check for the old one (_reject_legacy_table_split) and the CREATE are
\* separate statements and loads of the previous release may run in
\* between.  A load of the previous release gets past the check unseen
\* only when it creates its table after the check, that is after the
\* rename, and then its catalog_get fails.
HistoryNotSplit == reverted \/ ~({"old", "new"} \subseteq written)

\* AmbiguityBlocks: where the catalog has both columns, loads of the present
\* release choose neither (CATALOG_STATUS_MIGRATION_DDL raises): the columns
\* stay and the present relation is neither created nor written.
AmbiguityBlocks ==
  [][column = "both" =>
       /\ column' = "both"
       /\ "new" \in tables' => "new" \in tables
       /\ "new" \in written' => "new" \in written]_vars

\* UpgradeSettles: once only the present release is deployed, the status
\* column of an old installation is renamed in the end, unless the operator
\* goes back, whatever loads fail on the way and whatever loads of the
\* previous release were still running.
UpgradeSettles ==
  (release = "present") ~> (column # "status" \/ release # "present")
=============================================================================
