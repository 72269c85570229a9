-------------------------- MODULE SchemaEvolution --------------------------
(***************************************************************************)
(* How one business table takes the shape of the loads written into it:    *)
(* ensure_table creates it or adds columns, write_artifact_rows widens     *)
(* columns to TEXT in the transaction that copies the rows.  Several       *)
(* workers, each with a PsycopgSink of its own, run one load after another *)
(* against the same table; DDL is transactional and takes the locks        *)
(* PostgreSQL takes.                                                       *)
(*                                                                         *)
(* Data: a load is the table of one artifact.  All that matters of it here *)
(* is the type inferred for each column from the sampled rows, and the     *)
(* columns with a later cell that does not conform to that type.           *)
(***************************************************************************)
CONSTANTS
  Workers,        \* sinks that load into the table
  Columns,        \* database column names
  Types,          \* PostgreSQL column types, "TEXT" among them
  Absent,         \* no such column
  Loads,          \* artifacts, each with one table of rows
  Inferred,       \* Inferred[l][k]: type of column k in l, or Absent
  Odd,            \* Odd[l]: columns of l with a cell outside their type
  Commented,      \* loads whose schema carries column comments
  Legacy,         \* Legacy[l][k]: the name an earlier release gave the header
                  \* of column k in l (k itself, another one, or Absent: one
                  \* that is not among the columns)
  InitialTables   \* shapes the table may have before the first load

Shapes == [Columns -> Types \cup {Absent}]
NoTable == [k \in Columns |-> Absent]

ASSUME TypesAssumption == "TEXT" \in Types /\ Absent \notin Types \cup Columns
ASSUME LoadsAssumption ==
  /\ Inferred \in [Loads -> Shapes]
  /\ Odd \in [Loads -> SUBSET Columns]
  /\ Commented \subseteq Loads
  /\ \A l \in Loads : \E k \in Columns : Inferred[l][k] # Absent
ASSUME LegacyAssumption ==
  /\ Legacy \in [Loads -> [Columns -> Columns \cup {Absent}]]
  /\ InitialTables \subseteq Shapes

VARIABLES
  types,    \* types[k]: the committed type of column k
  stored,   \* loads whose rows are committed
  stage,    \* stage[w]: the statement w executes next, or the load's outcome
  load,     \* load[w]: the load w is working on, or the last one
  names,    \* names[w]: the column names w read before adding columns
  promote,  \* promote[w]: the columns w still has to widen
  tx,       \* tx[w]: transaction status of w's session
  draft,    \* draft[w]: column types w has set and not committed
  lock,     \* lock[w]: the strongest table lock w's transaction holds
  inherited \* history: the table as it was before the first load

local == <<load, names, promote>>
vars == <<types, stored, stage, load, names, promote, tx, draft, lock>>

\* Stages before, inside and after the try block of write_artifact_rows.
BeforeTry == {"ensure_catalog", "create", "columns", "add", "evolved",
              "catalog_get", "read_types"}
InTry == {"write", "commit"}
Running == BeforeTry \cup InTry
Returned == {"loaded", "skipped"}
Final == Returned \cup {"counted", "failed"}

Schema(l) == {k \in Columns : Inferred[l][k] # Absent}
Exists(shape) == shape # NoTable

\* The columns of l whose header an earlier release gave another name.
Renamed(l) == {k \in Schema(l) : Legacy[l][k] \notin {k, Absent}}

\* The table as w's own statements see it.
View(w) ==
  [k \in Columns |-> IF draft[w][k] = Absent THEN types[k] ELSE draft[w][k]]

\* COPY accepts l's cells: each column is TEXT, or has the inferred type and
\* every cell conforms to it.
Fits(shape, l) ==
  \A k \in Schema(l) :
    \/ shape[k] = "TEXT"
    \/ shape[k] = Inferred[l][k] /\ k \notin Odd[l]

Init ==
  /\ types \in InitialTables
  /\ stored = {}
  /\ stage = [w \in Workers |-> "new"]
  /\ load \in [Workers -> Loads]
  /\ names = [w \in Workers |-> {}]
  /\ promote = [w \in Workers |-> {}]
  /\ tx = [w \in Workers |-> "closed"]
  /\ draft = [w \in Workers |-> NoTable]
  /\ lock = [w \in Workers |-> "none"]
  /\ inherited = types

-----------------------------------------------------------------------------
(* Sessions and table locks.                                               *)

\* "shared": ACCESS SHARE and ROW EXCLUSIVE (SELECT, DELETE, COPY);
\* "comment": SHARE UPDATE EXCLUSIVE (COMMENT); "exclusive": ACCESS
\* EXCLUSIVE (CREATE, ALTER).
LockModes == {"none", "shared", "comment", "exclusive"}
Conflict(m, n) ==
  \/ "exclusive" \in {m, n} /\ "none" \notin {m, n}
  \/ m = "comment" /\ n = "comment"

\* A statement waits while another transaction holds a conflicting lock.
CanLock(w, mode) == \A v \in Workers \ {w} : ~Conflict(mode, lock[v])

\* A transaction keeps its strongest lock until it ends.
Stronger(held, mode) ==
  IF mode = "none" \/ held = "exclusive" \/ (held = "comment" /\ mode = "shared")
    THEN held ELSE mode

Usable(w) == tx[w] \in {"idle", "open"}
Goto(w, next) == stage' = [stage EXCEPT ![w] = next]

\* A statement runs in w's transaction and holds `mode' from then on.
Statement(w, mode) ==
  /\ Usable(w) /\ CanLock(w, mode)
  /\ tx' = [tx EXCEPT ![w] = "open"]
  /\ lock' = [lock EXCEPT ![w] = Stronger(@, mode)]

\* w's transaction ends; uncommitted DDL and locks are gone.
EndTx(w, status) ==
  /\ tx' = [tx EXCEPT ![w] = status]
  /\ draft' = [draft EXCEPT ![w] = NoTable]
  /\ lock' = [lock EXCEPT ![w] = "none"]

CommitTx(w, status) == types' = View(w) /\ EndTx(w, status)

Connect(w) ==
  /\ tx[w] = "closed" /\ stage[w] \notin Running
  /\ EndTx(w, "idle")
  /\ UNCHANGED <<types, stored, stage, local>>

Close(w) ==
  /\ tx[w] # "closed" /\ stage[w] \notin Running
  /\ EndTx(w, "closed")
  /\ UNCHANGED <<types, stored, stage, local>>

\* What run_batch does after a failed file.
Rollback(w) ==
  /\ tx[w] \in {"open", "aborted"} /\ stage[w] \notin Running
  /\ EndTx(w, "idle")
  /\ UNCHANGED <<types, stored, stage, local>>

ConnectionLost(w) ==
  /\ tx[w] # "closed"
  /\ EndTx(w, "closed")
  /\ IF stage[w] \in Running \cup Returned THEN Goto(w, "failed")
                                           ELSE UNCHANGED stage
  /\ UNCHANGED <<types, stored, local>>

-----------------------------------------------------------------------------
(* load_table, and the row count its caller takes afterwards.              *)

NextLoad(w, l) ==
  /\ stage[w] \notin Running
  /\ load' = [load EXCEPT ![w] = l]
  /\ Goto(w, "ensure_catalog")
  /\ UNCHANGED <<types, stored, names, promote, tx, draft, lock>>

\* The catalog's own DDL; its commit also publishes DDL that an earlier call
\* on this sink has left uncommitted.
EnsureCatalog(w) ==
  /\ stage[w] = "ensure_catalog" /\ Usable(w)
  /\ CommitTx(w, "idle")
  /\ Goto(w, "create")
  /\ UNCHANGED <<stored, local>>

\* CREATE TABLE IF NOT EXISTS: waits for another uncommitted CREATE, takes no
\* lock on a table that exists.
CreateTable(w) ==
  /\ stage[w] = "create"
  /\ IF Exists(types)
       THEN Statement(w, "none") /\ UNCHANGED draft
       ELSE /\ Statement(w, "exclusive")
            /\ draft' = [draft EXCEPT ![w] = Inferred[load[w]]]
  /\ Goto(w, "columns")
  /\ UNCHANGED <<types, stored, local>>

\* _ensure_missing_columns: read the column names, refuse a table with a
\* column named as an earlier release would have named one of the headers.
LegacyColumn(w) ==
  \E k \in Renamed(load[w]) : View(w)[Legacy[load[w]][k]] # Absent

\* Mutant: the legacy names are not looked for.
ReadColumnsOnly(w) ==
  /\ stage[w] = "columns"
  /\ Statement(w, "none")
  /\ names' = [names EXCEPT ![w] = {k \in Columns : View(w)[k] # Absent}]
  /\ Goto(w, "add")
  /\ UNCHANGED <<types, stored, load, promote, draft>>

ReadColumns(w) ==
  /\ stage[w] = "columns"
  /\ Statement(w, "none")
  /\ names' = [names EXCEPT ![w] = {k \in Columns : View(w)[k] # Absent}]
  /\ Goto(w, IF LegacyColumn(w) THEN "failed" ELSE "add")
  /\ UNCHANGED <<types, stored, load, promote, draft>>

\* ALTER TABLE ADD COLUMN IF NOT EXISTS: a column that a concurrent load has
\* added since the names were read is left as it is.
AddColumn(w, k) ==
  /\ stage[w] = "add"
  /\ k \in Schema(load[w]) \ names[w]
  /\ Statement(w, "exclusive")
  /\ draft' = IF View(w)[k] = Absent
                THEN [draft EXCEPT ![w][k] = Inferred[load[w]][k]]
                ELSE draft
  /\ names' = [names EXCEPT ![w] = @ \cup {k}]
  /\ UNCHANGED <<types, stored, stage, load, promote>>

CommentColumns(w) ==
  /\ stage[w] = "add"
  /\ Schema(load[w]) \subseteq names[w]
  /\ Statement(w, IF load[w] \in Commented THEN "comment" ELSE "none")
  /\ Goto(w, "evolved")
  /\ UNCHANGED <<types, stored, local, draft>>

CommitSchema(w) ==
  /\ stage[w] = "evolved" /\ Usable(w)
  /\ CommitTx(w, "idle")
  /\ Goto(w, "catalog_get")
  /\ UNCHANGED <<stored, local>>

\* An artifact that is in the catalog is skipped or, with
\* on_duplicate="replace", written again.
CatalogGet(w) ==
  /\ stage[w] = "catalog_get"
  /\ Statement(w, "none")
  /\ \/ load[w] \in stored /\ Goto(w, "skipped")
     \/ Goto(w, "read_types")
  /\ UNCHANGED <<types, stored, local, draft>>

\* Mutant: only the inferred type is compared, not the cells themselves.
TypesDiffer(w) ==
  {k \in Schema(load[w]) :
     View(w)[k] \notin {Absent, "TEXT"} /\ View(w)[k] # Inferred[load[w]][k]}

\* _columns_to_promote, from the live types.
MustWiden(w) ==
  {k \in Schema(load[w]) :
     /\ View(w)[k] \notin {Absent, "TEXT"}
     /\ View(w)[k] # Inferred[load[w]][k] \/ k \in Odd[load[w]]}

\* Mutant: the types are found by selecting from the table itself.
ReadTypesFromTable(w) ==
  /\ stage[w] = "read_types"
  /\ Statement(w, "shared")
  /\ promote' = [promote EXCEPT ![w] = MustWiden(w)]
  /\ Goto(w, "write")
  /\ UNCHANGED <<types, stored, load, names, draft>>

ReadTypes(w) ==
  /\ stage[w] = "read_types"
  /\ Statement(w, "none")
  /\ promote' = [promote EXCEPT ![w] = MustWiden(w)]
  /\ Goto(w, "write")
  /\ UNCHANGED <<types, stored, load, names, draft>>

\* Mutant: the column takes the type of the load that is being written, if
\* all of its cells have that.
PromoteToInferred(w, k) ==
  /\ stage[w] = "write"
  /\ k \in promote[w]
  /\ Statement(w, "exclusive")
  /\ draft' = [draft EXCEPT ![w][k] =
                  IF k \in Odd[load[w]] THEN "TEXT" ELSE Inferred[load[w]][k]]
  /\ promote' = [promote EXCEPT ![w] = @ \ {k}]
  /\ UNCHANGED <<types, stored, stage, load, names>>

\* ALTER TABLE ALTER COLUMN TYPE TEXT.
PromoteColumn(w, k) ==
  /\ stage[w] = "write"
  /\ k \in promote[w]
  /\ Statement(w, "exclusive")
  /\ draft' = [draft EXCEPT ![w][k] = "TEXT"]
  /\ promote' = [promote EXCEPT ![w] = @ \ {k}]
  /\ UNCHANGED <<types, stored, stage, load, names>>

\* DELETE (if the artifact is replaced) and COPY.
CopyRows(w) ==
  /\ stage[w] = "write"
  /\ promote[w] = {}
  /\ Statement(w, "shared")
  /\ Fits(View(w), load[w])
  /\ Goto(w, "commit")
  /\ UNCHANGED <<types, stored, local, draft>>

Commit(w) ==
  /\ stage[w] = "commit" /\ Usable(w)
  /\ CommitTx(w, "idle")
  /\ stored' = stored \cup {load[w]}
  /\ Goto(w, "loaded")
  /\ UNCHANGED local

\* The server commits but the answer is lost with the connection.
CommitInDoubt(w) ==
  /\ stage[w] = "commit" /\ Usable(w)
  /\ CommitTx(w, "closed")
  /\ stored' = stored \cup {load[w]}
  /\ Goto(w, "failed")
  /\ UNCHANGED local

\* convert_mhtml_to_postgres counts the rows after the load, in a transaction
\* that stays open until the sink is used again or closed.
CountRows(w) ==
  /\ stage[w] \in Returned
  /\ Statement(w, "shared")
  /\ Goto(w, "counted")
  /\ UNCHANGED <<types, stored, local, draft>>

\* A statement outside the try fails: the server aborts the transaction and
\* releases its locks, or (an unsafe name, an unusable comment, a legacy
\* table; nothing of the kind in ensure_catalog) the client raises and leaves
\* it open.
StatementFails(w) ==
  /\ stage[w] \in BeforeTry \cup Returned /\ Usable(w)
  /\ \/ EndTx(w, "aborted")
     \/ /\ stage[w] # "ensure_catalog"
        /\ tx' = [tx EXCEPT ![w] = "open"]
        /\ UNCHANGED <<draft, lock>>
  /\ Goto(w, "failed")
  /\ UNCHANGED <<types, stored, local>>

StatementRefused(w) ==
  /\ stage[w] \in BeforeTry \cup Returned /\ ~Usable(w)
  /\ Goto(w, "failed")
  /\ UNCHANGED <<types, stored, local, tx, draft, lock>>

\* Mutant: the except block re-raises without rolling back.
WriteFailsOpen(w) ==
  /\ stage[w] \in InTry /\ Usable(w)
  /\ Goto(w, "failed")
  /\ UNCHANGED <<types, stored, local, tx, draft, lock>>

\* A statement inside the try fails: roll back.
WriteFails(w) ==
  /\ stage[w] \in InTry /\ Usable(w)
  /\ EndTx(w, "idle")
  /\ Goto(w, "failed")
  /\ UNCHANGED <<types, stored, local>>

-----------------------------------------------------------------------------
\* Steps that wait for a table lock, and the other steps of a load.
LockStep(w) ==
  \/ CreateTable(w) \/ CommentColumns(w) \/ CopyRows(w) \/ CountRows(w)
  \/ \E k \in Columns : AddColumn(w, k) \/ PromoteColumn(w, k)

PlainStep(w) ==
  \/ EnsureCatalog(w) \/ ReadColumns(w) \/ CommitSchema(w) \/ CatalogGet(w)
  \/ ReadTypes(w) \/ Commit(w) \/ StatementRefused(w)

\* A caller whose load has ended goes on, rolls back or closes.
Between(w) == (\E l \in Loads : NextLoad(w, l)) \/ Close(w) \/ Rollback(w)

Next ==
  \E w \in Workers :
    \/ LockStep(w) \/ PlainStep(w) \/ Between(w)
    \/ Connect(w) \/ ConnectionLost(w)
    \/ CommitInDoubt(w) \/ StatementFails(w) \/ WriteFails(w)

Spec == Init /\ [][Next /\ UNCHANGED inherited]_<<vars, inherited>>

(***************************************************************************)
(* run_batch and convert_mhtml_to_postgres never sit on an open            *)
(* transaction: after a load they load the next file, roll back or close.  *)
(* PostgreSQL grants table locks in the order of the requests, so a waiter *)
(* that is let through again and again gets its turn (strong fairness;     *)
(* enough for two workers).                                                *)
(***************************************************************************)
Fairness ==
  \A w \in Workers :
    /\ WF_vars(PlainStep(w))
    /\ SF_vars(LockStep(w))
    /\ WF_vars(Between(w) /\ tx[w] = "open")
FairSpec == Spec /\ Fairness

-----------------------------------------------------------------------------
(* Properties.                                                             *)

\* Types; a load in progress has its transaction and what it has changed of
\* the table under an exclusive lock, which only one worker holds.
TypeOK ==
  /\ types \in Shapes
  /\ stored \subseteq Loads
  /\ stage \in [Workers -> {"new"} \cup Running \cup Final]
  /\ load \in [Workers -> Loads]
  /\ names \in [Workers -> SUBSET Columns]
  /\ promote \in [Workers -> SUBSET Columns]
  /\ tx \in [Workers -> {"closed", "idle", "open", "aborted"}]
  /\ draft \in [Workers -> Shapes]
  /\ lock \in [Workers -> LockModes]
  /\ \A w \in Workers :
       /\ draft[w] # NoTable => lock[w] = "exclusive"
       /\ lock[w] # "none" => tx[w] = "open"
       /\ lock[w] = "exclusive" =>
            \A v \in Workers \ {w} : lock[v] = "none"

\* When a load has widened the columns it found too narrow, COPY accepts all
\* of its cells, although the types were read without a lock and other
\* workers may have added or widened columns since (_columns_to_promote:
\* "schema evolution cannot fail at INSERT time").
CopyNeverRejected ==
  \A w \in Workers :
    stage[w] = "write" /\ promote[w] = {} => Fits(View(w), load[w])

\* Committed rows keep a column that can hold them, whatever later loads do
\* to the table.
StoredRowsFit == \A l \in stored : Fits(types, l)

\* A committed column never disappears and changes its type only to TEXT, in
\* the commit of the load that needs it: a load that fails, is interrupted or
\* is retried leaves no widened column behind (write_artifact_rows: "promote
\* rolls back with insert failure").
PromotionComesWithRows ==
  [][\A k \in Columns :
       types[k] # Absent /\ types'[k] # types[k] =>
         /\ types'[k] = "TEXT"
         /\ \E w \in Workers : stage[w] = "commit" /\ stage'[w] # "commit"]_vars

\* A table that an earlier release has left never takes the rows of a load
\* one of whose headers it holds under the old name: the values of that header
\* would be split between the old column and the new one
\* (_legacy_column_names: "before a persisted legacy column and its suffixed
\* successor can silently coexist and split values").
LegacyNotSplit ==
  \A l \in stored : \A k \in Renamed(l) : inherited[Legacy[l][k]] = Absent

\* A load that was started comes to an end: table locks held by running,
\* failed or finished loads of other workers never block it for ever.
LoadsFinish ==
  \A w \in Workers : stage[w] = "ensure_catalog" ~> stage[w] \in Final
=============================================================================
