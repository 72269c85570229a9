# Verification of mhtml-etl-gateway

TLA+ modules, TLC runs and TLAPS proofs for the gateway that turns saved web
pages (MHTML) into typed PostgreSQL tables. The reference is the source under
`src/mhtml_etl_gateway/`; paths below are relative to it.

## The system

A file goes through a pipeline (`pipeline.py`): read the bytes, parse MIME,
choose the HTML part, choose the primary table, infer names and types,
optionally attach column comments, validate, and load the rows together with
an entry of the *ingest catalog*, the table `mhtml_ingest_artifact`, keyed by
the artifact's SHA-256 and the target table. Everything before the load is
sequential; its difficulty is that most of it exists twice, once for inspection
and proposals and once for loading, with code of its own. The state that lasts,
and every difficulty with concurrency and failure, is in PostgreSQL and in the
sequence of SQL statements that reads and writes it.

| component | state | operations |
|---|---|---|
| artifact loader (`postgres_loader.py`, `ingest_catalog.py`) | business rows, catalog, one connection per sink with its transaction | `load_table`: `ensure_catalog`, `ensure_table`, `catalog_get`, `write_artifact_rows`; `rollback`, `close` |
| table shape (`ensure_table`, `_ensure_missing_columns`, `_columns_to_promote`) | columns and types of a business table | create, add column, widen to TEXT, comment |
| conversion pipeline (`pipeline.py`, `lineage.py`) | none of its own; a sink and an optional lineage file | load, write lineage, count rows, close its own sink |
| batch run (`batch.py`) | position in the list of files, shared sink, report | next file, roll back after a failure, stop or continue, close |
| in-memory sink (dry run) | dictionaries | as the loader, without a server |
| type inference, coercion, naming (`schema_inference.py`, `sql_ident.py`) | none | `infer_table_schema`, `coerce_value`, `unique_snake_names` |
| HTML tables (`html_tables.py`, `html_table_extractor.py`) | parser stacks while one document is read | two parsers, span projection |
| MIME (`mime_parser.py`, `mhtml_parser.py`, `source_reader.py`) | budgets while one message is walked | traversal, root selection |
| inspection, validation (`inspection.py`, `validation_engine.py`, `models.py`) | none | projections and checks |
| column mapping, schema proposal (`column_mapping.py`, `schema_proposal.py`) | none | resolve headers, propose types with evidence |
| semantic catalog (`semantic_catalog_*.py`) | accepted prefix of a publication | plan requests, send each once, receipt |
| pg-erd connector, CLI | none | one document, argument handling |
| hourly gate (`scripts/hourly_product_gap.py`) | none (reads a snapshot of tasks and pull requests) | one decision |

### How they interact

`run_batch` opens one `PsycopgSink`, calls `convert_mhtml_to_postgres` for one
file after another on it, rolls the sink back when a file fails and closes it
in a `finally`. `convert_mhtml_to_postgres` calls `load_table` on the sink it
was given (or on one of its own), then counts the rows, which leaves a
transaction open on a shared sink until the next file's first commit. Any
number of such processes share one database and have no other contact: the
catalog, the tables and PostgreSQL's locks are their only communication.
Publication to the semantic catalog and the pg-erd document work from a
proposal, not from the database.

### What is hard, and what makes each part correct

* **Catalog and rows.** A load reads the catalog, decides, and writes later, in
  a transaction of its own and without a lock in between. Rows and entry must
  become visible together; a replacement must never expose an emptied artifact;
  a reported load must stay; nothing may be stored twice.
* **Sessions used again.** A failure before the `try` of `write_artifact_rows`
  leaves the transaction aborted or open. The next load on that session starts
  with a commit: it must not publish leftovers.
* **Lost answers.** A commit may take effect although the caller sees an error.
* **Table shape.** Types are inferred per file from a sample, the table's live
  types are read without a lock, and several processes widen and add columns.
  `COPY` must still accept every row, and a failed load must not leave a
  widened column behind.
* **Locks.** `ALTER TABLE` waits for every transaction that has touched the
  table, including one that merely counted its rows.
* **Upgrades.** A table or column named by an earlier release must not be
  silently duplicated under its present name.
* **Batch.** One failure must not spoil the files after it, and the report must
  tell what the database holds.
* **Publication.** A partly accepted sequence of requests must be reported so
  that it can be reconciled.
* **Two releases.** A deployment has loads of the previous and the present
  release on one database; the catalog's status column changes its name under
  them, and back when an operator reverts.
* **Budgets.** Sizes are charged before or while things are read and built;
  each limit must refuse exactly what exceeds it.
* **Parsers, names, types, comments.** Uniqueness where names are cut and
  suffixed, independence of order where mappings are resolved one by one, and
  agreement between two implementations of the same idea.

## The modules

### ArtifactLoader

`load_table` over `PsycopgSink`: `Calls` on `Sessions` bring `Artifacts` into
one database. One action is one SQL statement, transaction boundary or failure.

| state | code |
|---|---|
| `request[c]` | the arguments: artifact (SHA-256 and table) and `on_duplicate` |
| `session[c]`, `stage[c]` | the sink, the next statement or the outcome (`LoadResult` or an exception) |
| `existing[c]` | the entry `catalog_get` returned; `replaced` is decided from it later |
| `tx[s]`, `pending[s]` | the connection's transaction status and its uncommitted work |
| `stored`, `catalog` | the committed rows, one generation per call, and the committed entries |

`EnsureCatalog`, `EnsureTable`, `CatalogGet`, `ColumnsToPromote`,
`BeginDelete`/`FinishDelete`, `CopyRows`, `UpsertCatalog` and `Commit` are the
statements of one call in the order of the code. `StatementFails` is a failure
outside the `try` of `write_artifact_rows` (nobody rolls back),
`WriteFails` one inside it (rolled back), `StatementRefused` a statement on an
aborted or closed session, `CommitInDoubt` a commit whose answer is lost,
`ConnectionLost` a broken connection or a dead process. `CountRows` is the
caller's count after a load. `Connect`, `Close` and `Rollback` are the
sink's owner. The transaction semantics are PostgreSQL's READ COMMITTED: a
`DELETE` takes its snapshot when it starts, then waits for whoever has deleted
the same rows; `ON CONFLICT` waits for an uncommitted entry of the same key.

### ArtifactLedger

The promise to a caller when no two calls work on one artifact at the same
time: `Load`, `Skip` and `Fail` are single steps, an artifact holds the rows of
exactly one load. `ArtifactLoader!ImplementsLedger` is the refinement mapping.

### SchemaEvolution

One business table and the `Workers` that load into it: the columns and their
types, the DDL a transaction has not committed (`draft`), the strongest table
lock a transaction holds (`lock`). A load is known by its inferred type per
column (`Inferred`), by the columns with a cell outside the sampled type
(`Odd`; the sample is the first 200 rows), and by whether it carries comments.
`Legacy` gives, for each column of a load, the name an earlier release would
have made of that load's own header (`_legacy_column_names`), since it is by
these that a load looks for what an earlier release has left; `inherited`
remembers the table as it was before the first load. Actions follow
`load_table` statement by statement, now with the schema statements that
ArtifactLoader passes over, followed by `CountRows` of the pipeline.

### BatchRun

`run_batch` over ArtifactLoader: each session is the sink of a batch, each batch
a list of calls (`Files`), and `StopOnError` are the batches that run with
`continue_on_error=False`.

| state | code |
|---|---|
| `phase[s]` | where the loop of batch `s` stands, or how it ended |
| `at[s]` | the number of the file it is working on |
| `result[c]` | the outcome in the report of the file that makes call `c` |

ArtifactLoader's own actions are taken under the control of the batch: `Start`
in `ReadFile`, the statements of the call in `Load`, `CountRows` in `CountFile`,
its failures in `LoadGoesWrong`, `Rollback` in `FileFails`, `Connect` and `Close`
in `OpenSink` and `Finish`, `ConnectionLost` in `LoseConnection` and `Crash`.
A file whose count fails after its load was committed is reported as failed
although it is stored, as in the code. `BatchIsLoader` shows each behaviour of
batches to be one of ArtifactLoader, so the loader's theorems hold of them.

### CatalogGraph, CatalogPublisher

A publication (`publish_catalog_submission`) sends the requests of an approved
handoff one after another, each once, and returns a receipt, or raises with the
count of accepted requests. `Request(h, n)` is request `n` of handoff `h`: the
dataset node, the column nodes, the edges; `Key` is its idempotency key.
`index[p]`, `accepted[p]` and `stage[p]` are the loop, the number of `receipts`
and the outcome; `sent` and `written` are what the transport was given and what
the portal has carried out. Transport and portal are outside the repository: a
request that was sent may arrive at any later time, any number of times, or
never (`Arrive`), an answer may be lost or malformed (`NotAccepted`), the
publisher may die, and the portal carries out a key once. CatalogGraph is the
promise to the reader of the portal: a handoff takes effect request by request
in order, at most once, and a receipt comes only when all of it is there. Bodies
and credentials are left out: a request is known by its endpoint, its item and
its handoff.

### HtmlTokens, InspectionParser, LoadingParser, TableParsers

The two subclasses of `HTMLParser` as they read the tokens of one document.
InspectionParser (`_TableParser`) enters rows and cells when they start, checks
its budgets and passes over suppressed containers; LoadingParser
(`_TopLevelTableParser`) enters them when they end, expands `colspan` at once
and has neither. TableParsers feeds both the same token (`Token`) and follows
what becomes of the tables. Self-closing tags are tokens of their own:
LoadingParser inherits `handle_startendtag`, so that a self-closing cell is
expanded by its `colspan`, may bring a text of its own (`x:str`), and raises
where it ends a cell outside a row or has a wrong span. Of the tables
TableParsers keeps `CanLoad` and `Primary` on the path of
`convert_mhtml_to_postgres`, `CanPropose` and `ProposalRows` on the path of
`propose_schema_from_mhtml`. It remembers which texts are inside a container
(`inert`) and how wide the cell of each text is (`widths`). Texts are numbers;
rowspan (see SpanProjection), white space and block tags are left out.
`RegularSpec` restricts the documents to those with all end tags, without nested
tables, with the text of a cell outside containers. `WellFormedSpec` allows text
anywhere.

### Documents, and the modules it composes

One process and the documents it is given, one after another: inspection
(`BeginInspection` to `ExtractTables`) or a conversion up to its schema and its
new table (`BeginConversion` to `CreateNewTable`), or an error that ends the
call. Documents has the order of the steps; each step is a module with variables
of its own:

| module | code | state |
|---|---|---|
| SourceReader | `_read_bounded_source`, a file that may grow meanwhile | `reading`, `size` of the file, `source` read |
| MimeRoot | `parse_mhtml_bytes` and, for loading, `extract_html_bytes` | `mime`, `message`, `stack`, `body_parts`, `root`, `diagnosed` |
| SpanProjection | `extract_tables`: `_project_table_shape`, then `_expand_table` | `spans`, `raw`, `table`, `row`, `pending`, `max_width`, `projected`, `grid`, `total` |
| ColumnNames | `unique_snake_names`, `_legacy_column_names`, the names of `propose_schema`, and the answer of `ensure_table` to a new table | `naming`, `headers`, `named`, `attempt`, `loadable` |
| ColumnTypes | `infer_pg_type` and `schema_proposal._infer_type` | `values`, `meaning`, `inferred`, `proposed` |
| ColumnComments | `load_column_mapping` (what it returns), `attach_column_comments` | `mapping`, `document`, `resolved`, `comments`, `unmatched` |

A step works on what the one before it returned. Of that only what the step
looks at is kept, so its input is chosen when it begins from the inputs its
module names (`Messages`, `RawDocuments`, `HeaderLists`, `ColumnValues`,
`MappingDocuments`) and `returned` says whose turn it is. Data is abstract:
sizes count units; a message is its entities in document order with their depth;
a span is a pair of numbers and a cell its place in the source (`above` and
`cell` of the walkers count what precedes it); a name is a sequence of tokens,
cut to `MaxTokens` where the code cuts to 63 bytes, and a token may have letters
that are not ASCII, which a proposal keeps and `require_safe_ident` refuses; a
string is one of the kinds that the recognizers of the two modules tell apart:
what it is written as, with marks for what else it may be read as (the digits of
an integer may also be a time or a date).

SpanProjection is checked against what spans mean, stated without either walk
(`Layout`: every cell is a rectangle at the leftmost free place of its row), the
other modules against properties that relate the two versions of a step.

### CatalogUpgrade

The status column of the catalog and the business relation of one source table,
under the names of two releases. `Loads` are processes of the `previous` or the
`present` release.

| state | code |
|---|---|
| `column` | the committed status column: `status`, `load_status_code`, both, or no catalog |
| `tables`, `written` | the committed relations (`old` is the table's name in the previous release), and those with rows |
| `stage[l]`, `runs[l]` | the statement load `l` executes next, and its release |
| `draft[l]`, `lock[l]` | the column it has set and not committed, its lock on the catalog |
| `release`, `reverted`, `failures` | what the operator has deployed, whether the down migration ran, failures so far |

`CreateCatalog`, `CheckStatus`, `RenameStatus` and `CommitCatalog` are
`ensure_catalog`; the conditions of the migration and its `ALTER TABLE` are
separate since only the second locks. `RejectLegacyTable` and `CreateTable` are
`ensure_table`, `ReadEntry` is `catalog_get`, `WriteRows` the write, which has
been one transaction with `ReadEntry`. `Deploy` and `Revert` are the operator;
the loads of the previous release are inferred from what the migration finds and
undoes.

### Instances and proofs

`MCArtifactLoader`, `MCSchemaEvolution`, `MCBatchRun`, `MCCatalogPublisher`,
`MCTableParsers`, `MCDocuments` and `MCCatalogUpgrade` give the constants values
for TLC. `LoaderProofs` (of ArtifactLoader and BatchRun),
`SchemaEvolutionProofs`, `CatalogPublisherProofs`, `TableParsersProofs`,
`SpanProjectionProofs`, `DocumentsProofs` and `CatalogUpgradeProofs` hold the
theorems. `Places` has the two operators by which several modules keep some of a
list in its order (`Rank`, `Nth`), and `PlaceLemmas` what the proofs need to
know of them, of sequences that are flattened, and of numbers.

## The runs

| run | question | bounds |
|---|---|---|
| `loader_concurrent` | safety of concurrent loads with every failure | 3 calls in all combinations of artifact and mode, 2 sessions, 2 artifacts, one of them without data rows |
| `loader_exclusive` | exactly-once and refinement of the ledger, one writer per artifact | the same |
| `loader_race` | does `skip` stay idempotent for concurrent callers | violation expected, see below |
| `schema_evolution` | is the table's shape safe, and do table locks ever block a load for ever | 2 workers, 2 loads with different types for a column they share, one with an odd cell there, one with comments; the headers `X`, `X` (which an earlier release called otherwise) and `X Field`, `X 2` (which it called the same); no table, one with columns less, those an earlier release made of either headers; any number of loads one after another |
| `batch_concurrent` | does a failing file stay without effect on the others, does the report tell the truth, does every batch end | a batch of two files that goes on after errors beside a batch of one that stops, 2 artifacts, one without rows |
| `batch_serial` | do the reports of batches that crash, fail and are run again add up to what is stored | two batches of two files, one after another, the same or different artifacts |
| `catalog_publisher` | does the accepted count bound the portal, are edges never ahead of their nodes, does a handoff take effect in order and once | 2 publications with any of 9 plans each: one handoff of 2 columns, others that differ from it in tenant, name, actor, approval or proposal, and calls that are refused or have a malformed request |
| `tables_regular` | do both parsers, a proposal and a load agree | all regular documents up to 17 tokens, 2 tables, 3 rows, 4 cells, 3 texts, colspan 1 or 2 |
| `tables_wild` | is any text moved, repeated beyond the span of its cell, or let out of a container, for any sequence of tags | all documents up to 9 tokens, with self-closing cells, wrong spans, `x:str` and 2 kinds of containers |
| `tables_container_text` | is the text of a finished table outside containers | well-formed documents; violation expected, see below |
| `documents` | are budgets exact, is the root the one that is named, do projection, expansion and the meaning of spans agree, are names unique and their answers to a new table right, do proposal and load agree in names and types, are all comments where they belong and in the order of the mappings | files up to 5 units around a budget of 3; messages of up to 4 parts around budgets of 3 parts and 2 levels; tables of up to 3 rows of 2 cells with spans up to 3, and pairs of tables, around budgets of 3 rows, 4 columns and 10 cells; up to 3 headers of up to 4 words over names of 3 tokens; columns of any 3 of the 48 kinds of strings; up to 3 mappings |
| `upgrade` | does a deployment or a revert ever take the column from a running load, split a table's rows, or touch an ambiguous catalog, and is the column renamed in the end | 3 loads of either release, one outside failure, any installation to begin with |

Why the bounds are enough to be interesting: two writers and a third that
replaces or retries cover each pair of conflicting statements with a later
observer; one artifact with rows and one without cover both branches of `if
row_count`. Two sessions and three calls force a session to be used again after
a failure. In SchemaEvolution two workers contend for every lock, and two loads
on four tables give each reason to widen (another type, an odd cell), to add a
column, and to be refused, with columns whose name one load takes for an earlier
one of its own and the other for the present one. None of these modules has an
artificial counter. Seventeen tokens hold a header and two rows, one of them
blank or wider than the header, or two tables; nine hold a table, a row and a
cell that are left open and tokens to meet the leftovers, or a text behind two
containers closed in the wrong order. `MaxTokens` and `MaxTexts` are the
artificial bounds of TableParsers; the other limits are the parser's own.

In `documents` every budget lies inside the range of the inputs, so each is met
exactly, missed by one and exceeded. Three headers give a base name, a
collision, and a header that already has the name the collision would get; names
of three tokens are cut as soon as a number is added. A cell over three rows
beside a wide one gives gaps, overlaps and rows below the source rows. Three
mappings meet a column that has a comment and the same or another one. In
`upgrade` three loads are one that has read its entry, one that renames or
creates, and one that has passed its check before both. `MaxFile` and
`MaxFailures` are artificial bounds; the first fault already aborts a
transaction at any statement.

**Fairness.** `schema_evolution`: weak fairness of the statements of a running
load, since a client blocked on a statement is served when the server can serve
it; strong fairness of statements that wait for a table lock, since PostgreSQL
queues lock requests in order (with two workers nobody can overtake twice); and
weak fairness of the owner of a sink to go on with an open transaction, because
`run_batch` and `convert_mhtml_to_postgres` always proceed to the next file, roll
back or close. `batch_concurrent`: weak fairness of a batch that has begun
(`BatchStep`: the loop with the statements of its file), since the loop is
sequential code over statements that are served when they can be. No load or
batch has to begin; opening a sink, failures and crashes are never fair. `upgrade`: weak
fairness of each load's next step, including its start: loads come again, since
files keep arriving and failed ones are tried again, and a statement that can
get its lock is executed. The operator and failures are not fair, and
`UpgradeSettles` excepts an operator who goes back. `documents` states no
liveness: the only loop without an obvious bound is the search for a free name,
and `NamesUnique` bounds its attempts.

### The findings

`loader_race`: two overlapping calls in `skip` mode both find no entry
(`postgres_loader.py:644`) and both insert: the artifact's rows are stored
twice under one entry. The README of the repository calls the default `skip`
idempotent without a condition; its roadmap lists exclusion of concurrent jobs
as future work. `ExactlyOnce` shows the promise holds with one writer per
artifact.

`tables_container_text`: the text of a suppressed container inside a cell is
loaded as the cell's value (`html_table_extractor.py:113`), in the run with
`<table><tr><td><template>text</template></td></tr></table>`, a finished table of
one row and one cell, while
`docs/ARCHITECTURE.md:39` gives both table modules the boundary "inert active
content" and `docs/TRD.md:78` asks it of the `HTMLParser`-based extractor. The
inspecting parser keeps it (`InertNotInspected`, proved).

Not a finding, since no document speaks of it, but worth knowing: without the
end tags HTML allows to omit, the loading parser loses cells and rows that
inspection shows. And a rowspan, which inspection projects, is ignored by the
loading parser: its rows are ragged, which validation refuses, or happen to be
rectangular (a cell A over two rows with B beside it, and C, D below) and are
loaded without the cell the proposal shows in the second row.

More behaviour of the code that no document speaks of, found while modelling:

* A new table can be refused for a "legacy column": `ensure_table` looks for
  earlier names in the table it has just created, and the headers `X`, `X Field`
  or `9`, `Col 9` give one column the name another had in an earlier release. A
  header `Loaded At` duplicates a lineage column. `NewTableRefused` says that
  nothing but headers that come to one name is refused in this way.
* Whether a column is there under an earlier name is decided by each load's own
  header. A table whose column `order` an earlier release made of the header
  `Order` refuses a load with that header, but one with `Order Field` has the
  same name in both releases and gets its column `order_field` beside it.
  `LegacyNotSplit` says what the check does guarantee: no load is stored beside
  what an earlier release left of its own headers.
* A proposal keeps letters that are not ASCII (`승인_여부`), as its tests expect;
  the pg-erd connector and the identifier policy refuse such a name, so that no
  plan can be made of an accepted proposal before it is renamed.
* With several HTML parts in one message inspection takes the RFC 2387 root and
  a load the largest part; `LoadReadsRoot` is stated for one part.
* A mapping for field `T1.X` is attached to a column whose header is `T2.X`,
  since only the part after the last dot is compared; and the report's `matched`
  has one target per source.
* A running load of the present release undoes a down migration: the comment at
  `ingest_catalog.py:62` wants it run before reverting, and loads have to be
  stopped for it. After a revert both relations may hold rows, which is why
  `HistoryNotSplit` ends there.

## What is proved

All theorems hold for every value of the constants that satisfies the named
assumptions of the modules (which artifacts are empty, that `NoCall` and
`NoSession` are none of the calls or sessions, that TEXT is a type, that
a load has a column).

* `LoaderProofs`, of the loader: `TypeCorrect`, `CatalogCorrect`, `SuccessCorrect`,
  `ReplacementAtomic`, `OwnCommitOnly`. The inductive invariant adds to
  `TypeOK` what a session's uncommitted work may be (`WorkInv`: it belongs to
  the call that runs on the session, deleted generations belong to the call's
  artifact, a copied generation goes with an upsert of the same call before the
  commit) and that catalog and rows agree. Without the first part a commit could
  publish anything.
  `ExactlyOnceCorrect` and `LoaderImplementsLedger` are for `ExclusiveSpec`,
  one writer per artifact, from an invariant that says the entry a running call
  has read is still the committed one, and what its transaction will delete is
  all there is.
* `SchemaEvolutionProofs`: `TypeCorrect`, `CopyCorrect`, `StoredCorrect`,
  `LegacyCorrect`, `PromotionAtomic`. The key facts: uncommitted DDL needs the
  exclusive lock, so what a worker has read can only change by another worker's
  commit, which adds columns or makes them TEXT; and every column that a load
  after `read_types` does not promote is one that accepts its cells under any
  such change. `LegacyCorrect` needs besides that no column of the inherited
  table is ever lost (`LegacyInv`), so that the one check between reading the
  columns and adding any is enough, whatever others add later.

* `LoaderProofs`, of batches: `BatchTypeCorrect`, `IsolationCorrect`,
  `ReportCorrect` for any number of batches, `SerialKeepsLedger` (the ledger is
  implemented through crashes and repeated batches) and `ReportsCorrect` for one
  batch at a time. The strengthening says that a running call is the current
  file of the batch on its session, and that a batch between files leaves
  nothing uncommitted of an earlier file there.
* `CatalogPublisherProofs`: `PublisherTypeCorrect`, `ReportCorrect`,
  `GraphClosed`, `PublisherImplementsGraph`. A key determines the handoff and the
  number of the request (`KeyDetermines`), and what was sent never runs ahead of
  what has been applied by more than the request in flight; hence what the
  portal has written of a handoff is always a prefix of it.
* `TableParsersProofs`, for documents of any length: `InertCorrect`. While the
  parser has not given up, its stack holds at least as many copies of a
  container as are unclosed (`StackInv`), so a text read with an empty stack is
  inside none. `TextsPlacedOnce`, for any document: what a parser holds is a
  chain of sets of texts, each before the next, and the open cell is behind all
  of them (`InspectionOrdered`, `LoadingOrdered`). For the loading parser this
  takes a case that is easily overlooked: a cell left open behind its table is
  written into the next one, and its texts are still later than those of the
  finished tables and earlier than all to come. That a cell is loaded into exactly
  as many adjacent columns as it spans is `SpansInv`: each value of a finished row
  stands in one run as long as its texts' width, and the texts of the open cell
  have the width its attributes give it. `ParsersReadAlike` and
  `ProposalsDescribeLoads`, for regular documents: `AlikeInv` says, for each of
  the four places a regular document can be at (outside tables, in a table, a
  row, a cell), that what the loading parser has finished is the expansion of
  what the inspecting one has entered, less the open row and cell. Of one table
  the rest follows by arithmetic on widths: the header is the first row, padding
  makes no blank row a row with text, and a row as wide as the header loses only
  its padding.

* `CatalogUpgradeProofs`: `UpgradeTypeCorrect`, `CatalogStaysSteady`,
  `HistoryStaysTogether`, `AmbiguityIsRefused`, for any number of loads and
  failures. The invariant adds to the types what locks exclude (`Locks`: an
  exclusive one excludes all others) and what a load's stage says of the column
  (`Progress`: behind the set-up a catalog exists; a present load that will
  create or write has seen the column renamed, unless it has been reverted
  since), and the reason why rows stay together (`Together`): once the present
  relation is there, the column has the present name until a revert, so
  a load of the previous release that gets as far as its `catalog_get` fails.
* `DocumentsProofs`: `SourceIsReadWhole`, from the invariant that the reader
  never holds more than the file has nor more than one unit beyond the budget,
  and that it stops at the file's end; `ProposalsFitLoads`, by cases over the
  types in their order, for columns of any kinds of strings (`TypesAssumption`;
  an integer of more digits than 64 bits need is beyond them or has
  zeroes in front, `LongHasZeroes`); and, for any list
  of headers, `NamesAreUnique`, `RefusalsHaveReasons` and `ProposalsNameLoads`.
  The argument of the first (`NamesInv`): every candidate before the present one
  is already a name, and numbered candidates end in different numbers, so by
  counting a search is over after one attempt per name given and one more; a
  candidate is an identifier because cutting keeps the first token and leaves
  room for the suffix. The names of a load satisfy the policy; those of a proposal
  but for letters that are not ASCII, and entirely where the header has none. The
  other two rest on `MadeInv`, which says what the names
  are where no two headers come to one: each header has its first candidate.
  They assume what `HeadersAssumption` and `AliasesAssumption` state: headers,
  and what a load and a proposal make of them, are sequences (they are joined
  by a recursive operator of the library, of which nothing can be proved), what
  a load makes of a header is ASCII, and an
  alias is an identifier, as each of `_HEADER_ALIASES` is.
  `WalksAreComplete`, `RootsAreNamed` and `LoadsReadRoots` hold for any message
  and budgets: while the tree is walked the stack holds exactly the entities
  that wait for their visit, in reverse order of the document (`StackHolds`), so
  that each visit takes the next one; `MessagesAssumption` says only that a
  message is a tree in document order (an entity is at most one level below the
  one before it).
  `CommentsAreExact` and `HeadersFindColumns` hold for any headers and any
  mapping document. `CommentsInv` says that after n mappings every column has
  exactly the comments the first n mean for it, `OrderInv` that they are in the
  order of the mappings; both need that names stay as they
  are while comments are attached (`CallInv`) and that of mappings alike one is
  kept (`DedupedProperties`, by counting). `MappingsAssumption` states what
  reading a document provides: only the separator reads like a dot, and in a
  deck no two different mappings have one comment, because `_load_pptx` writes
  slide and source into it. Without the latter a comment could be joined twice.
* `SpanProjectionProofs`, used by `ProjectionsAreExact` and `GridsAreExact` in
  `DocumentsProofs`: for any tables and any budgets, projecting and expanding
  spans are what the layout of the table says. The code walks a row from left to
  right and counts, column by column, for how many rows a cell above is still to
  be carried down; the layout knows only rectangles, one after another. The
  bridge is `Carries`: while row q is read and the columns before c are passed,
  a column is carried into exactly when a rectangle laid before covers it in the
  row it waits for, and its count is what that rectangle has left. `Walks` adds
  that nothing was left free on the way, which makes the next free column the
  place where the layout puts the next cell (`SeatIsFree`). From these,
  `ProjectInv` says that the rectangles of the rows read so far are disjoint and
  within the budgets, and that size and width are those of the layout's
  beginning, so that a refusal in the middle of a table is one the whole layout
  deserves (`ShapeFits`: the size only grows); `ExpandInv` says that every row
  built shows what the layout has there, later cells included, which start
  below. At the end no rectangle reaches further down, so that the size is the
  projected one and `_expand_table` never raises the `INVALID_TABLE_SPAN` of its
  last check; on the way the rows built never exceed it (`GridWithinSize`).
  `RawAssumption` states what `_TableParser` provides: spans are
  positive (`_span_value`) and a table has at most `MaxRows` source rows
  (`handle_starttag`); without the latter a table of too many rows without cells
  would be admitted. The folds of the library over the cells of a row are
  unrolled once (`FoldSteps`).

The type invariants of SchemaEvolution, BatchRun, CatalogPublisher and
CatalogUpgrade are parts of these inductive invariants and proved as theorems of
their own; the runs of these modules check what is built on them.

The library's induction theorems cannot be used, since they take an operator
as parameter. `Induction` in `PlaceLemmas` states induction for sets, which is
enough: the set is that of the numbers up to which the claim holds. What
sequences flattened by the library's fold are is proved from it (`FlattenAppend`
and its neighbours).

`ParsersAssumption` contains that no container is called "document", the name
the model gives to the outermost level; otherwise the end tag of such a
container would count as regular where nothing is open.

Every invariant that a run expects to hold is a theorem. Only model-checked:
liveness (`LoadsFinish`, `BatchEnds`, `UpgradeSettles`), which is out of the
prover's reach, and the races that runs show.

## What is abstracted or left out

* Rows are generations, artifacts are keys; catalog status is always "loaded",
  the only value the code writes.
* PostgreSQL is modelled from the statements the code sends: READ COMMITTED,
  transactional DDL, table locks in three strengths, no serialization failures
  beyond "a statement may fail". Its deadlock detector is one such failure.
* A backend that survives its client for a while (in-doubt work committed
  later) and `KeyboardInterrupt` are not modelled.
* In CatalogUpgrade a relation is with or without rows; artifacts, columns and
  replacement are in the other modules of the loader.
* Raw header scanning (`_raw_content_type_parameter_names`) and parser defects
  are one flag of a message, charset and transfer encoding one choice of
  outcomes, the spelling of headers and strings is their kind.
* `coerce_value` is the recognizers of inference applied once more; the loader's
  modules keep of it whether a cell fits. Evidence counts, review reasons and
  hashes of a proposal, required headers, the inspection and lineage reports, the
  pg-erd document and the command line are projections without state or choice.
* Reading JSON, CSV and slides into mappings is format work.
* The in-memory sink is a sequential test double; the hourly gate and the
  repository checks are tooling that shares no state with the gateway.
* An empty artifact's missing `COPY` is in ArtifactLoader, not in
  SchemaEvolution.

## Plan

| | module | about | proofs |
|---|---|---|---|
| A | ArtifactLoader | sessions, transactions, duplicates, failures | done |
| B | ArtifactLedger | abstract specification of A | refinement done |
| C | SchemaEvolution | DDL, locks, promotion | done |
| D | BatchRun, composing A's sessions and calls | isolation of failures, truth of the report, termination | done |
| E | CatalogPublisher, CatalogGraph | handoff order, accepted prefix, lost answers, repeated publications | done |
| F | CatalogUpgrade | status column up and down, an earlier release's tables, two releases at once | done |
| G | TableParsers, SpanProjection | both table parsers on all small documents; projection and expansion of spans agree, within the budgets | done |
| H | SourceReader, MimeRoot | read and traversal budgets, root choice | done |
| I | ColumnNames, ColumnTypes | uniqueness, bounds, agreement of proposal and load | done |
| J | ColumnComments | ambiguous headers fail closed, order of mappings | done |

What a continuation would take up: rowspan in the agreement of the two table
parsers once the loading one projects it.
