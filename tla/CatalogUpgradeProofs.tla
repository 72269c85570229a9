------------------------ MODULE CatalogUpgradeProofs ------------------------
(***************************************************************************)
(* Proofs about CatalogUpgrade for every number of loads of either release *)
(* and any failures.                                                       *)
(***************************************************************************)
EXTENDS CatalogUpgrade, TLAPS

\* The exclusive lock is alone, and what is set under it replaces an absent
\* column or renames the old one.
Locks ==
  /\ \A k, l \in Loads : k # l /\ lock[k] = "exclusive" => lock[l] = "none"
  /\ \A l \in Loads :
       draft[l] # "none" =>
         \/ column = "none"
         \/ column = "status" /\ draft[l] = "load_status_code"

\* What a load has established when it stands at a statement.
At(l) ==
  /\ stage[l] \in {"check", "rename", "legacy"} => runs[l] = "present"
  /\ stage[l] = "check" => draft[l] # "status"
  /\ stage[l] \in {"check", "rename", "setup"} => View(l) # "none"
  /\ stage[l] \in {"setup", "legacy", "create", "get", "write"} /\ runs[l] = "present" =>
       /\ View(l) # "both"
       /\ ~reverted => View(l) = "load_status_code"
  /\ stage[l] \in {"get", "write", "skipped"} => Table(runs[l]) \in tables
Progress == \A l \in Loads : At(l)

\* Why the rows of the source table stay together: the new table is only
\* there after the rename, and without rows in the old one.
Together ==
  ~reverted =>
    /\ "new" \in tables => column = "load_status_code" /\ "old" \notin written
    /\ \A l \in Loads : stage[l] = "create" /\ runs[l] = "present" =>
         "old" \notin written

IInv == UpgradeTypeOK /\ Locks /\ Progress /\ CatalogSteady /\ Together

LEMMA InitEstablishes == Init => IInv
<1> SUFFICES ASSUME Init PROVE IInv
  OBVIOUS
<1> USE DEF Init
<1>1. 0 \in 0..MaxFailures
  BY FailuresAssumption
<1>2. Typed
  BY <1>1 DEF Typed, Releases, ColumnStates, Stages
<1>3. \A l \in Loads : Held(l) /\ At(l)
  BY DEF Held, At
<1>4. Locks /\ CatalogSteady /\ Together
  BY DEF Locks, CatalogSteady, Together
<1> QED
  BY <1>2, <1>3, <1>4 DEF IInv, UpgradeTypeOK, Progress

LEMMA FailPreserves ==
  ASSUME IInv, NEW l \in Loads, Fail(l) PROVE IInv'
  BY DEF Fail, Goto, EndTx, IInv, UpgradeTypeOK, Typed, Held, Locks, Progress, At,
      CatalogSteady, Together, Releases, Stages, View, StatusColumn, Table, shared,
      operator

LEMMA StartPreserves ==
  ASSUME IInv, NEW l \in Loads, Start(l) PROVE IInv'
  BY DEF Start, Deployed, Goto, IInv, UpgradeTypeOK, Typed, Held, Locks, Progress, At,
      CatalogSteady, Together, Releases, Stages, View, StatusColumn, Table, shared,
      operator

LEMMA CreateCatalogPreserves ==
  ASSUME IInv, NEW l \in Loads, CreateCatalog(l) PROVE IInv'
<1>1. CASE Fail(l)
  BY <1>1, FailPreserves
<1>2. CASE ~Fail(l)
  <2> USE <1>2 DEF IInv, CreateCatalog, CanLock, Goto, EndTx, shared, operator
  <2>1. Typed'
    BY DEF UpgradeTypeOK, Typed, Releases, ColumnStates, Stages, StatusColumn
  <2>2. ASSUME NEW k \in Loads PROVE Held(k)'
    BY DEF UpgradeTypeOK, Typed, Held, Releases, Stages, StatusColumn
  <2>3. Locks'
    BY DEF UpgradeTypeOK, Typed, Held, Locks, View
  <2>4. ASSUME NEW k \in Loads PROVE At(k)'
    <3>1. CASE k = l
      BY <3>1 DEF UpgradeTypeOK, Typed, Held, Progress, At, Releases, ColumnStates,
          Stages, View, StatusColumn
    <3>2. CASE k # l
      BY <3>2 DEF UpgradeTypeOK, Typed, Held, Locks, Progress, At, View
    <3> QED
      BY <3>1, <3>2
  <2>5. CatalogSteady'
    BY DEF UpgradeTypeOK, Typed, Held, Locks, CatalogSteady, Progress, At, Releases,
        View, StatusColumn
  <2>6. Together'
    BY DEF UpgradeTypeOK, Typed, Held, Locks, Progress, At, Together, Releases,
        ColumnStates, View, Table
  <2> QED
    BY <2>1, <2>2, <2>3, <2>4, <2>5, <2>6 DEF UpgradeTypeOK, Progress
<1> QED
  BY <1>1, <1>2

LEMMA CheckStatusPreserves ==
  ASSUME IInv, NEW l \in Loads, CheckStatus(l) PROVE IInv'
<1>1. CASE Fail(l)
  BY <1>1, FailPreserves
<1>2. CASE ~Fail(l)
  <2> USE <1>2 DEF IInv, CheckStatus, CanLock, Goto, EndTx, shared, operator
  <2>1. Typed'
    BY DEF UpgradeTypeOK, Typed, Releases, ColumnStates, Stages, StatusColumn
  <2>2. ASSUME NEW k \in Loads PROVE Held(k)'
    BY DEF UpgradeTypeOK, Typed, Held, Locks, Progress, At, Releases, Stages, View
  <2>3. Locks'
    BY DEF UpgradeTypeOK, Typed, Held, Locks, View
  <2>4. ASSUME NEW k \in Loads PROVE At(k)'
    <3>1. CASE k = l
      BY <3>1 DEF UpgradeTypeOK, Typed, Held, Progress, At, Releases, ColumnStates,
          Stages, View, StatusColumn
    <3>2. CASE k # l
      BY <3>2 DEF UpgradeTypeOK, Typed, Held, Locks, Progress, At, View
    <3> QED
      BY <3>1, <3>2
  <2>5. CatalogSteady'
    BY DEF UpgradeTypeOK, Typed, Held, Locks, CatalogSteady, Progress, At, Releases,
        View, StatusColumn
  <2>6. Together'
    BY DEF UpgradeTypeOK, Typed, Held, Locks, Progress, At, Together, Releases,
        ColumnStates, View, Table
  <2> QED
    BY <2>1, <2>2, <2>3, <2>4, <2>5, <2>6 DEF UpgradeTypeOK, Progress
<1> QED
  BY <1>1, <1>2

LEMMA RenameStatusPreserves ==
  ASSUME IInv, NEW l \in Loads, RenameStatus(l) PROVE IInv'
<1>1. CASE Fail(l)
  BY <1>1, FailPreserves
<1>2. CASE ~Fail(l)
  <2> USE <1>2 DEF IInv, RenameStatus, CanLock, Goto, EndTx, shared, operator
  <2>1. Typed'
    BY DEF UpgradeTypeOK, Typed, Releases, ColumnStates, Stages, StatusColumn
  <2>2. ASSUME NEW k \in Loads PROVE Held(k)'
    BY DEF UpgradeTypeOK, Typed, Held, Releases, Stages, StatusColumn
  <2>3. Locks'
    BY DEF UpgradeTypeOK, Typed, Held, Locks, View
  <2>4. ASSUME NEW k \in Loads PROVE At(k)'
    <3>1. CASE k = l
      BY <3>1 DEF UpgradeTypeOK, Typed, Held, Progress, At, Releases, ColumnStates,
          Stages, View, StatusColumn
    <3>2. CASE k # l
      BY <3>2 DEF UpgradeTypeOK, Typed, Held, Locks, Progress, At, View
    <3> QED
      BY <3>1, <3>2
  <2>5. CatalogSteady'
    BY DEF UpgradeTypeOK, Typed, Held, Locks, CatalogSteady, Progress, At, Releases,
        View, StatusColumn
  <2>6. Together'
    BY DEF UpgradeTypeOK, Typed, Held, Locks, Progress, At, Together, Releases,
        ColumnStates, View, Table
  <2> QED
    BY <2>1, <2>2, <2>3, <2>4, <2>5, <2>6 DEF UpgradeTypeOK, Progress
<1> QED
  BY <1>1, <1>2

LEMMA CommitCatalogPreserves ==
  ASSUME IInv, NEW l \in Loads, CommitCatalog(l) PROVE IInv'
  BY DEF CommitCatalog, EndTx, Goto, IInv, UpgradeTypeOK, Typed, Held, Locks, Progress,
      At, CatalogSteady, Together, Releases, ColumnStates, Stages, View, StatusColumn,
      Table, shared, operator

LEMMA RejectLegacyTablePreserves ==
  ASSUME IInv, NEW l \in Loads, RejectLegacyTable(l) PROVE IInv'
<1>1. CASE Fail(l)
  BY <1>1, FailPreserves
<1>2. CASE ~Fail(l)
  <2> USE <1>2 DEF IInv, RejectLegacyTable, CanLock, Goto, EndTx, shared, operator
  <2>1. Typed'
    BY DEF UpgradeTypeOK, Typed, Releases, ColumnStates, Stages, StatusColumn
  <2>2. ASSUME NEW k \in Loads PROVE Held(k)'
    BY DEF UpgradeTypeOK, Typed, Held, Releases, Stages, StatusColumn
  <2>3. Locks'
    BY DEF UpgradeTypeOK, Typed, Held, Locks, View
  <2>4. ASSUME NEW k \in Loads PROVE At(k)'
    <3>1. CASE k = l
      BY <3>1 DEF UpgradeTypeOK, Typed, Held, Progress, At, Releases, ColumnStates,
          Stages, View, StatusColumn
    <3>2. CASE k # l
      BY <3>2 DEF UpgradeTypeOK, Typed, Held, Locks, Progress, At, View
    <3> QED
      BY <3>1, <3>2
  <2>5. CatalogSteady'
    BY DEF UpgradeTypeOK, Typed, Held, Locks, CatalogSteady, Progress, At, Releases,
        View, StatusColumn
  <2>6. Together'
    BY DEF UpgradeTypeOK, Typed, Held, Locks, Progress, At, Together, Releases,
        ColumnStates, View, Table
  <2> QED
    BY <2>1, <2>2, <2>3, <2>4, <2>5, <2>6 DEF UpgradeTypeOK, Progress
<1> QED
  BY <1>1, <1>2

LEMMA CreateTablePreserves ==
  ASSUME IInv, NEW l \in Loads, CreateTable(l) PROVE IInv'
  BY DEF CreateTable, Goto, IInv, UpgradeTypeOK, Typed, Held, Locks, Progress, At,
      CatalogSteady, Together, Releases, Stages, View, StatusColumn, Table, shared,
      operator

LEMMA ReadEntryPreserves ==
  ASSUME IInv, NEW l \in Loads, ReadEntry(l) PROVE IInv'
<1>1. CASE Fail(l)
  BY <1>1, FailPreserves
<1>2. CASE ~Fail(l)
  <2> USE <1>2 DEF IInv, ReadEntry, CanLock, Goto, EndTx, shared, operator
  <2>1. Typed'
    BY DEF UpgradeTypeOK, Typed, Releases, ColumnStates, Stages, StatusColumn
  <2>2. ASSUME NEW k \in Loads PROVE Held(k)'
    BY DEF UpgradeTypeOK, Typed, Held, Releases, Stages, StatusColumn
  <2>3. Locks'
    BY DEF UpgradeTypeOK, Typed, Held, Locks, View
  <2>4. ASSUME NEW k \in Loads PROVE At(k)'
    <3>1. CASE k = l
      BY <3>1 DEF UpgradeTypeOK, Typed, Held, Progress, At, Releases, ColumnStates,
          Stages, View, StatusColumn
    <3>2. CASE k # l
      BY <3>2 DEF UpgradeTypeOK, Typed, Held, Locks, Progress, At, View
    <3> QED
      BY <3>1, <3>2
  <2>5. CatalogSteady'
    BY DEF UpgradeTypeOK, Typed, Held, Locks, CatalogSteady, Progress, At, Releases,
        View, StatusColumn
  <2>6. Together'
    BY DEF UpgradeTypeOK, Typed, Held, Locks, Progress, At, Together, Releases,
        ColumnStates, View, Table
  <2> QED
    BY <2>1, <2>2, <2>3, <2>4, <2>5, <2>6 DEF UpgradeTypeOK, Progress
<1> QED
  BY <1>1, <1>2

LEMMA WriteRowsPreserves ==
  ASSUME IInv, NEW l \in Loads, WriteRows(l) PROVE IInv'
<1>1. CASE Fail(l)
  BY <1>1, FailPreserves
<1>2. CASE ~Fail(l)
  <2> USE <1>2 DEF IInv, WriteRows, CanLock, Goto, EndTx, shared, operator
  <2>1. Typed'
    <3>1. stage[l] = "write" /\ Table(runs[l]) \in tables
      BY DEF Progress, At
    <3>2. /\ written' = written \cup {Table(runs[l])}
          /\ stage' = [stage EXCEPT ![l] = "idle"]
          /\ draft' = [draft EXCEPT ![l] = "none"]
          /\ lock' = [lock EXCEPT ![l] = "none"]
          /\ UNCHANGED <<column, tables, operator, runs>>
      BY DEF Fail
    <3> QED
      BY <3>1, <3>2 DEF UpgradeTypeOK, Typed, Stages
  <2>2. ASSUME NEW k \in Loads PROVE Held(k)'
    BY DEF UpgradeTypeOK, Typed, Held, Releases, Stages, StatusColumn
  <2>3. Locks'
    BY DEF UpgradeTypeOK, Typed, Held, Locks, View
  <2>4. ASSUME NEW k \in Loads PROVE At(k)'
    <3>1. CASE k = l
      BY <3>1 DEF UpgradeTypeOK, Typed, Held, Progress, At, Releases, ColumnStates,
          Stages, View, StatusColumn
    <3>2. CASE k # l
      BY <3>2 DEF UpgradeTypeOK, Typed, Held, Locks, Progress, At, View
    <3> QED
      BY <3>1, <3>2
  <2>5. CatalogSteady'
    BY DEF UpgradeTypeOK, Typed, Held, Locks, CatalogSteady, Progress, At, Releases,
        View, StatusColumn
  <2>6. Together'
    BY DEF UpgradeTypeOK, Typed, Held, Locks, Progress, At, Together, Releases,
        ColumnStates, View, Table, StatusColumn
  <2> QED
    BY <2>1, <2>2, <2>3, <2>4, <2>5, <2>6 DEF UpgradeTypeOK, Progress
<1> QED
  BY <1>1, <1>2

LEMMA StatementFailsPreserves ==
  ASSUME IInv, NEW l \in Loads, StatementFails(l) PROVE IInv'
  BY FailuresAssumption
  DEF StatementFails, Goto, EndTx, IInv, UpgradeTypeOK, Typed, Held, Locks, Progress,
      At, CatalogSteady, Together, Releases, Stages, View, StatusColumn, Table, shared

LEMMA DeployPreserves ==
  ASSUME IInv, Deploy PROVE IInv'
  BY DEF Deploy, IInv, UpgradeTypeOK, Typed, Held, Locks, Progress, At, CatalogSteady,
      Together, Releases, View, shared

LEMMA RevertPreserves ==
  ASSUME IInv, Revert PROVE IInv'
  BY DEF Revert, IInv, UpgradeTypeOK, Typed, Held, Locks, Progress, At, CatalogSteady,
      Together, Releases, ColumnStates, View

LEMMA StepPreserves == IInv /\ [Next]_vars => IInv'
<1> SUFFICES ASSUME IInv, [Next]_vars PROVE IInv'
  OBVIOUS
<1>1. ASSUME NEW l \in Loads, LoadStep(l) PROVE IInv'
  BY <1>1, StartPreserves, CreateCatalogPreserves, CheckStatusPreserves,
     RenameStatusPreserves, CommitCatalogPreserves, RejectLegacyTablePreserves,
     CreateTablePreserves, ReadEntryPreserves, WriteRowsPreserves, FailPreserves
  DEF LoadStep, CloseSink
<1>2. ASSUME NEW l \in Loads, StatementFails(l) PROVE IInv'
  BY <1>2, StatementFailsPreserves
<1>3. CASE Deploy
  BY <1>3, DeployPreserves
<1>4. CASE Revert
  BY <1>4, RevertPreserves
<1>5. CASE UNCHANGED vars
  BY <1>5 DEF vars, shared, operator, IInv, UpgradeTypeOK, Typed, Held, Locks, Progress,
      At, CatalogSteady, Together, View
<1> QED
  BY <1>1, <1>2, <1>3, <1>4, <1>5 DEF Next

\* The strengthened invariant: locks, progress of every load, and why the
\* rows of the source table stay together.
THEOREM UpgradeInvariant == Spec => []IInv
  BY InitEstablishes, StepPreserves, PTL DEF Spec

\* The type invariant of the two-release system, with what each transaction
\* holds.
THEOREM UpgradeTypeCorrect == Spec => []UpgradeTypeOK
<1>1. IInv => UpgradeTypeOK
  BY DEF IInv
<1> QED
  BY <1>1, UpgradeInvariant, PTL

\* A load that has read its catalog entry finds the column still there when
\* it writes.
THEOREM CatalogStaysSteady == Spec => []CatalogSteady
<1>1. IInv => CatalogSteady
  BY DEF IInv
<1> QED
  BY <1>1, UpgradeInvariant, PTL

\* Until the migration is reverted the rows of a source table are in one
\* relation: new rows need the new table, and that table is only there when
\* the old one has no rows (Together).
THEOREM HistoryStaysTogether == Spec => []HistoryNotSplit
<1>1. IInv => HistoryNotSplit
  BY DEF IInv, UpgradeTypeOK, Typed, Held, Together, HistoryNotSplit
<1> QED
  BY <1>1, UpgradeInvariant, PTL

\* With both columns in the catalog no step of either release removes one,
\* and the present release neither creates nor fills its table.
THEOREM AmbiguityIsRefused == Spec => AmbiguityBlocks
<1> DEFINE Kept == column = "both" =>
                     /\ column' = "both"
                     /\ "new" \in tables' => "new" \in tables
                     /\ "new" \in written' => "new" \in written
<1>1. IInv /\ [Next]_vars => [Kept]_vars
  <2> SUFFICES ASSUME IInv, Next, column = "both" PROVE Kept
    OBVIOUS
  <2>1. ASSUME NEW l \in Loads, LoadStep(l) PROVE Kept
    <3>1. draft[l] = "none" /\ View(l) = "both"
      BY DEF IInv, Locks, View
    <3>2. CASE CommitCatalog(l)
      BY <3>1, <3>2 DEF CommitCatalog, operator
    <3>3. CASE CreateTable(l)
      BY <3>1, <3>3 DEF CreateTable, Table, IInv, Progress, At, UpgradeTypeOK, Typed,
          operator
    <3>4. CASE WriteRows(l)
      BY <3>1, <3>4 DEF WriteRows, Fail, shared, operator, Table, IInv, Progress, At
    <3>5. CASE ~(CommitCatalog(l) \/ CreateTable(l) \/ WriteRows(l))
      BY <2>1, <3>5
      DEF LoadStep, Start, CreateCatalog, CheckStatus, RenameStatus, RejectLegacyTable,
          ReadEntry, CloseSink, Fail, shared
    <3> QED
      BY <3>2, <3>3, <3>4, <3>5
  <2>2. ASSUME NEW l \in Loads, StatementFails(l) PROVE Kept
    BY <2>2 DEF StatementFails, shared
  <2>3. CASE Deploy
    BY <2>3 DEF Deploy, shared
  <2>4. CASE Revert
    BY <2>4 DEF Revert
  <2> QED
    BY <2>1, <2>2, <2>3, <2>4 DEF Next
<1> QED
  BY <1>1, UpgradeInvariant, PTL DEF Spec, AmbiguityBlocks
=============================================================================
