----------------------- MODULE SchemaEvolutionProofs -----------------------
(***************************************************************************)
(* Proofs about SchemaEvolution, for any number of workers, loads, columns *)
(* and types.  The argument: whoever has changed the table and not         *)
(* committed holds the exclusive lock, so no two workers change it at the  *)
(* same time (TypeOK); what is committed only ever widens (Wider), so what *)
(* a worker has read of the table without a lock stays true enough: a      *)
(* column it saw is still there, a type it saw is unchanged or TEXT.       *)
(***************************************************************************)
EXTENDS SchemaEvolution, TLAPS

Prepared == {"evolved", "catalog_get", "read_types", "write", "commit"}

\* Uncommitted changes are additions, or promotions to TEXT inside the try.
DraftInv(w) ==
  \A k \in Columns :
    draft[w][k] # Absent =>
      types[k] = Absent \/ (stage[w] \in InTry /\ draft[w][k] = "TEXT")

\* The columns a load works with exist.
ColumnsInv(w) ==
  /\ stage[w] = "add" => \A k \in names[w] : View(w)[k] # Absent
  /\ stage[w] \in Prepared => \A k \in Schema(load[w]) : View(w)[k] # Absent

\* Inside the try a column can take the load's cells or is still to be widened.
WideInv(w) ==
  stage[w] \in InTry =>
    /\ promote[w] \subseteq Schema(load[w])
    /\ stage[w] = "commit" => promote[w] = {}
    /\ \A k \in Schema(load[w]) \ promote[w] :
         \/ View(w)[k] = "TEXT"
         \/ View(w)[k] = Inferred[load[w]][k] /\ k \notin Odd[load[w]]

WorkerInv(w) == DraftInv(w) /\ ColumnsInv(w) /\ WideInv(w)

IInv ==
  /\ TypeOK
  /\ \A w \in Workers : WorkerInv(w)
  /\ StoredRowsFit

\* The order in which a committed table changes.
Wider(shape, next) ==
  \A k \in Columns :
    shape[k] # Absent => next[k] = shape[k] \/ next[k] = "TEXT"

-----------------------------------------------------------------------------
(* Sessions and locks.                                                     *)

LockInv ==
  /\ \A w \in Workers : draft[w] # NoTable => lock[w] = "exclusive"
  /\ \A w \in Workers : lock[w] # "none" => tx[w] = "open"
  /\ \A w \in Workers : lock[w] = "exclusive" =>
       \A v \in Workers \ {w} : lock[v] = "none"

SessionType ==
  /\ tx \in [Workers -> {"closed", "idle", "open", "aborted"}]
  /\ draft \in [Workers -> Shapes]
  /\ lock \in [Workers -> LockModes]

LEMMA TypeParts == TypeOK => LockInv /\ SessionType
BY DEF TypeOK, LockInv, SessionType

\* A statement takes its lock, or keeps a stronger one.
LEMMA StatementLocks ==
  ASSUME SessionType, LockInv, NEW w \in Workers, NEW mode \in LockModes,
         Statement(w, mode)
  PROVE  /\ tx' \in [Workers -> {"closed", "idle", "open", "aborted"}]
         /\ lock' \in [Workers -> LockModes]
         /\ \A v \in Workers : lock'[v] # "none" => tx'[v] = "open"
         /\ \A v \in Workers : lock'[v] = "exclusive" =>
              \A u \in Workers \ {v} : lock'[u] = "none"
         /\ mode = "exclusive" \/ lock[w] = "exclusive" => lock'[w] = "exclusive"
         /\ \A v \in Workers \ {w} : lock'[v] = lock[v] /\ tx'[v] = tx[v]
<1>1. /\ lock'[w] = Stronger(lock[w], mode)
      /\ tx'[w] = "open"
      /\ \A v \in Workers \ {w} : lock'[v] = lock[v] /\ tx'[v] = tx[v]
  BY DEF Statement, SessionType
<1>2. Stronger(lock[w], mode) \in LockModes
      /\ (mode = "exclusive" \/ lock[w] = "exclusive" =>
            Stronger(lock[w], mode) = "exclusive")
      /\ (Stronger(lock[w], mode) = "exclusive" =>
            mode = "exclusive" \/ lock[w] = "exclusive")
      /\ (Stronger(lock[w], mode) # "none" => mode # "none" \/ lock[w] # "none")
  BY DEF Stronger, LockModes, SessionType
<1>3. tx' \in [Workers -> {"closed", "idle", "open", "aborted"}]
      /\ lock' \in [Workers -> LockModes]
  BY <1>2 DEF Statement, SessionType
<1>4. ASSUME NEW v \in Workers, lock'[v] = "exclusive",
             NEW u \in Workers \ {v}
      PROVE  lock'[u] = "none"
  <2>1. CASE v = w /\ lock[w] # "exclusive"
    <3>1. mode = "exclusive"
      BY <1>1, <1>2, <1>4, <2>1
    <3>2. ~Conflict("exclusive", lock[u])
      BY <2>1, <3>1 DEF Statement, CanLock
    <3> QED
      BY <1>1, <2>1, <3>2 DEF Conflict
  <2>2. CASE v = w /\ lock[w] = "exclusive"
    BY <1>1, <2>2 DEF LockInv
  <2>3. CASE v # w /\ u # w
    BY <1>1, <1>4, <2>3 DEF LockInv
  <2>4. CASE v # w /\ u = w
    <3>1. lock[v] = "exclusive" /\ lock[w] = "none"
      BY <1>1, <1>4, <2>4 DEF LockInv
    <3>2. ~Conflict(mode, "exclusive")
      BY <2>4, <3>1 DEF Statement, CanLock
    <3>3. mode = "none"
      BY <3>2 DEF Conflict, LockModes
    <3> QED
      BY <1>1, <1>2, <2>4, <3>1, <3>3
  <2> QED
    BY <2>1, <2>2, <2>3, <2>4
<1> QED
  BY <1>1, <1>2, <1>3, <1>4 DEF LockInv

\* Ending a transaction gives its locks and changes up.
LEMMA EndLocks ==
  ASSUME SessionType, LockInv, NEW w \in Workers,
         NEW status \in {"closed", "idle", "aborted"}, EndTx(w, status)
  PROVE  /\ SessionType' /\ LockInv'
         /\ draft'[w] = NoTable
         /\ \A v \in Workers \ {w} :
              lock'[v] = lock[v] /\ tx'[v] = tx[v] /\ draft'[v] = draft[v]
<1>1. NoTable \in Shapes
  BY DEF NoTable, Shapes
<1> QED
  BY <1>1 DEF EndTx, SessionType, LockInv, LockModes

-----------------------------------------------------------------------------
(* What every step of a worker does, and why it keeps the invariant.       *)

Alone(w) ==
  \A v \in Workers \ {w} :
    /\ stage'[v] = stage[v] /\ load'[v] = load[v]
    /\ names'[v] = names[v] /\ promote'[v] = promote[v]
    /\ draft'[v] = draft[v]

StepOK(w) ==
  /\ TypeOK'
  /\ types' = types \/ types' = View(w)
  /\ Alone(w)
  /\ WorkerInv(w)'
  /\ \A l \in stored' \ stored : Fits(types', l)

LEMMA ViewType == ASSUME TypeOK, NEW w \in Workers PROVE View(w) \in Shapes
BY DEF TypeOK, View, Shapes

LEMMA EmptyView ==
  ASSUME TypeOK, NEW w \in Workers, draft[w] = NoTable PROVE View(w) = types
BY DEF TypeOK, View, NoTable, Shapes

LEMMA CommitWidens ==
  ASSUME IInv, NEW w \in Workers PROVE Wider(types, View(w))
BY DEF IInv, WorkerInv, DraftInv, Wider, View

\* While one worker has uncommitted changes, no other commits any.
LEMMA ChangedAlone ==
  ASSUME IInv, NEW w \in Workers, NEW v \in Workers \ {w},
         draft[v] # NoTable
  PROVE  View(w) = types
<1>1. lock[v] = "exclusive"
  BY TypeParts DEF IInv, LockInv
<1>2. lock[w] = "none"
  BY <1>1, TypeParts DEF IInv, LockInv
<1>3. draft[w] = NoTable
  BY <1>2, TypeParts DEF IInv, LockInv
<1> QED
  BY <1>3, EmptyView DEF IInv

LEMMA FitsWider ==
  ASSUME NEW shape, NEW next, NEW l \in Loads, Wider(shape, next),
         Fits(shape, l)
  PROVE  Fits(next, l)
BY TypesAssumption DEF Fits, Wider, Schema

LEMMA OthersKeep ==
  ASSUME IInv, NEW w \in Workers, NEW v \in Workers \ {w}, StepOK(w)
  PROVE  WorkerInv(v)'
<1>1. CASE types' = types
  <2>1. /\ stage'[v] = stage[v] /\ load'[v] = load[v] /\ names'[v] = names[v]
        /\ promote'[v] = promote[v] /\ draft'[v] = draft[v]
    BY DEF StepOK, Alone
  <2>2. View(v)' = View(v)
    BY <1>1, <2>1 DEF View
  <2>3. WorkerInv(v)
    BY DEF IInv
  <2>4. DraftInv(v)'
    BY <1>1, <2>1, <2>3 DEF WorkerInv, DraftInv
  <2>5. ColumnsInv(v)' /\ WideInv(v)'
    BY <2>1, <2>2, <2>3 DEF WorkerInv, ColumnsInv, WideInv
  <2> QED
    BY <2>4, <2>5 DEF WorkerInv
<1>2. CASE types' = View(w) /\ draft[v] = NoTable
  <2>1. View(v) = types
    BY <1>2, EmptyView DEF IInv
  <2>2. draft'[v] = NoTable /\ TypeOK'
    BY <1>2 DEF StepOK, Alone
  <2>3. View(v)' = types'
    BY <2>2 DEF TypeOK, View, NoTable, Shapes
  <2>4. Wider(types, types')
    BY <1>2, CommitWidens
  <2>5. \A k \in Columns : draft'[v][k] = Absent
    BY <2>2 DEF NoTable
  <2>6. DraftInv(v)'
    BY <2>5 DEF DraftInv
  <2>7. ColumnsInv(v)'
    BY <2>1, <2>3, <2>4, TypesAssumption
       DEF IInv, WorkerInv, ColumnsInv, StepOK, Alone, Wider, TypeOK, Schema
  <2>8. WideInv(v)'
    <3>1. ASSUME NEW k \in Schema(load[v]), types[k] = "TEXT"
                   \/ types[k] = Inferred[load[v]][k]
          PROVE  types'[k] = types[k] \/ types'[k] = "TEXT"
      BY <2>4, <3>1, TypesAssumption DEF Wider, Schema
    <3> QED
      BY <2>1, <2>3, <3>1 DEF IInv, WorkerInv, WideInv, StepOK, Alone
  <2> QED
    BY <2>6, <2>7, <2>8 DEF WorkerInv
<1>3. CASE types' = View(w) /\ draft[v] # NoTable
  BY <1>1, <1>3, ChangedAlone
<1> QED
  BY <1>1, <1>2, <1>3 DEF StepOK

LEMMA Preserved ==
  ASSUME IInv, NEW w \in Workers, StepOK(w)
  PROVE  IInv' /\ Wider(types, types')
<1>1. Wider(types, types')
  <2>1. Wider(types, types)
    BY DEF Wider
  <2> QED
    BY <2>1, CommitWidens DEF StepOK
<1>2. \A v \in Workers : WorkerInv(v)'
  BY OthersKeep DEF StepOK
<1>3. StoredRowsFit'
  <2> SUFFICES ASSUME NEW l \in stored' PROVE Fits(types', l)
    BY DEF StoredRowsFit
  <2>1. CASE l \in stored
    <3>1. Fits(types, l) /\ l \in Loads
      BY <2>1 DEF IInv, StoredRowsFit, TypeOK
    <3> QED
      BY <1>1, <3>1, FitsWider
  <2> QED
    BY <2>1 DEF StepOK
<1> QED
  BY <1>1, <1>2, <1>3 DEF IInv, StepOK

-----------------------------------------------------------------------------
(* The steps.                                                              *)

\* A worker without uncommitted changes and outside the stages in which it
\* relies on the table.
LEMMA IdleNext ==
  ASSUME NEW w \in Workers, draft'[w] = NoTable,
         stage'[w] \notin Prepared \cup {"add"}
  PROVE  WorkerInv(w)'
BY DEF WorkerInv, DraftInv, ColumnsInv, WideInv, NoTable, Prepared,
       InTry

\* The end of a transaction that is rolled back.
LEMMA RolledBack ==
  ASSUME IInv, NEW w \in Workers,
         NEW status \in {"closed", "idle", "aborted"}, EndTx(w, status),
         stage' \in [Workers -> {"new"} \cup Running \cup Final],
         stage'[w] \notin Running,
         \A v \in Workers \ {w} : stage'[v] = stage[v],
         UNCHANGED <<types, stored, local>>
  PROVE  StepOK(w)
<1>1. SessionType' /\ LockInv' /\ draft'[w] = NoTable
      /\ \A v \in Workers \ {w} : draft'[v] = draft[v]
  BY EndLocks, TypeParts DEF IInv
<1>2. TypeOK'
  BY <1>1 DEF IInv, TypeOK, SessionType, LockInv, local
<1>3. WorkerInv(w)'
  BY <1>1, IdleNext DEF Prepared, Running, BeforeTry, InTry
<1> QED
  BY <1>1, <1>2, <1>3 DEF StepOK, Alone, local

LEMMA SessionStep ==
  ASSUME IInv, NEW w \in Workers,
         Connect(w) \/ Close(w) \/ Rollback(w) \/ ConnectionLost(w)
           \/ WriteFails(w)
  PROVE  StepOK(w)
<1>1. CASE Connect(w) \/ Close(w) \/ Rollback(w)
  BY <1>1, RolledBack DEF Connect, Close, Rollback, IInv, TypeOK
<1>2. CASE ConnectionLost(w)
  BY <1>2, RolledBack
     DEF ConnectionLost, Goto, IInv, TypeOK, Final, Running, BeforeTry, InTry
<1>3. CASE WriteFails(w)
  BY <1>3, RolledBack
     DEF WriteFails, Goto, IInv, TypeOK, Final, Running, BeforeTry, InTry
<1> QED
  BY <1>1, <1>2, <1>3

\* A step that leaves the table and the session's changes alone and ends in
\* a stage that relies on nothing.
LEMMA Harmless ==
  ASSUME IInv, NEW w \in Workers,
         TypeOK', Alone(w), UNCHANGED <<types, stored>>, draft'[w] = draft[w],
         stage'[w] \notin Prepared \cup {"add"},
         stage[w] \notin InTry
  PROVE  StepOK(w)
<1>1. WorkerInv(w)'
  BY DEF IInv, WorkerInv, DraftInv, ColumnsInv, WideInv, Prepared,
         InTry
<1> QED
  BY <1>1 DEF StepOK

LEMMA FailStep ==
  ASSUME IInv, NEW w \in Workers, StatementFails(w) \/ StatementRefused(w)
  PROVE  StepOK(w)
<1>1. stage' = [stage EXCEPT ![w] = "failed"] /\ UNCHANGED <<types, stored, local>>
      /\ stage[w] \notin InTry
  BY DEF StatementFails, StatementRefused, Goto, BeforeTry, Returned, InTry
<1>2. stage' \in [Workers -> {"new"} \cup Running \cup Final]
      /\ stage'[w] = "failed" /\ \A v \in Workers \ {w} : stage'[v] = stage[v]
  BY <1>1 DEF IInv, TypeOK, Final
<1>3. CASE EndTx(w, "aborted")
  BY <1>1, <1>2, <1>3, RolledBack DEF Running, BeforeTry, InTry
<1>4. CASE UNCHANGED <<draft, lock>>
           /\ (tx' = [tx EXCEPT ![w] = "open"] \/ tx' = tx)
  <2>1. TypeOK'
    BY <1>1, <1>2, <1>4 DEF IInv, TypeOK, local
  <2> QED
    BY <1>1, <1>2, <1>4, <2>1, Harmless
       DEF Alone, local, Prepared, InTry
<1> QED
  BY <1>3, <1>4 DEF StatementFails, StatementRefused

LEMMA NextLoadStep ==
  ASSUME IInv, NEW w \in Workers, NEW l \in Loads, NextLoad(w, l)
  PROVE  StepOK(w)
<1>1. TypeOK' /\ Alone(w) /\ stage'[w] = "ensure_catalog"
  BY DEF NextLoad, Goto, IInv, TypeOK, Alone, Running, BeforeTry
<1> QED
  BY <1>1, Harmless DEF NextLoad, Running, Prepared, InTry

\* A commit outside the try block.
LEMMA PlainCommit ==
  ASSUME IInv, NEW w \in Workers, EnsureCatalog(w) \/ CommitSchema(w)
  PROVE  StepOK(w)
<1>1. types' = View(w) /\ EndTx(w, "idle") /\ UNCHANGED <<stored, local>>
  BY DEF EnsureCatalog, CommitSchema, CommitTx
<1>2. SessionType' /\ LockInv' /\ draft'[w] = NoTable
      /\ \A v \in Workers \ {w} : draft'[v] = draft[v]
  BY <1>1, EndLocks, TypeParts DEF IInv
<1>3. types' \in Shapes
  BY <1>1, ViewType DEF IInv
<1>4. /\ stage' \in [Workers -> {"new"} \cup Running \cup Final]
      /\ \A v \in Workers \ {w} : stage'[v] = stage[v]
      /\ stage'[w] \in {"create", "catalog_get"}
      /\ (stage'[w] = "catalog_get" => stage[w] = "evolved")
  BY DEF EnsureCatalog, CommitSchema, Goto, IInv, TypeOK, Running, BeforeTry
<1>5. TypeOK'
  BY <1>1, <1>2, <1>3, <1>4 DEF IInv, TypeOK, SessionType, LockInv, local
<1>6. View(w)' = types'
  BY <1>2, <1>5 DEF TypeOK, View, NoTable, Shapes
<1>7. WorkerInv(w)'
  <2>1. \A k \in Columns : draft'[w][k] = Absent
    BY <1>2 DEF NoTable
  <2>2. stage'[w] # "add" /\ stage'[w] \notin InTry
    BY <1>4 DEF InTry
  <2>3. ASSUME stage'[w] \in Prepared, NEW k \in Schema(load'[w])
        PROVE  types'[k] # Absent
    <3>1. stage[w] = "evolved" /\ load'[w] = load[w]
      BY <1>1, <1>4, <2>3 DEF Prepared, local
    <3>2. View(w)[k] # Absent
      BY <2>3, <3>1 DEF IInv, WorkerInv, ColumnsInv, Prepared
    <3> QED
      BY <1>1, <3>2
  <2>4. ColumnsInv(w)'
    BY <1>6, <2>2, <2>3 DEF ColumnsInv
  <2>5. DraftInv(w)'
    BY <2>1 DEF DraftInv
  <2>6. WideInv(w)'
    BY <2>2 DEF WideInv
  <2> QED
    BY <2>4, <2>5, <2>6 DEF WorkerInv
<1> QED
  BY <1>1, <1>2, <1>4, <1>5, <1>7 DEF StepOK, Alone, local

\* Types and locks after a statement that changes the table at most under the
\* exclusive lock.
LEMMA StatementType ==
  ASSUME IInv, NEW w \in Workers, NEW mode \in LockModes, Statement(w, mode),
         draft' = draft \/ mode = "exclusive",
         draft' \in [Workers -> Shapes],
         \A v \in Workers \ {w} : draft'[v] = draft[v],
         UNCHANGED <<types, stored, load>>,
         stage' \in [Workers -> {"new"} \cup Running \cup Final],
         names' \in [Workers -> SUBSET Columns],
         promote' \in [Workers -> SUBSET Columns]
  PROVE  TypeOK'
<1>1. /\ tx' \in [Workers -> {"closed", "idle", "open", "aborted"}]
      /\ lock' \in [Workers -> LockModes]
      /\ \A v \in Workers : lock'[v] # "none" => tx'[v] = "open"
      /\ \A v \in Workers : lock'[v] = "exclusive" =>
           \A u \in Workers \ {v} : lock'[u] = "none"
      /\ mode = "exclusive" \/ lock[w] = "exclusive" => lock'[w] = "exclusive"
      /\ \A v \in Workers \ {w} : lock'[v] = lock[v] /\ tx'[v] = tx[v]
  BY StatementLocks, TypeParts DEF IInv
<1>2. \A v \in Workers : draft'[v] # NoTable => lock'[v] = "exclusive"
  BY <1>1, TypeParts DEF IInv, LockInv
<1> QED
  BY <1>1, <1>2 DEF IInv, TypeOK

LEMMA CreateStep ==
  ASSUME IInv, NEW w \in Workers, CreateTable(w) PROVE StepOK(w)
<1>1. /\ stage[w] = "create"
      /\ stage' = [stage EXCEPT ![w] = "columns"]
      /\ UNCHANGED <<types, stored, local>>
  BY DEF CreateTable, Goto
<1>2. /\ stage' \in [Workers -> {"new"} \cup Running \cup Final]
      /\ stage'[w] = "columns"
      /\ \A v \in Workers \ {w} : stage'[v] = stage[v]
  BY <1>1 DEF IInv, TypeOK, Running, BeforeTry
<1>3. CASE Statement(w, "none") /\ UNCHANGED draft
  <2>1. TypeOK'
    BY <1>1, <1>2, <1>3, StatementType DEF IInv, TypeOK, local, LockModes
  <2> QED
    BY <1>1, <1>2, <1>3, <2>1, Harmless DEF Alone, local, Prepared, InTry
<1>4. CASE /\ ~Exists(types) /\ Statement(w, "exclusive")
           /\ draft' = [draft EXCEPT ![w] = Inferred[load[w]]]
  <2>1. Inferred[load[w]] \in Shapes
    BY LoadsAssumption DEF IInv, TypeOK
  <2>2. /\ draft' \in [Workers -> Shapes]
        /\ draft'[w] = Inferred[load[w]]
        /\ \A v \in Workers \ {w} : draft'[v] = draft[v]
    BY <1>4, <2>1 DEF IInv, TypeOK
  <2>3. TypeOK'
    BY <1>1, <1>2, <1>4, <2>2, StatementType DEF IInv, TypeOK, local, LockModes
  <2>4. \A k \in Columns : types'[k] = Absent
    BY <1>1, <1>4 DEF Exists, NoTable
  <2>5. WorkerInv(w)'
    <3>1. DraftInv(w)'
      BY <2>4 DEF DraftInv
    <3>2. ColumnsInv(w)' /\ WideInv(w)'
      BY <1>2 DEF ColumnsInv, WideInv, Prepared, InTry
    <3> QED
      BY <3>1, <3>2 DEF WorkerInv
  <2> QED
    BY <1>1, <1>2, <2>2, <2>3, <2>5 DEF StepOK, Alone, local
<1> QED
  BY <1>3, <1>4 DEF CreateTable

LEMMA ReadColumnsStep ==
  ASSUME IInv, NEW w \in Workers, ReadColumns(w) PROVE StepOK(w)
<1> DEFINE Seen == {k \in Columns : View(w)[k] # Absent}
<1>1. /\ stage[w] = "columns" /\ Statement(w, "none")
      /\ names' = [names EXCEPT ![w] = Seen]
      /\ UNCHANGED <<types, stored, load, promote, draft>>
      /\ stage' = [stage EXCEPT ![w] =
                     IF LegacyColumn(w) THEN "failed" ELSE "add"]
  BY DEF ReadColumns, Goto
<1>2. /\ stage' \in [Workers -> {"new"} \cup Running \cup Final]
      /\ names' \in [Workers -> SUBSET Columns]
      /\ names'[w] = Seen
      /\ stage'[w] = IF LegacyColumn(w) THEN "failed" ELSE "add"
      /\ \A v \in Workers \ {w} : stage'[v] = stage[v] /\ names'[v] = names[v]
  BY <1>1 DEF IInv, TypeOK, Running, BeforeTry, Final
<1>3. TypeOK'
  BY <1>1, <1>2, StatementType DEF IInv, TypeOK, LockModes
<1>4. Alone(w)
  BY <1>1, <1>2 DEF Alone
<1>5. CASE LegacyColumn(w)
  BY <1>1, <1>2, <1>3, <1>4, <1>5, Harmless DEF Prepared, InTry
<1>6. CASE ~LegacyColumn(w)
  <2>1. View(w)' = View(w) /\ stage'[w] = "add"
    BY <1>1, <1>2, <1>6 DEF View
  <2>2. DraftInv(w)'
    BY <1>1 DEF IInv, WorkerInv, DraftInv, InTry
  <2>3. ColumnsInv(w)' /\ WideInv(w)'
    BY <1>2, <2>1 DEF ColumnsInv, WideInv, Prepared, InTry
  <2> QED
    BY <1>1, <1>3, <1>4, <2>2, <2>3 DEF StepOK, WorkerInv
<1> QED
  BY <1>5, <1>6

LEMMA AddColumnStep ==
  ASSUME IInv, NEW w \in Workers, NEW k \in Columns, AddColumn(w, k)
  PROVE  StepOK(w)
<1>1. /\ stage[w] = "add" /\ k \in Schema(load[w])
      /\ Statement(w, "exclusive")
      /\ names' = [names EXCEPT ![w] = @ \cup {k}]
      /\ UNCHANGED <<types, stored, stage, load, promote>>
      /\ draft' = IF View(w)[k] = Absent
                    THEN [draft EXCEPT ![w][k] = Inferred[load[w]][k]]
                    ELSE draft
  BY DEF AddColumn
<1>2. Inferred[load[w]][k] \in Types \cup {Absent} /\ Inferred[load[w]][k] # Absent
  BY <1>1, LoadsAssumption DEF IInv, TypeOK, Schema, Shapes
<1>3. /\ draft' \in [Workers -> Shapes]
      /\ \A v \in Workers \ {w} : draft'[v] = draft[v]
      /\ \A j \in Columns \ {k} : draft'[w][j] = draft[w][j]
      /\ draft'[w][k] # draft[w][k] =>
           View(w)[k] = Absent /\ draft'[w][k] = Inferred[load[w]][k]
  BY <1>1, <1>2 DEF IInv, TypeOK, Shapes
<1>4. /\ names' \in [Workers -> SUBSET Columns]
      /\ names'[w] = names[w] \cup {k}
      /\ \A v \in Workers \ {w} : names'[v] = names[v]
  BY <1>1 DEF IInv, TypeOK
<1>5. TypeOK'
  BY <1>1, <1>3, <1>4, StatementType DEF IInv, TypeOK, LockModes
<1>6. View(w)[k] = Absent => types[k] = Absent /\ draft[w][k] = Absent
  BY DEF View
<1>7. draft'[w][k] # Absent \/ types[k] # Absent
  <2>1. CASE View(w)[k] = Absent
    BY <1>1, <1>2, <2>1 DEF IInv, TypeOK, Shapes
  <2>2. CASE View(w)[k] # Absent
    BY <1>1, <2>2 DEF View
  <2> QED
    BY <2>1, <2>2
<1>8. DraftInv(w)'
  BY <1>1, <1>3, <1>6 DEF IInv, WorkerInv, DraftInv, InTry
<1>9. ColumnsInv(w)'
  <2>1. ASSUME NEW j \in names'[w] PROVE View(w)'[j] # Absent
    <3>1. j \in Columns
      BY <1>4
    <3>2. CASE j = k
      BY <1>1, <1>7, <3>1, <3>2 DEF View
    <3>3. CASE j # k
      <4>1. View(w)[j] # Absent
        BY <1>1, <1>4, <3>3 DEF IInv, WorkerInv, ColumnsInv
      <4> QED
        BY <1>1, <1>3, <3>1, <3>3, <4>1 DEF View
    <3> QED
      BY <3>2, <3>3
  <2> QED
    BY <1>1, <2>1 DEF ColumnsInv, Prepared
<1>10. WideInv(w)'
  BY <1>1 DEF WideInv, InTry
<1> QED
  BY <1>1, <1>3, <1>4, <1>5, <1>8, <1>9, <1>10
     DEF StepOK, Alone, WorkerInv

\* Statements that only advance a prepared load.
LEMMA AdvanceStep ==
  ASSUME IInv, NEW w \in Workers,
         CommentColumns(w) \/ CatalogGet(w) \/ CountRows(w)
  PROVE  StepOK(w)
<1>1. \E mode \in LockModes : Statement(w, mode)
  BY DEF CommentColumns, CatalogGet, CountRows, LockModes
<1>2. PICK mode \in LockModes : Statement(w, mode)
  BY <1>1
<1>3. UNCHANGED <<types, stored, local, draft>>
  BY DEF CommentColumns, CatalogGet, CountRows
<1>4. PICK next \in {"evolved", "skipped", "read_types", "counted"} :
        /\ stage' = [stage EXCEPT ![w] = next]
        /\ next = "evolved" => CommentColumns(w)
        /\ next \in {"skipped", "read_types"} => CatalogGet(w)
        /\ next = "counted" => CountRows(w)
  BY DEF CommentColumns, CatalogGet, CountRows, Goto
<1>5. /\ stage' \in [Workers -> {"new"} \cup Running \cup Final]
      /\ stage'[w] = next
      /\ \A v \in Workers \ {w} : stage'[v] = stage[v]
  BY <1>4 DEF IInv, TypeOK, Running, BeforeTry, Final, Returned
<1>6. TypeOK'
  BY <1>2, <1>3, <1>5, StatementType DEF IInv, TypeOK, local
<1>7. stage[w] \notin InTry
  BY DEF CommentColumns, CatalogGet, CountRows, Returned, InTry
<1>8. CASE next \in {"skipped", "counted"}
  BY <1>3, <1>5, <1>6, <1>7, <1>8, Harmless DEF Alone, local, Prepared
<1>9. CASE next \in {"evolved", "read_types"}
  <2>1. View(w)' = View(w) /\ Schema(load'[w]) = Schema(load[w])
    BY <1>3 DEF View, local
  <2>2. \A k \in Schema(load[w]) : View(w)[k] # Absent
    <3>1. CASE next = "evolved"
      BY <1>4, <3>1 DEF CommentColumns, IInv, WorkerInv, ColumnsInv
    <3>2. CASE next = "read_types"
      BY <1>4, <3>2 DEF CatalogGet, IInv, WorkerInv, ColumnsInv, Prepared
    <3> QED
      BY <1>9, <3>1, <3>2
  <2>3. ColumnsInv(w)'
    BY <1>5, <1>9, <2>1, <2>2 DEF ColumnsInv
  <2>4. DraftInv(w)'
    BY <1>3, <1>7 DEF IInv, WorkerInv, DraftInv
  <2>5. WideInv(w)'
    BY <1>5, <1>9 DEF WideInv, InTry
  <2> QED
    BY <1>3, <1>5, <1>6, <2>3, <2>4, <2>5
       DEF StepOK, Alone, WorkerInv, local
<1> QED
  BY <1>8, <1>9

LEMMA ReadTypesStep ==
  ASSUME IInv, NEW w \in Workers, ReadTypes(w) PROVE StepOK(w)
<1>1. /\ stage[w] = "read_types" /\ Statement(w, "none")
      /\ promote' = [promote EXCEPT ![w] = MustWiden(w)]
      /\ stage' = [stage EXCEPT ![w] = "write"]
      /\ UNCHANGED <<types, stored, load, names, draft>>
  BY DEF ReadTypes, Goto
<1>2. MustWiden(w) \subseteq Schema(load[w]) /\ Schema(load[w]) \subseteq Columns
  BY DEF MustWiden, Schema
<1>3. /\ stage' \in [Workers -> {"new"} \cup Running \cup Final]
      /\ stage'[w] = "write"
      /\ promote' \in [Workers -> SUBSET Columns]
      /\ promote'[w] = MustWiden(w)
      /\ \A v \in Workers \ {w} : stage'[v] = stage[v] /\ promote'[v] = promote[v]
  BY <1>1, <1>2 DEF IInv, TypeOK, Running, InTry
<1>4. TypeOK'
  BY <1>1, <1>3, StatementType DEF IInv, TypeOK, LockModes
<1>5. View(w)' = View(w)
  BY <1>1 DEF View
<1>6. \A k \in Schema(load[w]) : View(w)[k] # Absent
  BY <1>1 DEF IInv, WorkerInv, ColumnsInv, Prepared
<1>7. DraftInv(w)'
  BY <1>1 DEF IInv, WorkerInv, DraftInv, InTry
<1>8. ColumnsInv(w)'
  BY <1>1, <1>3, <1>5, <1>6 DEF ColumnsInv
<1>9. WideInv(w)'
  <2>1. \A k \in Schema(load[w]) \ MustWiden(w) :
          \/ View(w)[k] = "TEXT"
          \/ View(w)[k] = Inferred[load[w]][k] /\ k \notin Odd[load[w]]
    BY <1>6 DEF MustWiden
  <2> QED
    BY <1>1, <1>2, <1>3, <1>5, <2>1 DEF WideInv
<1> QED
  BY <1>1, <1>3, <1>4, <1>7, <1>8, <1>9 DEF StepOK, Alone, WorkerInv

LEMMA PromoteStep ==
  ASSUME IInv, NEW w \in Workers, NEW k \in Columns, PromoteColumn(w, k)
  PROVE  StepOK(w)
<1>1. /\ stage[w] = "write" /\ k \in promote[w] /\ Statement(w, "exclusive")
      /\ draft' = [draft EXCEPT ![w][k] = "TEXT"]
      /\ promote' = [promote EXCEPT ![w] = @ \ {k}]
      /\ UNCHANGED <<types, stored, stage, load, names>>
  BY DEF PromoteColumn
<1>2. /\ draft' \in [Workers -> Shapes]
      /\ draft'[w][k] = "TEXT"
      /\ \A j \in Columns \ {k} : draft'[w][j] = draft[w][j]
      /\ \A v \in Workers \ {w} : draft'[v] = draft[v]
  BY <1>1, TypesAssumption DEF IInv, TypeOK, Shapes
<1>3. /\ promote' \in [Workers -> SUBSET Columns]
      /\ promote'[w] = promote[w] \ {k}
      /\ \A v \in Workers \ {w} : promote'[v] = promote[v]
  BY <1>1 DEF IInv, TypeOK
<1>4. TypeOK'
  BY <1>1, <1>2, <1>3, StatementType DEF IInv, TypeOK, LockModes
<1>5. k \in Schema(load[w]) /\ View(w)[k] # Absent
  BY <1>1 DEF IInv, WorkerInv, WideInv, ColumnsInv, InTry, Prepared
<1>6. View(w)'[k] = "TEXT"
      /\ \A j \in Columns \ {k} : View(w)'[j] = View(w)[j]
  BY <1>1, <1>2, TypesAssumption DEF View
<1>7. DraftInv(w)'
  BY <1>1, <1>2 DEF IInv, WorkerInv, DraftInv, InTry
<1>8. ColumnsInv(w)'
  <2>1. \A j \in Schema(load[w]) : View(w)[j] # Absent /\ j \in Columns
    BY <1>1 DEF IInv, WorkerInv, ColumnsInv, Prepared, Schema
  <2> QED
    BY <1>1, <1>6, <2>1, TypesAssumption DEF ColumnsInv
<1>9. WideInv(w)'
  <2>1. \A j \in Schema(load[w]) \ promote[w] :
          \/ View(w)[j] = "TEXT"
          \/ View(w)[j] = Inferred[load[w]][j] /\ j \notin Odd[load[w]]
    BY <1>1 DEF IInv, WorkerInv, WideInv, InTry
  <2>2. promote[w] \subseteq Schema(load[w]) /\ Schema(load[w]) \subseteq Columns
    BY <1>1 DEF IInv, WorkerInv, WideInv, InTry, Schema
  <2>3. \A j \in Schema(load[w]) \ promote'[w] :
          \/ View(w)'[j] = "TEXT"
          \/ View(w)'[j] = Inferred[load[w]][j] /\ j \notin Odd[load[w]]
    BY <1>3, <1>6, <2>1, <2>2
  <2> QED
    BY <1>1, <1>3, <2>2, <2>3 DEF WideInv
<1> QED
  BY <1>1, <1>2, <1>3, <1>4, <1>7, <1>8, <1>9
     DEF StepOK, Alone, WorkerInv

LEMMA CopyStep ==
  ASSUME IInv, NEW w \in Workers, CopyRows(w) PROVE StepOK(w)
<1>1. /\ stage[w] = "write" /\ promote[w] = {} /\ Statement(w, "shared")
      /\ stage' = [stage EXCEPT ![w] = "commit"]
      /\ UNCHANGED <<types, stored, local, draft>>
  BY DEF CopyRows, Goto
<1>2. /\ stage' \in [Workers -> {"new"} \cup Running \cup Final]
      /\ stage'[w] = "commit"
      /\ \A v \in Workers \ {w} : stage'[v] = stage[v]
  BY <1>1 DEF IInv, TypeOK, Running, InTry
<1>3. TypeOK'
  BY <1>1, <1>2, StatementType DEF IInv, TypeOK, LockModes, local
<1>4. View(w)' = View(w)
  BY <1>1 DEF View
<1>5. DraftInv(w)'
  BY <1>1, <1>2 DEF IInv, WorkerInv, DraftInv, InTry
<1>6. ColumnsInv(w)'
  BY <1>1, <1>2, <1>4 DEF IInv, WorkerInv, ColumnsInv, Prepared, local
<1>7. WideInv(w)'
  BY <1>1, <1>2, <1>4 DEF IInv, WorkerInv, WideInv, InTry, local
<1> QED
  BY <1>1, <1>2, <1>3, <1>5, <1>6, <1>7
     DEF StepOK, Alone, WorkerInv, local

\* A load that is about to COPY, or has copied, fits the table as its own
\* transaction sees it.
LEMMA WidenedFits ==
  ASSUME NEW w \in Workers, WorkerInv(w), stage[w] \in InTry, promote[w] = {}
  PROVE  Fits(View(w), load[w])
BY DEF WorkerInv, WideInv, Fits

LEMMA CommitStep ==
  ASSUME IInv, NEW w \in Workers, Commit(w) \/ CommitInDoubt(w)
  PROVE  StepOK(w)
<1>1. PICK status \in {"idle", "closed"} :
        types' = View(w) /\ EndTx(w, status)
  BY DEF Commit, CommitInDoubt, CommitTx
<1>2. /\ stage[w] = "commit"
      /\ stored' = stored \cup {load[w]}
      /\ UNCHANGED local
      /\ stage' \in [Workers -> {"new"} \cup Running \cup Final]
      /\ stage'[w] \in {"loaded", "failed"}
      /\ \A v \in Workers \ {w} : stage'[v] = stage[v]
  BY DEF Commit, CommitInDoubt, Goto, IInv, TypeOK, Final, Returned
<1>3. SessionType' /\ LockInv' /\ draft'[w] = NoTable
      /\ \A v \in Workers \ {w} : draft'[v] = draft[v]
  BY <1>1, EndLocks, TypeParts DEF IInv
<1>4. types' \in Shapes
  BY <1>1, ViewType DEF IInv
<1>5. TypeOK'
  BY <1>2, <1>3, <1>4 DEF IInv, TypeOK, SessionType, LockInv, local
<1>6. WorkerInv(w)'
  BY <1>2, <1>3, IdleNext DEF Prepared
<1>7. Fits(types', load[w])
  BY <1>1, <1>2, WidenedFits DEF IInv, WorkerInv, WideInv, InTry
<1> QED
  BY <1>1, <1>2, <1>3, <1>5, <1>6, <1>7 DEF StepOK, Alone, local

-----------------------------------------------------------------------------
(* The theorems.                                                           *)

LEMMA EveryStep ==
  ASSUME IInv, Next PROVE \E w \in Workers : StepOK(w)
<1> PICK w \in Workers :
      \/ LockStep(w) \/ PlainStep(w) \/ Between(w)
      \/ Connect(w) \/ ConnectionLost(w)
      \/ CommitInDoubt(w) \/ StatementFails(w) \/ WriteFails(w)
  BY DEF Next
<1>1. CASE LockStep(w)
  BY <1>1, CreateStep, AdvanceStep, CopyStep, AddColumnStep, PromoteStep
     DEF LockStep
<1>2. CASE PlainStep(w)
  BY <1>2, PlainCommit, ReadColumnsStep, AdvanceStep, ReadTypesStep, CommitStep,
     FailStep DEF PlainStep
<1>3. CASE Between(w)
  BY <1>3, NextLoadStep, SessionStep DEF Between
<1>4. CASE Connect(w) \/ ConnectionLost(w) \/ WriteFails(w)
  BY <1>4, SessionStep
<1>5. CASE CommitInDoubt(w) \/ StatementFails(w)
  BY <1>5, CommitStep, FailStep
<1> QED
  BY <1>1, <1>2, <1>3, <1>4, <1>5

LEMMA Initial == Init => IInv
<1> SUFFICES ASSUME Init PROVE IInv
  OBVIOUS
<1>1. NoTable \in Shapes /\ \A k \in Columns : NoTable[k] = Absent
  BY DEF NoTable, Shapes
<1>2. TypeOK
  BY <1>1, LegacyAssumption
     DEF Init, TypeOK, Running, BeforeTry, InTry, Final, Returned, LockModes
<1>3. \A w \in Workers : WorkerInv(w)
  BY <1>1 DEF Init, WorkerInv, DraftInv, ColumnsInv, WideInv,
              Prepared, InTry
<1>4. StoredRowsFit
  BY DEF Init, StoredRowsFit
<1> QED
  BY <1>2, <1>3, <1>4 DEF IInv

LEMMA Stuttering == IInv /\ UNCHANGED vars => IInv'
<1> SUFFICES ASSUME IInv, UNCHANGED vars PROVE IInv'
  OBVIOUS
<1>1. \A w \in Workers : View(w)' = View(w)
  BY DEF vars, View
<1>2. TypeOK' /\ StoredRowsFit'
  BY DEF IInv, TypeOK, StoredRowsFit, vars, local
<1>3. ASSUME NEW w \in Workers PROVE WorkerInv(w)'
  <2>1. DraftInv(w)'
    BY DEF IInv, WorkerInv, DraftInv, vars, local
  <2>2. ColumnsInv(w)' /\ WideInv(w)'
    BY <1>1 DEF IInv, WorkerInv, ColumnsInv, WideInv, vars, local
  <2> QED
    BY <2>1, <2>2 DEF WorkerInv
<1> QED
  BY <1>2, <1>3 DEF IInv

\* Without the history variable.
LEMMA SpecSteps == Spec => Init /\ [][Next]_vars
<1>1. [Next /\ UNCHANGED inherited]_<<vars, inherited>> => [Next]_vars
  OBVIOUS
<1> QED
  BY <1>1, PTL DEF Spec

THEOREM Invariance == Spec => []IInv
<1>1. IInv /\ [Next]_vars => IInv'
  BY EveryStep, Preserved, Stuttering
<1> QED
  BY Initial, <1>1, SpecSteps, PTL

\* Types are as declared, and uncommitted changes of the table are made by
\* one worker at a time, under the exclusive lock.
THEOREM TypeCorrect == Spec => []TypeOK
<1>1. IInv => TypeOK
  BY DEF IInv
<1> QED
  BY Invariance, <1>1, PTL

\* COPY accepts every cell of a load whose columns were compared with the
\* live types and widened where needed, though nothing was locked when the
\* types were read (_columns_to_promote).
THEOREM CopyCorrect == Spec => []CopyNeverRejected
<1>1. IInv => CopyNeverRejected
  BY WidenedFits DEF IInv, CopyNeverRejected, InTry
<1> QED
  BY Invariance, <1>1, PTL

\* Rows once committed stay in columns that hold them, whatever loads follow.
THEOREM StoredCorrect == Spec => []StoredRowsFit
<1>1. IInv => StoredRowsFit
  BY DEF IInv
<1> QED
  BY Invariance, <1>1, PTL

LEMMA OnlyCommitsChangeTypes ==
  ASSUME Next, types' # types
  PROVE  \E w \in Workers :
           /\ types' = View(w)
           /\ \/ stage[w] \in {"ensure_catalog", "evolved"}
              \/ stage[w] = "commit" /\ stage' = [stage EXCEPT ![w] = "loaded"]
              \/ stage[w] = "commit" /\ stage' = [stage EXCEPT ![w] = "failed"]
BY DEF Next, LockStep, PlainStep, Between, CreateTable, CommentColumns, CopyRows,
       CountRows, AddColumn, PromoteColumn, EnsureCatalog, ReadColumns,
       CommitSchema, CatalogGet, ReadTypes, Commit, StatementRefused, NextLoad,
       Close, Rollback, Connect, ConnectionLost, CommitInDoubt, StatementFails,
       WriteFails, CommitTx, Goto

\* A column is widened only in the commit that brings the rows that need it;
\* a failed load leaves every column at its type (write_artifact_rows).
THEOREM PromotionAtomic == Spec => PromotionComesWithRows
<1>1. IInv /\ [Next]_vars =>
        [\A k \in Columns :
           types[k] # Absent /\ types'[k] # types[k] =>
             /\ types'[k] = "TEXT"
             /\ \E w \in Workers : stage[w] = "commit" /\ stage'[w] # "commit"]_vars
  <2> SUFFICES ASSUME IInv, Next, NEW k \in Columns,
                      types[k] # Absent, types'[k] # types[k]
               PROVE  /\ types'[k] = "TEXT"
                      /\ \E w \in Workers :
                           stage[w] = "commit" /\ stage'[w] # "commit"
    OBVIOUS
  <2>1. types'[k] = "TEXT"
    BY EveryStep, Preserved DEF Wider
  <2>2. PICK w \in Workers :
          /\ types' = View(w)
          /\ \/ stage[w] \in {"ensure_catalog", "evolved"}
             \/ stage[w] = "commit" /\ stage' = [stage EXCEPT ![w] = "loaded"]
             \/ stage[w] = "commit" /\ stage' = [stage EXCEPT ![w] = "failed"]
    BY OnlyCommitsChangeTypes
  <2>3. stage[w] \in InTry
    BY <2>2 DEF IInv, WorkerInv, DraftInv, View
  <2>4. stage[w] = "commit" /\ stage'[w] # "commit"
    BY <2>2, <2>3 DEF InTry, IInv, TypeOK
  <2> QED
    BY <2>1, <2>4
<1> QED
  BY Invariance, <1>1, SpecSteps, PTL DEF PromotionComesWithRows

-----------------------------------------------------------------------------
(* Tables of an earlier release.                                           *)

\* No header of l has a column under its old name in the inherited table.
Unsplit(l) == \A k \in Renamed(l) : inherited[Legacy[l][k]] = Absent

Checked == {"add"} \cup Prepared

\* An inherited column is never lost, and a load gets behind the check, and
\* into the table, only if it would split nothing.
LegacyInv ==
  /\ \A k \in Columns : inherited[k] # Absent => types[k] # Absent
  /\ \A w \in Workers : stage[w] \in Checked => Unsplit(load[w])
  /\ LegacyNotSplit

\* The check is the only way into the stages behind it, and no load starts
\* there.
LEMMA OnlyReadColumnsChecks ==
  ASSUME TypeOK, Next, NEW v \in Workers, stage'[v] \in Checked
  PROVE  /\ load'[v] = load[v]
         /\ stage[v] \in Checked \/ ~LegacyColumn(v)
<1>1. PICK w \in Workers :
        \/ LockStep(w) \/ PlainStep(w) \/ Between(w)
        \/ Connect(w) \/ ConnectionLost(w)
        \/ CommitInDoubt(w) \/ StatementFails(w) \/ WriteFails(w)
  BY DEF Next
<1>2. \/ load' = load
      \/ \E l \in Loads : /\ load' = [load EXCEPT ![w] = l]
                         /\ stage' = [stage EXCEPT ![w] = "ensure_catalog"]
  BY <1>1 DEF LockStep, PlainStep, Between, CreateTable, CommentColumns,
       CopyRows, CountRows, AddColumn, PromoteColumn, EnsureCatalog, ReadColumns,
       CommitSchema, CatalogGet, ReadTypes, Commit, StatementRefused, NextLoad,
       Close, Rollback, Connect, ConnectionLost, CommitInDoubt, StatementFails,
       WriteFails, Goto, local
<1>3. load'[v] = load[v]
  BY <1>2 DEF TypeOK, Checked, Prepared
<1>4. CASE v # w
  BY <1>1, <1>3, <1>4 DEF LockStep, PlainStep, Between, CreateTable,
       CommentColumns, CopyRows, CountRows, AddColumn, PromoteColumn,
       EnsureCatalog, ReadColumns, CommitSchema, CatalogGet, ReadTypes, Commit,
       StatementRefused, NextLoad, Close, Rollback, Connect, ConnectionLost,
       CommitInDoubt, StatementFails, WriteFails, Goto, TypeOK
<1>5. CASE v = w
  <2>1. CASE LockStep(w)
    BY <1>3, <1>5, <2>1 DEF LockStep, CreateTable, CommentColumns, CopyRows,
       CountRows, AddColumn, PromoteColumn, Goto, TypeOK, Checked, Prepared
  <2>2. CASE PlainStep(w)
    BY <1>3, <1>5, <2>2 DEF PlainStep, EnsureCatalog, ReadColumns, CommitSchema,
       CatalogGet, ReadTypes, Commit, StatementRefused, Goto, TypeOK, Checked,
       Prepared
  <2>3. CASE Between(w) \/ Connect(w)
    BY <1>3, <1>5, <2>3 DEF Between, NextLoad, Close, Rollback, Connect, Goto,
       TypeOK, Checked, Prepared
  <2>4. CASE ConnectionLost(w) \/ CommitInDoubt(w) \/ StatementFails(w)
               \/ WriteFails(w)
    BY <1>3, <1>5, <2>4 DEF ConnectionLost, CommitInDoubt, StatementFails,
       WriteFails, Goto, TypeOK, Checked, Prepared
  <2> QED
    BY <1>1, <2>1, <2>2, <2>3, <2>4
<1> QED
  BY <1>4, <1>5

\* Rows are stored by a load that has got as far as its commit.
LEMMA OnlyCommitsStore ==
  ASSUME Next
  PROVE  \/ stored' = stored
         \/ \E w \in Workers : /\ stage[w] = "commit"
                               /\ stored' = stored \cup {load[w]}
BY DEF Next, LockStep, PlainStep, Between, CreateTable, CommentColumns, CopyRows,
       CountRows, AddColumn, PromoteColumn, EnsureCatalog, ReadColumns,
       CommitSchema, CatalogGet, ReadTypes, Commit, StatementRefused, NextLoad,
       Close, Rollback, Connect, ConnectionLost, CommitInDoubt, StatementFails,
       WriteFails

\* A load with a header whose column an earlier release has left under its old
\* name is never stored, whatever other workers add meanwhile
\* (_ensure_missing_columns).
THEOREM LegacyCorrect == Spec => []LegacyNotSplit
<1>1. Init => LegacyInv
  BY DEF Init, LegacyInv, LegacyNotSplit, Checked, Prepared
<1>2. ASSUME IInv, LegacyInv, Next, UNCHANGED inherited PROVE LegacyInv'
  <2>1. ASSUME NEW k \in Columns, inherited'[k] # Absent PROVE types'[k] # Absent
    <3>1. types[k] # Absent
      BY <1>2, <2>1 DEF LegacyInv
    <3>2. Wider(types, types')
      BY <1>2, EveryStep, Preserved
    <3> QED
      BY <3>1, <3>2, TypesAssumption DEF Wider
  <2>2. ASSUME NEW w \in Workers, stage'[w] \in Checked
        PROVE  Unsplit(load[w]) /\ load'[w] = load[w]
    <3>1. /\ load'[w] = load[w]
          /\ stage[w] \in Checked \/ ~LegacyColumn(w)
      BY <1>2, <2>2, OnlyReadColumnsChecks DEF IInv
    <3>2. CASE ~LegacyColumn(w)
      <4> SUFFICES ASSUME NEW k \in Renamed(load[w])
                   PROVE  inherited[Legacy[load[w]][k]] = Absent
        BY <3>1 DEF Unsplit
      <4>1. k \in Columns /\ load[w] \in Loads
        BY <1>2 DEF Renamed, Schema, IInv, TypeOK
      <4>2. Legacy[load[w]][k] \in Columns
        BY <4>1, LegacyAssumption DEF Renamed
      <4>3. types[Legacy[load[w]][k]] = Absent
        BY <3>2, <4>2 DEF LegacyColumn, View
      <4> QED
        BY <1>2, <4>2, <4>3 DEF LegacyInv
    <3> QED
      BY <1>2, <3>1, <3>2 DEF LegacyInv
  <2>3. ASSUME NEW l \in stored' PROVE Unsplit(l)
    BY <1>2, OnlyCommitsStore DEF LegacyInv, LegacyNotSplit, Unsplit, Checked,
       Prepared
  <2> QED
    BY <1>2, <2>1, <2>2, <2>3 DEF LegacyInv, LegacyNotSplit, Unsplit
<1>3. ASSUME LegacyInv, UNCHANGED <<vars, inherited>> PROVE LegacyInv'
  BY <1>3 DEF LegacyInv, LegacyNotSplit, Unsplit, vars, local
<1>4. IInv /\ LegacyInv /\ [Next /\ UNCHANGED inherited]_<<vars, inherited>>
      => LegacyInv'
  BY <1>2, <1>3
<1>5. LegacyInv => LegacyNotSplit
  BY DEF LegacyInv
<1> QED
  BY Invariance, <1>1, <1>4, <1>5, PTL DEF Spec
=============================================================================
