---------------------------- MODULE LoaderProofs ----------------------------
(***************************************************************************)
(* Proofs about ArtifactLoader for every number of calls, artifacts and    *)
(* sessions, any interleaving and any failures; and, with one writer per   *)
(* artifact, that the loader stores every artifact exactly once and        *)
(* implements ArtifactLedger.  Then about BatchRun: a batch uses the       *)
(* loader as ArtifactLoader says it may be used, so that the loader's      *)
(* theorems hold for batches; failures stay with their file; reports are   *)
(* true; batches one after another are exclusive writers.                  *)
(***************************************************************************)
EXTENDS BatchRun, TLAPS

LEMMA NoWorkType == NoWork \in Work
  BY DEF NoWork, Work

\* TypeOK is an invariant: sinks run one call at a time, and a call inside
\* the try block of write_artifact_rows always has an open transaction.
THEOREM TypeCorrect == Spec => []TypeOK
<1>1. Init => TypeOK
  BY NoWorkType DEF Init, TypeOK, Active, BeforeTry, InTry, TxStatus
<1>2. TypeOK /\ [Next]_vars => TypeOK'
  <2> SUFFICES ASSUME TypeOK, [Next]_vars PROVE TypeOK'
    OBVIOUS
  <2> USE NoWorkType DEF TypeOK, callVars, dbVars, Goto, SetSession, Publish,
          Usable, Busy, Of, Active, BeforeTry, InTry, Final, TxStatus
  <2>1. ASSUME NEW c \in Calls, NEW s \in Sessions, Start(c, s) PROVE TypeOK'
    BY <2>1 DEF Start
  <2>2. ASSUME NEW c \in Calls, EnsureCatalog(c) PROVE TypeOK'
    BY <2>2 DEF EnsureCatalog, Work, Requests
  <2>3. ASSUME NEW c \in Calls, EnsureTable(c) PROVE TypeOK'
    BY <2>3 DEF EnsureTable, Work, Requests
  <2>4. ASSUME NEW c \in Calls, CatalogGet(c) PROVE TypeOK'
    BY <2>4 DEF CatalogGet, Requests
  <2>5. ASSUME NEW c \in Calls, ColumnsToPromote(c) PROVE TypeOK'
    BY <2>5 DEF ColumnsToPromote, AfterPromote, AfterDelete
  <2>6. ASSUME NEW c \in Calls, BeginDelete(c) PROVE TypeOK'
    <3> DEFINE w == [pending[session[c]] EXCEPT
                       !.target = stored \cap Of(request[c].artifact)]
    <3>1. session[c] \in Sessions /\ w \in Work
      BY <2>6 DEF BeginDelete, Work
    <3>2. /\ stage' = [stage EXCEPT ![c] = "deleting"]
          /\ pending' = [pending EXCEPT ![session[c]] = w]
          /\ tx' = [tx EXCEPT ![session[c]] = "open"]
          /\ UNCHANGED <<request, session, existing, stored, catalog>>
      BY <2>6 DEF BeginDelete
    <3> QED
      BY <2>6, <3>1, <3>2 DEF BeginDelete
  <2>7. ASSUME NEW c \in Calls, FinishDelete(c) PROVE TypeOK'
    <3> DEFINE t == pending[session[c]].target
               w == [pending[session[c]] EXCEPT
                       !.deleted = @ \cup (t \cap stored), !.target = {}]
    <3>1. session[c] \in Sessions /\ w \in Work
      BY <2>7 DEF FinishDelete, Work
    <3>2. /\ stage' = [stage EXCEPT ![c] = AfterDelete(c)]
          /\ pending' = [pending EXCEPT ![session[c]] = w]
          /\ tx' = [tx EXCEPT ![session[c]] = "open"]
          /\ UNCHANGED <<request, session, existing, stored, catalog>>
      BY <2>7 DEF FinishDelete
    <3>3. stage[c] = "deleting" /\ AfterDelete(c) \in {"upsert", "copy"}
      BY <2>7 DEF FinishDelete, AfterDelete
    <3> HIDE DEF w
    <3> QED
      BY <3>1, <3>2, <3>3
  <2>8. ASSUME NEW c \in Calls, CopyRows(c) PROVE TypeOK'
    <3> DEFINE w == [pending[session[c]] EXCEPT !.copied = @ \cup {c}]
    <3>1. session[c] \in Sessions /\ w \in Work
      <4>1. session[c] \in Sessions /\ pending[session[c]] \in Work
        BY <2>8 DEF CopyRows
      <4>2. pending[session[c]].copied \cup {c} \subseteq Calls
        BY <4>1 DEF Work
      <4> QED
        BY <4>1, <4>2 DEF Work
    <3>2. /\ stage' = [stage EXCEPT ![c] = "upsert"]
          /\ pending' = [pending EXCEPT ![session[c]] = w]
          /\ tx' = [tx EXCEPT ![session[c]] = "open"]
          /\ UNCHANGED <<request, session, existing, stored, catalog>>
      BY <2>8 DEF CopyRows
    <3>3. stage[c] = "copy"
      BY <2>8 DEF CopyRows
    <3> HIDE DEF w
    <3> QED
      BY <3>1, <3>2, <3>3
  <2>9. ASSUME NEW c \in Calls, UpsertCatalog(c) PROVE TypeOK'
    BY <2>9 DEF UpsertCatalog, Work
  <2>10. ASSUME NEW c \in Calls, Commit(c) PROVE TypeOK'
    BY <2>10 DEF Commit, Work, Requests
  <2>11. ASSUME NEW c \in Calls, CommitInDoubt(c) PROVE TypeOK'
    BY <2>11 DEF CommitInDoubt, Work, Requests
  <2>12. ASSUME NEW c \in Calls, StatementFails(c) PROVE TypeOK'
    BY <2>12 DEF StatementFails
  <2>13. ASSUME NEW c \in Calls, StatementRefused(c) PROVE TypeOK'
    BY <2>13 DEF StatementRefused
  <2>14. ASSUME NEW c \in Calls, WriteFails(c) PROVE TypeOK'
    BY <2>14 DEF WriteFails
  <2>15. ASSUME NEW s \in Sessions, Connect(s) PROVE TypeOK'
    BY <2>15 DEF Connect
  <2>16. ASSUME NEW s \in Sessions, Close(s) PROVE TypeOK'
    BY <2>16 DEF Close
  <2>17. ASSUME NEW s \in Sessions, Rollback(s) PROVE TypeOK'
    BY <2>17 DEF Rollback
  <2>18. ASSUME NEW s \in Sessions, ConnectionLost(s) PROVE TypeOK'
    BY <2>18 DEF ConnectionLost
  <2>19. ASSUME NEW s \in Sessions, CountRows(s) PROVE TypeOK'
    BY <2>19 DEF CountRows, Busy
  <2>20. CASE UNCHANGED vars
    BY <2>20 DEF vars
  <2> QED
    BY <2>1, <2>2, <2>3, <2>4, <2>5, <2>6, <2>7, <2>8, <2>9, <2>10, <2>11,
       <2>12, <2>13, <2>14, <2>15, <2>16, <2>17, <2>18, <2>19, <2>20
       DEF Next, CallNext, SessionNext, Proceed
<1> QED
  BY <1>1, <1>2, PTL DEF Spec

-----------------------------------------------------------------------------
(***************************************************************************)
(* The inductive invariant.  CatalogDescribesRows alone is not inductive:  *)
(* it has to be known what a transaction that commits is carrying.         *)
(***************************************************************************)

\* What session s has done for call c inside the try block.
CarriesWorkOf(c) ==
  LET w == pending[session[c]]
      a == request[c].artifact IN
  /\ \A d \in w.target \cup w.deleted : request[d].artifact = a
  /\ w.target \cup w.deleted # {} => a \notin EmptyArtifacts
  /\ stage[c] \in {"delete", "deleting"} \/ w.deleted # {} =>
       request[c].mode = "replace"
  /\ stage[c] = "copy" => a \notin EmptyArtifacts
  /\ w.copied = IF stage[c] \in {"upsert", "commit"} /\ a \notin EmptyArtifacts
                THEN {c} ELSE {}
  /\ w.entry = IF stage[c] = "commit" THEN c ELSE NoCall

WorkInv ==
  /\ \A c \in Calls : stage[c] \in InTry => CarriesWorkOf(c)
  /\ \A s \in Sessions :
       (\A c \in Calls : session[c] = s => stage[c] \notin InTry)
         => pending[s] = NoWork

StoredInv ==
  \A c \in stored : /\ stage[c] \in Final
                    /\ catalog[request[c].artifact] # NoCall
                    /\ request[c].artifact \notin EmptyArtifacts

NamedInv ==
  \A a \in Artifacts :
    catalog[a] # NoCall => /\ catalog[a] \in Of(a)
                           /\ a \notin EmptyArtifacts => catalog[a] \in stored

SuccessInv ==
  \A c \in Calls : stage[c] \in {"loaded", "skipped"} =>
                     catalog[request[c].artifact] # NoCall

IInv == TypeOK /\ WorkInv /\ StoredInv /\ NamedInv /\ SuccessInv

\* Before the try block a session has nothing uncommitted, so the commits of
\* ensure_catalog and ensure_table publish nothing.
LEMMA NothingCarried ==
  ASSUME TypeOK, WorkInv, NEW c \in Calls, stage[c] \in BeforeTry
  PROVE  /\ session[c] \in Sessions
         /\ pending[session[c]] = NoWork
         /\ Publish(session[c]) => stored' = stored /\ catalog' = catalog
<1>1. session[c] \in Sessions
  BY DEF TypeOK, Active
<1>2. pending[session[c]] = NoWork
  BY <1>1 DEF TypeOK, WorkInv, Active, BeforeTry, InTry
<1> QED
  BY <1>1, <1>2 DEF Publish, NoWork

\* Nothing is uncommitted on a session that counts rows between two calls.
LEMMA IdleSession ==
  ASSUME TypeOK, WorkInv, NEW s \in Sessions, CountRows(s)
  PROVE  /\ pending' = [pending EXCEPT ![s] = NoWork]
         /\ \A c \in Calls : session[c] = s => stage[c] \notin Active
<1>1. \A c \in Calls : session[c] = s => stage[c] \notin Active
  BY DEF CountRows, Busy
<1>2. pending[s] = NoWork
  BY <1>1 DEF WorkInv, Active
<1> QED
  BY <1>1, <1>2 DEF CountRows, SetSession

\* A step of one call that leaves every other call and session alone.
LEMMA CallStep ==
  ASSUME TypeOK, WorkInv, NEW c \in Calls, stage[c] \in Active,
         NEW next \in Active \cup Final, NEW w \in Work,
         stage' = [stage EXCEPT ![c] = next],
         pending' = [pending EXCEPT ![session[c]] = w],
         request' = request, session' = session,
         next \in InTry => CarriesWorkOf(c)',
         next \notin InTry => w = NoWork
  PROVE  WorkInv'
<1>1. session[c] \in Sessions
  BY DEF TypeOK
<1>2. ASSUME NEW d \in Calls, stage'[d] \in InTry
      PROVE  CarriesWorkOf(d)'
  <2>1. CASE d = c
    BY <1>2, <2>1 DEF TypeOK
  <2>2. CASE d # c
    <3>1. stage'[d] = stage[d] /\ stage[d] \in InTry
      BY <1>2, <2>2 DEF TypeOK
    <3>2. session[d] # session[c]
      BY <3>1, <2>2 DEF TypeOK, Active
    <3>3. pending'[session[d]] = pending[session[d]]
      BY <3>1, <3>2 DEF TypeOK, Active
    <3>4. CarriesWorkOf(d)
      BY <3>1 DEF WorkInv
    <3> QED
      BY <3>1, <3>3, <3>4, Zenon DEF CarriesWorkOf
  <2> QED
    BY <2>1, <2>2
<1>3. ASSUME NEW s \in Sessions,
             \A d \in Calls : session'[d] = s => stage'[d] \notin InTry
      PROVE  pending'[s] = NoWork
  <2>1. CASE s = session[c]
    BY <1>1, <1>3, <2>1 DEF TypeOK
  <2>2. CASE s # session[c]
    BY <1>1, <1>3, <2>2 DEF TypeOK, WorkInv
  <2> QED
    BY <2>1, <2>2
<1> QED
  BY <1>2, <1>3 DEF WorkInv

\* A step that ends whatever session s was doing.
LEMMA SessionStep ==
  ASSUME TypeOK, WorkInv, NEW s \in Sessions,
         pending' = [pending EXCEPT ![s] = NoWork],
         request' = request, session' = session,
         stage' \in [Calls -> {"new"} \cup Active \cup Final],
         \A c \in Calls : stage'[c] = stage[c]
                          \/ (session[c] = s /\ stage'[c] \notin InTry),
         \A c \in Calls : session[c] = s => stage'[c] \notin InTry
  PROVE  WorkInv'
<1>1. ASSUME NEW d \in Calls, stage'[d] \in InTry
      PROVE  CarriesWorkOf(d)'
  <2>1. stage'[d] = stage[d] /\ session[d] # s /\ session[d] \in Sessions
    BY <1>1 DEF TypeOK, Active
  <2>2. pending'[session[d]] = pending[session[d]]
    BY <2>1 DEF TypeOK
  <2>3. CarriesWorkOf(d)
    BY <1>1, <2>1 DEF WorkInv
  <2> QED
    BY <2>1, <2>2, <2>3, Zenon DEF CarriesWorkOf
<1>2. ASSUME NEW r \in Sessions,
             \A d \in Calls : session'[d] = r => stage'[d] \notin InTry
      PROVE  pending'[r] = NoWork
  BY <1>2 DEF TypeOK, WorkInv
<1> QED
  BY <1>1, <1>2 DEF WorkInv

\* The stages in which nothing is carried yet.
LEMMA EarlyStep ==
  ASSUME TypeOK, WorkInv, NEW c \in Calls, stage[c] \in Active,
         NEW next \in BeforeTry \cup Final,
         stage' = [stage EXCEPT ![c] = next],
         pending' = [pending EXCEPT ![session[c]] = NoWork],
         request' = request, session' = session
  PROVE  WorkInv'
  BY CallStep, NoWorkType DEF Active, BeforeTry, InTry, Final

LEMMA WorkStep == TypeOK /\ WorkInv /\ StoredInv /\ [Next]_vars => WorkInv'
<1> SUFFICES ASSUME TypeOK, WorkInv, StoredInv, [Next]_vars PROVE WorkInv'
  OBVIOUS
<1> USE DEF callVars, dbVars, Goto, SetSession
<1>1. ASSUME NEW c \in Calls, NEW s \in Sessions, Start(c, s) PROVE WorkInv'
  <2>1. /\ stage[c] = "new" /\ stage' = [stage EXCEPT ![c] = "ensure_catalog"]
        /\ session' = [session EXCEPT ![c] = s]
        /\ request' = request /\ pending' = pending
    BY <1>1 DEF Start
  <2>2. ASSUME NEW d \in Calls, stage'[d] \in InTry PROVE CarriesWorkOf(d)'
    <3>1. d # c /\ stage'[d] = stage[d] /\ session'[d] = session[d]
      BY <2>1, <2>2 DEF TypeOK, InTry
    <3>2. CarriesWorkOf(d)
      BY <2>2, <3>1 DEF WorkInv
    <3> QED
      BY <2>1, <3>1, <3>2, Zenon DEF CarriesWorkOf
  <2>3. ASSUME NEW r \in Sessions,
               \A d \in Calls : session'[d] = r => stage'[d] \notin InTry
        PROVE  pending'[r] = NoWork
    <3>1. \A d \in Calls : session[d] = r => stage[d] \notin InTry
      BY <2>1, <2>3 DEF TypeOK, InTry
    <3> QED
      BY <2>1, <3>1 DEF WorkInv
  <2> QED
    BY <2>2, <2>3 DEF WorkInv
<1>2. ASSUME NEW c \in Calls, EnsureCatalog(c) PROVE WorkInv'
  BY <1>2, EarlyStep DEF EnsureCatalog, Active, BeforeTry
<1>3. ASSUME NEW c \in Calls, EnsureTable(c) PROVE WorkInv'
  BY <1>3, EarlyStep DEF EnsureTable, Active, BeforeTry
<1>4. ASSUME NEW c \in Calls, CatalogGet(c) PROVE WorkInv'
  <2>1. pending[session[c]] = NoWork /\ stage[c] \in Active
    BY <1>4, NothingCarried DEF CatalogGet, Active, BeforeTry
  <2>2. PICK next \in {"skipped", "promote"} :
          stage' = [stage EXCEPT ![c] = next]
    BY <1>4 DEF CatalogGet
  <2> QED
    BY <1>4, <2>1, <2>2, EarlyStep DEF CatalogGet, BeforeTry, Final
<1>5. ASSUME NEW c \in Calls, ColumnsToPromote(c) PROVE WorkInv'
  <2>1. pending[session[c]] = NoWork /\ stage[c] \in Active
        /\ session[c] \in Sessions
    BY <1>5, NothingCarried DEF ColumnsToPromote, Active, BeforeTry
  <2>2. /\ stage' = [stage EXCEPT ![c] = AfterPromote(c)]
        /\ pending' = [pending EXCEPT ![session[c]] = NoWork]
        /\ request' = request /\ session' = session
    BY <1>5, <2>1 DEF ColumnsToPromote
  <2>3. /\ AfterPromote(c) \in {"delete", "copy", "upsert"}
        /\ AfterPromote(c) = "delete" => request[c].mode = "replace"
        /\ AfterPromote(c) = "upsert" => request[c].artifact \in EmptyArtifacts
        /\ AfterPromote(c) = "copy" => request[c].artifact \notin EmptyArtifacts
    BY DEF AfterPromote, AfterDelete, Replaces
  <2>4. CarriesWorkOf(c)'
    BY <2>1, <2>2, <2>3 DEF CarriesWorkOf, NoWork, TypeOK
  <2> QED
    BY <2>1, <2>2, <2>3, <2>4, CallStep, NoWorkType DEF Active, InTry
<1>6. ASSUME NEW c \in Calls, BeginDelete(c) PROVE WorkInv'
  <2> DEFINE w == [pending[session[c]] EXCEPT
                     !.target = stored \cap Of(request[c].artifact)]
  <2>1. /\ stage[c] = "delete" /\ stage' = [stage EXCEPT ![c] = "deleting"]
        /\ pending' = [pending EXCEPT ![session[c]] = w]
        /\ request' = request /\ session' = session
    BY <1>6 DEF BeginDelete
  <2>2. session[c] \in Sessions /\ pending[session[c]] \in Work /\ w \in Work
    <3>1. session[c] \in Sessions /\ pending[session[c]] \in Work
      BY <2>1 DEF TypeOK, Active, InTry
    <3>2. stored \cap Of(request[c].artifact) \subseteq Calls
      BY DEF TypeOK
    <3> QED
      BY <3>1, <3>2 DEF Work
  <2>3. CarriesWorkOf(c)
    BY <2>1 DEF WorkInv, InTry
  <2>4. /\ w.target = stored \cap Of(request[c].artifact)
        /\ w.deleted = pending[session[c]].deleted
        /\ w.copied = pending[session[c]].copied
        /\ w.entry = pending[session[c]].entry
    BY <2>2 DEF Work
  <2>5. w.target # {} => request[c].artifact \notin EmptyArtifacts
    BY <2>4 DEF StoredInv, Of
  <2>6. pending'[session'[c]] = w /\ stage'[c] = "deleting"
    BY <2>1, <2>2 DEF TypeOK
  <2> HIDE DEF w
  <2>7. CarriesWorkOf(c)'
    <3>1. \A d \in w.target \cup w.deleted :
            request[d].artifact = request[c].artifact
      BY <2>3, <2>4 DEF CarriesWorkOf, Of
    <3>2. w.target \cup w.deleted # {} =>
            request[c].artifact \notin EmptyArtifacts
      BY <2>3, <2>4, <2>5 DEF CarriesWorkOf
    <3>3. /\ request[c].mode = "replace"
          /\ w.copied = {} /\ w.entry = NoCall
      BY <2>1, <2>3, <2>4 DEF CarriesWorkOf
    <3> QED
      BY <2>1, <2>6, <3>1, <3>2, <3>3 DEF CarriesWorkOf
  <2> QED
    BY <2>1, <2>2, <2>7, CallStep DEF Active, InTry
<1>7. ASSUME NEW c \in Calls, FinishDelete(c) PROVE WorkInv'
  <2> DEFINE t == pending[session[c]].target
             w == [pending[session[c]] EXCEPT
                     !.deleted = @ \cup (t \cap stored), !.target = {}]
  <2>1. /\ stage[c] = "deleting"
        /\ stage' = [stage EXCEPT ![c] = AfterDelete(c)]
        /\ pending' = [pending EXCEPT ![session[c]] = w]
        /\ request' = request /\ session' = session
    BY <1>7 DEF FinishDelete
  <2>2. session[c] \in Sessions /\ pending[session[c]] \in Work /\ w \in Work
    <3>1. session[c] \in Sessions /\ pending[session[c]] \in Work
      BY <2>1 DEF TypeOK, Active, InTry
    <3>2. t \cap stored \subseteq Calls
      BY DEF TypeOK
    <3> QED
      BY <3>1, <3>2 DEF Work
  <2>3. CarriesWorkOf(c)
    BY <2>1 DEF WorkInv, InTry
  <2>4. /\ w.target = {}
        /\ w.deleted = pending[session[c]].deleted \cup (t \cap stored)
        /\ w.copied = pending[session[c]].copied
        /\ w.entry = pending[session[c]].entry
    BY <2>2 DEF Work
  <2>5. /\ AfterDelete(c) \in {"copy", "upsert"}
        /\ AfterDelete(c) = "upsert" <=> request[c].artifact \in EmptyArtifacts
    BY DEF AfterDelete
  <2>6. pending'[session'[c]] = w /\ stage'[c] = AfterDelete(c)
    BY <2>1, <2>2 DEF TypeOK
  <2> HIDE DEF w
  <2>7. CarriesWorkOf(c)'
    <3>1. \A d \in w.target \cup w.deleted :
            request[d].artifact = request[c].artifact
      BY <2>3, <2>4 DEF CarriesWorkOf
    <3>2. w.target \cup w.deleted # {} =>
            request[c].artifact \notin EmptyArtifacts
      BY <2>3, <2>4 DEF CarriesWorkOf
    <3>3. /\ request[c].mode = "replace"
          /\ w.copied = {} /\ w.entry = NoCall
      BY <2>1, <2>3, <2>4 DEF CarriesWorkOf
    <3> QED
      BY <2>1, <2>5, <2>6, <3>1, <3>2, <3>3 DEF CarriesWorkOf
  <2> QED
    BY <2>1, <2>2, <2>5, <2>7, CallStep DEF Active, InTry
<1>8. ASSUME NEW c \in Calls, CopyRows(c) PROVE WorkInv'
  <2> DEFINE w == [pending[session[c]] EXCEPT !.copied = @ \cup {c}]
  <2>1. /\ stage[c] = "copy" /\ stage' = [stage EXCEPT ![c] = "upsert"]
        /\ pending' = [pending EXCEPT ![session[c]] = w]
        /\ request' = request /\ session' = session
    BY <1>8 DEF CopyRows
  <2>2. session[c] \in Sessions /\ pending[session[c]] \in Work
    BY <2>1 DEF TypeOK, Active, InTry
  <2>3. pending[session[c]].copied \cup {c} \subseteq Calls
    BY <2>2 DEF Work
  <2>4. w \in Work
    BY <2>2, <2>3 DEF Work
  <2>5. CarriesWorkOf(c) /\ request[c].artifact \notin EmptyArtifacts
    BY <2>1 DEF WorkInv, CarriesWorkOf, InTry
  <2>6. /\ w.target = pending[session[c]].target
        /\ w.deleted = pending[session[c]].deleted
        /\ w.copied = {c} /\ w.entry = NoCall
    BY <2>1, <2>2, <2>5 DEF CarriesWorkOf, Work
  <2>7. pending'[session'[c]] = w /\ stage'[c] = "upsert"
    BY <2>1, <2>2 DEF TypeOK
  <2> HIDE DEF w
  <2>8. CarriesWorkOf(c)'
    BY <2>1, <2>5, <2>6, <2>7 DEF CarriesWorkOf
  <2> QED
    BY <2>1, <2>2, <2>4, <2>8, CallStep DEF Active, InTry
<1>9. ASSUME NEW c \in Calls, UpsertCatalog(c) PROVE WorkInv'
  <2> DEFINE w == [pending[session[c]] EXCEPT !.entry = c]
  <2>1. /\ stage[c] = "upsert" /\ stage' = [stage EXCEPT ![c] = "commit"]
        /\ pending' = [pending EXCEPT ![session[c]] = w]
        /\ request' = request /\ session' = session
    BY <1>9 DEF UpsertCatalog
  <2>2. session[c] \in Sessions /\ pending[session[c]] \in Work /\ w \in Work
    <3>1. session[c] \in Sessions /\ pending[session[c]] \in Work
      BY <2>1 DEF TypeOK, Active, InTry
    <3>2. c \in Calls
      BY DEF TypeOK
    <3> QED
      BY <3>1, <3>2 DEF Work
  <2>3. CarriesWorkOf(c)
    BY <2>1 DEF WorkInv, InTry
  <2>4. /\ w.target = pending[session[c]].target
        /\ w.deleted = pending[session[c]].deleted
        /\ w.copied = pending[session[c]].copied /\ w.entry = c
    BY <2>2 DEF Work
  <2>5. pending'[session'[c]] = w /\ stage'[c] = "commit"
    BY <2>1, <2>2 DEF TypeOK
  <2> HIDE DEF w
  <2>6. CarriesWorkOf(c)'
    BY <2>1, <2>3, <2>4, <2>5 DEF CarriesWorkOf
  <2> QED
    BY <2>1, <2>2, <2>6, CallStep DEF Active, InTry
<1>10. ASSUME NEW c \in Calls, Commit(c) PROVE WorkInv'
  BY <1>10, CallStep, NoWorkType DEF Commit, Active, InTry, Final
<1>11. ASSUME NEW c \in Calls, CommitInDoubt(c) PROVE WorkInv'
  BY <1>11, CallStep, NoWorkType DEF CommitInDoubt, Active, InTry, Final
<1>12. ASSUME NEW c \in Calls, StatementFails(c) PROVE WorkInv'
  BY <1>12, EarlyStep, NothingCarried
     DEF StatementFails, Active, Final
<1>13. ASSUME NEW c \in Calls, StatementRefused(c) PROVE WorkInv'
  <2>1. /\ pending[session[c]] = NoWork /\ session[c] \in Sessions
        /\ stage[c] \in Active
    BY <1>13, NothingCarried DEF StatementRefused, Active
  <2>2. pending' = [pending EXCEPT ![session[c]] = NoWork]
    BY <1>13, <2>1 DEF StatementRefused, TypeOK
  <2> QED
    BY <1>13, <2>1, <2>2, EarlyStep DEF StatementRefused, Final
<1>14. ASSUME NEW c \in Calls, WriteFails(c) PROVE WorkInv'
  BY <1>14, CallStep, NoWorkType DEF WriteFails, Active, InTry, Final
<1>15. ASSUME NEW s \in Sessions, Connect(s) PROVE WorkInv'
  BY <1>15, SessionStep DEF Connect, Busy, TypeOK, Active
<1>16. ASSUME NEW s \in Sessions, Close(s) PROVE WorkInv'
  BY <1>16, SessionStep DEF Close, Busy, TypeOK, Active
<1>17. ASSUME NEW s \in Sessions, Rollback(s) PROVE WorkInv'
  BY <1>17, SessionStep DEF Rollback, Busy, TypeOK, Active
<1>18. ASSUME NEW s \in Sessions, ConnectionLost(s) PROVE WorkInv'
  <2>1. /\ stage' \in [Calls -> {"new"} \cup Active \cup Final]
        /\ \A c \in Calls : stage'[c] = stage[c]
                             \/ (session[c] = s /\ stage'[c] \notin InTry)
        /\ \A c \in Calls : session[c] = s => stage'[c] \notin InTry
    BY <1>18 DEF ConnectionLost, TypeOK, Active, Final, InTry
  <2> QED
    BY <1>18, <2>1, SessionStep DEF ConnectionLost
<1>19. ASSUME NEW s \in Sessions, CountRows(s) PROVE WorkInv'
  BY <1>19, SessionStep, IdleSession DEF CountRows, TypeOK, Active
<1>20. CASE UNCHANGED vars
  BY <1>20 DEF vars, WorkInv, CarriesWorkOf
<1> QED
  BY <1>1, <1>2, <1>3, <1>4, <1>5, <1>6, <1>7, <1>8, <1>9, <1>10, <1>11,
     <1>12, <1>13, <1>14, <1>15, <1>16, <1>17, <1>18, <1>19, <1>20
     DEF Next, CallNext, SessionNext, Proceed

-----------------------------------------------------------------------------
(***************************************************************************)
(* What a step can do to the committed state: nothing, or what the commit  *)
(* of one call does to its own artifact.                                   *)
(***************************************************************************)
CommitEffect(c) ==
  LET a == request[c].artifact IN
  /\ stage[c] = "commit" /\ stage'[c] \in {"loaded", "failed"}
  /\ \A d \in Calls \ {c} : stage'[d] = stage[d]
  /\ catalog' = [catalog EXCEPT ![a] = c]
  /\ stored' \subseteq stored \cup {c}
  /\ c \in stored' <=> a \notin EmptyArtifacts
  /\ pending[session[c]].deleted \cap stored \cap stored' = {}
  /\ \A d \in stored \ stored' : /\ request[d].artifact = a
                                 /\ request[c].mode = "replace"
                                 /\ a \notin EmptyArtifacts

QuietEffect ==
  /\ stored' = stored /\ catalog' = catalog
  /\ \A d \in Calls : stage'[d] \in {"loaded", "skipped"} =>
       stage'[d] = stage[d] \/ catalog[request[d].artifact] # NoCall

LEMMA PublishAtCommit ==
  ASSUME TypeOK, WorkInv, StoredInv, NEW c \in Calls, stage[c] = "commit",
         NEW next \in {"loaded", "failed"},
         stage' = [stage EXCEPT ![c] = next], Publish(session[c])
  PROVE  CommitEffect(c)
<1> DEFINE w == pending[session[c]]
           a == request[c].artifact
<1>1. CarriesWorkOf(c)
  BY DEF WorkInv, InTry
<1>2. /\ w.entry = c /\ c # NoCall
      /\ w.copied = IF a \notin EmptyArtifacts THEN {c} ELSE {}
      /\ \A d \in w.deleted : request[d].artifact = a
      /\ w.deleted # {} => a \notin EmptyArtifacts /\ request[c].mode = "replace"
  BY <1>1, NoCallAssumption DEF CarriesWorkOf
<1>3. c \notin stored
  BY DEF StoredInv, Final
<1>4. /\ stored' = (stored \ w.deleted) \cup w.copied
      /\ catalog' = [catalog EXCEPT ![a] = c]
  BY <1>2 DEF Publish
<1>5. stage'[c] = next /\ \A d \in Calls \ {c} : stage'[d] = stage[d]
  BY DEF TypeOK
<1>6. pending[session[c]].deleted \cap stored \cap stored' = {}
  BY <1>2, <1>3, <1>4
<1> HIDE DEF w
<1> QED
  BY <1>2, <1>3, <1>4, <1>5, <1>6 DEF CommitEffect

LEMMA StepEffect ==
  ASSUME TypeOK, WorkInv, StoredInv, [Next]_vars
  PROVE  /\ request' = request
         /\ \A d \in Calls : stage[d] \in Final => stage'[d] = stage[d]
         /\ QuietEffect \/ \E c \in Calls : CommitEffect(c)
<1> DEFINE Effect == /\ request' = request
                     /\ \A d \in Calls : stage[d] \in Final =>
                                           stage'[d] = stage[d]
                     /\ QuietEffect \/ \E c \in Calls : CommitEffect(c)
<1> SUFFICES Effect
  OBVIOUS
<1> USE DEF callVars, dbVars, Goto, SetSession
<1>1. ASSUME NEW c \in Calls, NEW s \in Sessions, Start(c, s) PROVE Effect
  BY <1>1 DEF Start, QuietEffect, TypeOK, Final
<1>2. ASSUME NEW c \in Calls, EnsureCatalog(c) PROVE Effect
  <2>1. stored' = stored /\ catalog' = catalog
    BY <1>2, NothingCarried DEF EnsureCatalog, BeforeTry
  <2> QED
    BY <1>2, <2>1 DEF EnsureCatalog, QuietEffect, TypeOK, Final
<1>3. ASSUME NEW c \in Calls, EnsureTable(c) PROVE Effect
  <2>1. stored' = stored /\ catalog' = catalog
    BY <1>3, NothingCarried DEF EnsureTable, BeforeTry
  <2> QED
    BY <1>3, <2>1 DEF EnsureTable, QuietEffect, TypeOK, Final
<1>4. ASSUME NEW c \in Calls, CatalogGet(c) PROVE Effect
  BY <1>4 DEF CatalogGet, QuietEffect, TypeOK, Final
<1>5. ASSUME NEW c \in Calls, ColumnsToPromote(c) PROVE Effect
  <2>1. AfterPromote(c) \in {"delete", "copy", "upsert"}
    BY DEF AfterPromote, AfterDelete
  <2> QED
    BY <1>5, <2>1 DEF ColumnsToPromote, QuietEffect, TypeOK, Final
<1>6. ASSUME NEW c \in Calls, BeginDelete(c) PROVE Effect
  BY <1>6 DEF BeginDelete, QuietEffect, TypeOK, Final
<1>7. ASSUME NEW c \in Calls, FinishDelete(c) PROVE Effect
  BY <1>7 DEF FinishDelete, AfterDelete, QuietEffect, TypeOK, Final
<1>8. ASSUME NEW c \in Calls, CopyRows(c) PROVE Effect
  BY <1>8 DEF CopyRows, QuietEffect, TypeOK, Final
<1>9. ASSUME NEW c \in Calls, UpsertCatalog(c) PROVE Effect
  BY <1>9 DEF UpsertCatalog, QuietEffect, TypeOK, Final
<1>10. ASSUME NEW c \in Calls, Commit(c) PROVE Effect
  <2>1. CommitEffect(c)
    BY <1>10, PublishAtCommit DEF Commit
  <2> QED
    BY <1>10, <2>1 DEF Commit, TypeOK, Final
<1>11. ASSUME NEW c \in Calls, CommitInDoubt(c) PROVE Effect
  <2>1. CommitEffect(c)
    BY <1>11, PublishAtCommit DEF CommitInDoubt
  <2> QED
    BY <1>11, <2>1 DEF CommitInDoubt, TypeOK, Final
<1>12. ASSUME NEW c \in Calls, StatementFails(c) PROVE Effect
  BY <1>12 DEF StatementFails, QuietEffect, TypeOK, Final, BeforeTry
<1>13. ASSUME NEW c \in Calls, StatementRefused(c) PROVE Effect
  BY <1>13 DEF StatementRefused, QuietEffect, TypeOK, Final, BeforeTry
<1>14. ASSUME NEW c \in Calls, WriteFails(c) PROVE Effect
  BY <1>14 DEF WriteFails, QuietEffect, TypeOK, Final, InTry
<1>15. ASSUME NEW s \in Sessions, Connect(s) PROVE Effect
  BY <1>15 DEF Connect, QuietEffect
<1>16. ASSUME NEW s \in Sessions, Close(s) PROVE Effect
  BY <1>16 DEF Close, QuietEffect
<1>17. ASSUME NEW s \in Sessions, Rollback(s) PROVE Effect
  BY <1>17 DEF Rollback, QuietEffect
<1>18. ASSUME NEW s \in Sessions, ConnectionLost(s) PROVE Effect
  BY <1>18 DEF ConnectionLost, QuietEffect, TypeOK, Active, BeforeTry, InTry,
               Final
<1>19. ASSUME NEW s \in Sessions, CountRows(s) PROVE Effect
  BY <1>19 DEF CountRows, QuietEffect
<1>20. CASE UNCHANGED vars
  BY <1>20 DEF vars, QuietEffect
<1> QED
  BY <1>1, <1>2, <1>3, <1>4, <1>5, <1>6, <1>7, <1>8, <1>9, <1>10, <1>11,
     <1>12, <1>13, <1>14, <1>15, <1>16, <1>17, <1>18, <1>19, <1>20
     DEF Next, CallNext, SessionNext, Proceed

-----------------------------------------------------------------------------
LEMMA DbStep ==
  ASSUME IInv, [Next]_vars, TypeOK'
  PROVE  StoredInv' /\ NamedInv' /\ SuccessInv'
<1>1. /\ request' = request
      /\ \A d \in Calls : stage[d] \in Final => stage'[d] = stage[d]
      /\ QuietEffect \/ \E c \in Calls : CommitEffect(c)
  BY StepEffect DEF IInv
<1>2. CASE QuietEffect
  <2>1. StoredInv'
    BY <1>1, <1>2 DEF IInv, StoredInv, QuietEffect, TypeOK
  <2>2. NamedInv'
    BY <1>1, <1>2 DEF IInv, NamedInv, QuietEffect, Of
  <2>3. SuccessInv'
    BY <1>1, <1>2 DEF IInv, SuccessInv, QuietEffect
  <2> QED
    BY <2>1, <2>2, <2>3
<1>3. ASSUME NEW c \in Calls, CommitEffect(c)
      PROVE  StoredInv' /\ NamedInv' /\ SuccessInv'
  <2> DEFINE a == request[c].artifact
  <2>1. /\ a \in Artifacts /\ c # NoCall
        /\ catalog'[a] = c
        /\ \A b \in Artifacts \ {a} : catalog'[b] = catalog[b]
    BY <1>3, NoCallAssumption DEF IInv, TypeOK, Requests, CommitEffect
  <2>2. \A d \in Calls : request[d].artifact \in Artifacts
    BY DEF IInv, TypeOK, Requests
  <2>3. \A d \in Calls : catalog[request[d].artifact] # NoCall =>
                           catalog'[request[d].artifact] # NoCall
    BY <2>1, <2>2
  <2>4. StoredInv'
    <3> SUFFICES ASSUME NEW d \in stored'
                 PROVE  /\ stage'[d] \in Final
                        /\ catalog'[request[d].artifact] # NoCall
                        /\ request[d].artifact \notin EmptyArtifacts
      BY <1>1 DEF StoredInv
    <3>1. CASE d = c
      BY <1>3, <2>1, <3>1 DEF CommitEffect, Final
    <3>2. CASE d # c
      BY <1>1, <1>3, <2>3, <3>2 DEF CommitEffect, IInv, StoredInv, TypeOK
    <3> QED
      BY <3>1, <3>2
  <2>5. NamedInv'
    <3> SUFFICES ASSUME NEW b \in Artifacts, catalog'[b] # NoCall
                 PROVE  /\ catalog'[b] \in Calls
                        /\ request[catalog'[b]].artifact = b
                        /\ b \notin EmptyArtifacts => catalog'[b] \in stored'
      BY <1>1 DEF NamedInv, Of
    <3>1. CASE b = a
      BY <1>3, <2>1, <3>1 DEF CommitEffect
    <3>2. CASE b # a
      <4>1. /\ catalog'[b] = catalog[b] /\ catalog[b] \in Calls
            /\ request[catalog[b]].artifact = b
            /\ b \notin EmptyArtifacts => catalog[b] \in stored
        BY <2>1, <3>2 DEF IInv, NamedInv, Of
      <4>2. b \notin EmptyArtifacts => catalog[b] \in stored'
        BY <1>3, <3>2, <4>1 DEF CommitEffect
      <4> QED
        BY <4>1, <4>2
    <3> QED
      BY <3>1, <3>2
  <2>6. SuccessInv'
    <3> SUFFICES ASSUME NEW d \in Calls, stage'[d] \in {"loaded", "skipped"}
                 PROVE  catalog'[request[d].artifact] # NoCall
      BY <1>1 DEF SuccessInv
    <3>1. CASE d = c
      BY <2>1, <3>1
    <3>2. CASE d # c
      BY <1>3, <2>3, <3>2 DEF CommitEffect, IInv, SuccessInv
    <3> QED
      BY <3>1, <3>2
  <2> QED
    BY <2>4, <2>5, <2>6
<1> QED
  BY <1>1, <1>2, <1>3

THEOREM Invariance == Spec => []IInv
<1>1. Init /\ TypeOK => IInv
  <2> SUFFICES ASSUME Init, TypeOK PROVE IInv
    OBVIOUS
  <2>1. WorkInv
    BY DEF Init, WorkInv, InTry
  <2>2. StoredInv /\ NamedInv /\ SuccessInv
    BY DEF Init, StoredInv, NamedInv, SuccessInv
  <2> QED
    BY <2>1, <2>2 DEF IInv
<1>2. IInv /\ [Next]_vars /\ TypeOK' => IInv'
  BY WorkStep, DbStep DEF IInv
<1> QED
  BY <1>1, <1>2, TypeCorrect, PTL DEF Spec

\* Catalog and table agree in every committed state, for any number of
\* concurrent callers, crashes and lost answers.
THEOREM CatalogCorrect == Spec => []CatalogDescribesRows
<1>1. IInv => CatalogDescribesRows
  BY DEF IInv, StoredInv, NamedInv, CatalogDescribesRows, Of
<1> QED
  BY <1>1, Invariance, PTL

LEMMA DurableNow == IInv => SuccessIsDurable
<1> SUFFICES ASSUME IInv, NEW c \in Calls, stage[c] \in {"loaded", "skipped"}
             PROVE  LET a == request[c].artifact IN
                    /\ catalog[a] # NoCall
                    /\ a \notin EmptyArtifacts => stored \cap Of(a) # {}
  BY DEF SuccessIsDurable
<1>1. request[c].artifact \in Artifacts
  BY DEF IInv, TypeOK, Requests
<1>2. catalog[request[c].artifact] # NoCall
  BY DEF IInv, SuccessInv
<1> QED
  BY <1>1, <1>2 DEF IInv, NamedInv

\* A LoadResult a caller received stays true.
THEOREM SuccessCorrect == Spec => []SuccessIsDurable
  BY DurableNow, Invariance, PTL

\* Replacement is atomic: rows go only when their successors come.
THEOREM ReplacementAtomic == Spec => AtomicReplacement
<1>1. IInv /\ [Next]_vars =>
        [\A a \in Artifacts :
           (stored \ stored') \cap Of(a) # {} =>
             \E c \in (stored' \ stored) \cap Of(a) :
               /\ stage[c] = "commit" /\ request[c].mode = "replace"
               /\ catalog'[a] = c]_vars
  <2> SUFFICES ASSUME IInv, [Next]_vars, NEW a \in Artifacts,
                      (stored \ stored') \cap Of(a) # {}
               PROVE  \E c \in (stored' \ stored) \cap Of(a) :
                        /\ stage[c] = "commit" /\ request[c].mode = "replace"
                        /\ catalog'[a] = c
    OBVIOUS
  <2>1. PICK c \in Calls : CommitEffect(c)
    BY StepEffect DEF IInv, QuietEffect
  <2>2. request[c].artifact = a /\ request[c].mode = "replace"
        /\ a \notin EmptyArtifacts
    BY <2>1 DEF CommitEffect, Of
  <2>3. catalog'[a] = c /\ c \in stored' /\ stage[c] = "commit"
    BY <2>1, <2>2 DEF CommitEffect, IInv, TypeOK
  <2>4. c \notin stored
    BY <2>3 DEF IInv, StoredInv, Final
  <2> QED
    BY <2>2, <2>3, <2>4 DEF Of
<1> QED
  BY <1>1, Invariance, PTL DEF Spec, AtomicReplacement

\* No commit publishes another call's work.
THEOREM OwnCommitOnly == Spec => OnlyOwnCommitPublishes
<1>1. IInv /\ [Next]_vars =>
        [/\ \A c \in stored' \ stored : stage[c] = "commit"
         /\ \A a \in Artifacts :
              catalog'[a] # catalog[a] => stage[catalog'[a]] = "commit"]_vars
  BY StepEffect DEF IInv, QuietEffect, CommitEffect, TypeOK
<1> QED
  BY <1>1, Invariance, PTL DEF Spec, OnlyOwnCommitPublishes

-----------------------------------------------------------------------------
(* One writer per artifact.                                                *)

(***************************************************************************)
(* What makes the decision taken at catalog_get still right at the commit: *)
(* nobody else changes the artifact in between, so the entry that was read *)
(* is the committed one and the DELETE has found every row there is.       *)
(***************************************************************************)
UpToDate ==
  \A c \in Calls : stage[c] \in InTry \cup {"promote"} =>
    /\ existing[c] = catalog[request[c].artifact]
    /\ request[c].mode = "skip" => existing[c] = NoCall

DeletesAll ==
  \A c \in Calls : \A d \in stored :
    request[d].artifact = request[c].artifact =>
      /\ stage[c] = "deleting" => d \in pending[session[c]].target
      /\ stage[c] \in {"copy", "upsert", "commit"} =>
           d \in pending[session[c]].deleted

SingleInv ==
  \A c \in stored : catalog[request[c].artifact] = c

XInv == OneWriterPerArtifact /\ UpToDate /\ DeletesAll /\ SingleInv

-----------------------------------------------------------------------------
(***************************************************************************)
(* How a call that is past its catalog_get got to where it is: it stood    *)
(* still, or it executed one statement of its own.                         *)
(***************************************************************************)
Stood(d) ==
  /\ stage'[d] = stage[d] /\ session'[d] = session[d]
  /\ existing'[d] = existing[d]
  /\ stage[d] \in InTry => pending'[session[d]] = pending[session[d]]

Decided(d) ==
  /\ stage[d] = "catalog_get" /\ stage'[d] = "promote"
  /\ existing'[d] = catalog[request[d].artifact]
  /\ request[d].mode = "skip" => existing'[d] = NoCall

Executed(d) ==
  LET before == pending[session[d]]
      after == pending'[session[d]] IN
  /\ session'[d] = session[d] /\ existing'[d] = existing[d]
  /\ \/ /\ stage[d] = "promote" /\ stage'[d] = AfterPromote(d)
     \/ /\ stage[d] = "delete" /\ stage'[d] = "deleting"
        /\ after.target = stored \cap Of(request[d].artifact)
     \/ /\ stage[d] = "deleting" /\ stage'[d] = AfterDelete(d)
        /\ after.deleted = before.deleted \cup (before.target \cap stored)
     \/ /\ <<stage[d], stage'[d]>> \in {<<"copy", "upsert">>, <<"upsert", "commit">>}
        /\ after.deleted = before.deleted

LateStages == InTry \cup {"promote"}
Framed == \A d \in Calls : stage'[d] \in LateStages =>
                             Stood(d) \/ Decided(d) \/ Executed(d)

\* A step of call c that changes only c and c's session.
LEMMA FrameOfCall ==
  ASSUME TypeOK, NEW c \in Calls, stage[c] \in Active,
         NEW next \in Active \cup Final, NEW w \in Work,
         stage' = [stage EXCEPT ![c] = next],
         pending' = [pending EXCEPT ![session[c]] = w],
         session' = session,
         \A d \in Calls \ {c} : existing'[d] = existing[d],
         next \in LateStages => Decided(c) \/ Executed(c)
  PROVE  Framed
<1> SUFFICES ASSUME NEW d \in Calls, stage'[d] \in LateStages
             PROVE  Stood(d) \/ Decided(d) \/ Executed(d)
  BY DEF Framed
<1>1. CASE d = c
  BY <1>1 DEF TypeOK
<1>2. CASE d # c
  <2>1. stage'[d] = stage[d]
    BY <1>2 DEF TypeOK
  <2>2. stage[d] \in InTry => session[d] # session[c] /\ session[d] \in Sessions
    BY <1>2, <2>1 DEF TypeOK, Active
  <2>3. stage[d] \in InTry => pending'[session[d]] = pending[session[d]]
    BY <2>2 DEF TypeOK
  <2> QED
    BY <1>2, <2>1, <2>3 DEF Stood
<1> QED
  BY <1>1, <1>2

LEMMA FrameStep ==
  ASSUME TypeOK, WorkInv, StoredInv, [Next]_vars
  PROVE  Framed
<1> USE DEF callVars, dbVars, Goto, SetSession
<1>1. ASSUME NEW c \in Calls, NEW s \in Sessions, Start(c, s) PROVE Framed
  <2> SUFFICES ASSUME NEW d \in Calls, stage'[d] \in LateStages
               PROVE  Stood(d)
    BY DEF Framed
  <2>1. d # c
    BY <1>1 DEF Start, LateStages, InTry, TypeOK
  <2> QED
    BY <1>1, <2>1 DEF Start, Stood, TypeOK
<1>2. ASSUME NEW c \in Calls, EnsureCatalog(c) PROVE Framed
  BY <1>2, FrameOfCall, NoWorkType
     DEF EnsureCatalog, Active, BeforeTry, InTry, LateStages
<1>3. ASSUME NEW c \in Calls, EnsureTable(c) PROVE Framed
  BY <1>3, FrameOfCall, NoWorkType
     DEF EnsureTable, Active, BeforeTry, InTry, LateStages
<1>4. ASSUME NEW c \in Calls, CatalogGet(c) PROVE Framed
  <2>1. pending[session[c]] = NoWork /\ stage[c] \in Active
        /\ session[c] \in Sessions
    BY <1>4, NothingCarried DEF CatalogGet, Active, BeforeTry
  <2>2. PICK next \in {"skipped", "promote"} :
          /\ stage' = [stage EXCEPT ![c] = next]
          /\ next = "promote" =>
               ~(catalog[request[c].artifact] # NoCall
                 /\ request[c].mode = "skip")
    BY <1>4 DEF CatalogGet
  <2>3. /\ existing'[c] = catalog[request[c].artifact]
        /\ \A d \in Calls \ {c} : existing'[d] = existing[d]
        /\ session' = session
        /\ pending' = [pending EXCEPT ![session[c]] = NoWork]
    BY <1>4, <2>1 DEF CatalogGet, TypeOK
  <2>4. next \in LateStages => Decided(c)
    BY <1>4, <2>2, <2>3 DEF LateStages, InTry, Decided, CatalogGet, TypeOK
  <2> QED
    BY <2>1, <2>2, <2>3, <2>4, FrameOfCall, NoWorkType
       DEF Active, BeforeTry, Final
<1>5. ASSUME NEW c \in Calls, ColumnsToPromote(c) PROVE Framed
  <2>1. pending[session[c]] = NoWork /\ stage[c] \in Active
        /\ session[c] \in Sessions
    BY <1>5, NothingCarried DEF ColumnsToPromote, Active, BeforeTry
  <2>2. /\ stage' = [stage EXCEPT ![c] = AfterPromote(c)]
        /\ pending' = [pending EXCEPT ![session[c]] = NoWork]
        /\ session' = session /\ existing' = existing
        /\ stage[c] = "promote"
    BY <1>5, <2>1 DEF ColumnsToPromote
  <2>3. AfterPromote(c) \in Active
    BY DEF AfterPromote, AfterDelete, Active, InTry
  <2>4. Executed(c)
    BY <2>2 DEF Executed, TypeOK
  <2> QED
    BY <2>1, <2>2, <2>3, <2>4, FrameOfCall, NoWorkType
<1>6. ASSUME NEW c \in Calls, BeginDelete(c) PROVE Framed
  <2> DEFINE w == [pending[session[c]] EXCEPT
                     !.target = stored \cap Of(request[c].artifact)]
  <2>1. /\ stage[c] = "delete" /\ stage' = [stage EXCEPT ![c] = "deleting"]
        /\ pending' = [pending EXCEPT ![session[c]] = w]
        /\ session' = session /\ existing' = existing
    BY <1>6 DEF BeginDelete
  <2>2. session[c] \in Sessions /\ pending[session[c]] \in Work
    BY <2>1 DEF TypeOK, Active, InTry
  <2>3. stored \cap Of(request[c].artifact) \subseteq Calls
    BY DEF TypeOK
  <2>4. w \in Work /\ w.target = stored \cap Of(request[c].artifact)
    BY <2>2, <2>3 DEF Work
  <2> HIDE DEF w
  <2>5. Executed(c)
    BY <2>1, <2>2, <2>4 DEF Executed, TypeOK
  <2> QED
    BY <2>1, <2>4, <2>5, FrameOfCall DEF Active, InTry
<1>7. ASSUME NEW c \in Calls, FinishDelete(c) PROVE Framed
  <2> DEFINE t == pending[session[c]].target
             w == [pending[session[c]] EXCEPT
                     !.deleted = @ \cup (t \cap stored), !.target = {}]
  <2>1. /\ stage[c] = "deleting"
        /\ stage' = [stage EXCEPT ![c] = AfterDelete(c)]
        /\ pending' = [pending EXCEPT ![session[c]] = w]
        /\ session' = session /\ existing' = existing
    BY <1>7 DEF FinishDelete
  <2>2. session[c] \in Sessions /\ pending[session[c]] \in Work
    BY <2>1 DEF TypeOK, Active, InTry
  <2>3. t \cap stored \subseteq Calls
    BY DEF TypeOK
  <2>4. w \in Work /\ w.deleted = pending[session[c]].deleted \cup (t \cap stored)
    BY <2>2, <2>3 DEF Work
  <2>5. AfterDelete(c) \in Active
    BY DEF AfterDelete, Active, InTry
  <2> HIDE DEF w
  <2>6. Executed(c)
    BY <2>1, <2>2, <2>4 DEF Executed, TypeOK
  <2> QED
    BY <2>1, <2>4, <2>5, <2>6, FrameOfCall DEF Active, InTry
<1>8. ASSUME NEW c \in Calls, CopyRows(c) PROVE Framed
  <2> DEFINE w == [pending[session[c]] EXCEPT !.copied = @ \cup {c}]
  <2>1. /\ stage[c] = "copy" /\ stage' = [stage EXCEPT ![c] = "upsert"]
        /\ pending' = [pending EXCEPT ![session[c]] = w]
        /\ session' = session /\ existing' = existing
    BY <1>8 DEF CopyRows
  <2>2. session[c] \in Sessions /\ pending[session[c]] \in Work
    BY <2>1 DEF TypeOK, Active, InTry
  <2>3. pending[session[c]].copied \cup {c} \subseteq Calls
    BY <2>2 DEF Work
  <2>4. w \in Work /\ w.deleted = pending[session[c]].deleted
    BY <2>2, <2>3 DEF Work
  <2> HIDE DEF w
  <2>5. Executed(c)
    BY <2>1, <2>2, <2>4 DEF Executed, TypeOK
  <2> QED
    BY <2>1, <2>4, <2>5, FrameOfCall DEF Active, InTry
<1>9. ASSUME NEW c \in Calls, UpsertCatalog(c) PROVE Framed
  <2> DEFINE w == [pending[session[c]] EXCEPT !.entry = c]
  <2>1. /\ stage[c] = "upsert" /\ stage' = [stage EXCEPT ![c] = "commit"]
        /\ pending' = [pending EXCEPT ![session[c]] = w]
        /\ session' = session /\ existing' = existing
    BY <1>9 DEF UpsertCatalog
  <2>2. session[c] \in Sessions /\ pending[session[c]] \in Work
    BY <2>1 DEF TypeOK, Active, InTry
  <2>3. w \in Work /\ w.deleted = pending[session[c]].deleted
    BY <2>2 DEF Work
  <2> HIDE DEF w
  <2>4. Executed(c)
    BY <2>1, <2>2, <2>3 DEF Executed, TypeOK
  <2> QED
    BY <2>1, <2>3, <2>4, FrameOfCall DEF Active, InTry
<1>10. ASSUME NEW c \in Calls, Commit(c) PROVE Framed
  BY <1>10, FrameOfCall, NoWorkType DEF Commit, Active, InTry, Final, LateStages
<1>11. ASSUME NEW c \in Calls, CommitInDoubt(c) PROVE Framed
  BY <1>11, FrameOfCall, NoWorkType
     DEF CommitInDoubt, Active, InTry, Final, LateStages
<1>12. ASSUME NEW c \in Calls, StatementFails(c) PROVE Framed
  BY <1>12, FrameOfCall, NoWorkType, NothingCarried
     DEF StatementFails, Active, InTry, Final, LateStages
<1>13. ASSUME NEW c \in Calls, StatementRefused(c) PROVE Framed
  BY <1>13 DEF StatementRefused, Framed, Stood, LateStages, InTry, TypeOK
<1>14. ASSUME NEW c \in Calls, WriteFails(c) PROVE Framed
  BY <1>14, FrameOfCall, NoWorkType DEF WriteFails, Active, InTry, Final, LateStages
<1>15. ASSUME NEW s \in Sessions, SessionNext(s) PROVE Framed
  <2>1. /\ session' = session /\ existing' = existing
        /\ pending' = [pending EXCEPT ![s] = NoWork]
        /\ \A d \in Calls : stage'[d] \in LateStages => stage'[d] = stage[d]
        /\ \A d \in Calls : stage'[d] \in LateStages => session[d] # s
    <3>1. CASE CountRows(s)
      BY <3>1, IdleSession DEF CountRows, LateStages, Active, BeforeTry, InTry
    <3>2. CASE ~CountRows(s)
      BY <1>15, <3>2 DEF SessionNext, Connect, Close, Rollback, ConnectionLost,
         Busy, LateStages, Active, BeforeTry, InTry, TypeOK
    <3> QED
      BY <3>1, <3>2
  <2>2. \A d \in Calls : stage'[d] \in LateStages => Stood(d)
    BY <2>1 DEF Stood, TypeOK, LateStages, Active
  <2> QED
    BY <2>2 DEF Framed
<1>16. CASE UNCHANGED vars
  BY <1>16 DEF vars, Framed, Stood
<1> QED
  BY <1>1, <1>2, <1>3, <1>4, <1>5, <1>6, <1>7, <1>8, <1>9, <1>10, <1>11,
     <1>12, <1>13, <1>14, <1>15, <1>16 DEF Next, CallNext, Proceed

-----------------------------------------------------------------------------
\* A commit is the only step that changes what the others have read, and it
\* changes only an artifact nobody else is working on.
LEMMA CommitLeavesOthers ==
  ASSUME IInv, OneWriterPerArtifact, NEW c \in Calls, CommitEffect(c),
         NEW d \in Calls, stage'[d] \in LateStages
  PROVE  /\ d # c /\ stage'[d] = stage[d]
         /\ request[d].artifact # request[c].artifact
         /\ catalog'[request[d].artifact] = catalog[request[d].artifact]
<1>1. d # c
  BY DEF CommitEffect, LateStages, InTry
<1>2. stage'[d] = stage[d] /\ stage[c] = "commit"
  BY <1>1 DEF CommitEffect
<1>3. request[d].artifact # request[c].artifact
  BY <1>1, <1>2 DEF OneWriterPerArtifact, LateStages, Active, BeforeTry, InTry
<1>4. request[d].artifact \in Artifacts /\ request[c].artifact \in Artifacts
  BY DEF IInv, TypeOK, Requests
<1> QED
  BY <1>1, <1>2, <1>3, <1>4 DEF CommitEffect, IInv, TypeOK

LEMMA XStep ==
  ASSUME IInv, XInv, [Next]_vars, OneWriterPerArtifact'
  PROVE  XInv'
<1>1. /\ request' = request
      /\ \A d \in Calls : stage[d] \in Final => stage'[d] = stage[d]
      /\ QuietEffect \/ \E c \in Calls : CommitEffect(c)
  BY StepEffect DEF IInv
<1>2. Framed
  BY FrameStep DEF IInv
<1>3. ASSUME NEW d \in Calls, stage'[d] \in LateStages
      PROVE  /\ existing'[d] = catalog'[request[d].artifact]
             /\ request[d].mode = "skip" => existing'[d] = NoCall
  <2>1. \/ stage[d] \in LateStages /\ existing'[d] = existing[d]
        \/ Decided(d)
    BY <1>2, <1>3 DEF Framed, Stood, Executed, LateStages, InTry
  <2>2. /\ existing'[d] = catalog[request[d].artifact]
        /\ request[d].mode = "skip" => existing'[d] = NoCall
    BY <2>1 DEF XInv, UpToDate, Decided, LateStages
  <2>3. catalog'[request[d].artifact] = catalog[request[d].artifact]
    BY <1>1, <1>3, CommitLeavesOthers DEF QuietEffect, XInv
  <2> QED
    BY <2>2, <2>3
<1>4. UpToDate'
  BY <1>1, <1>3 DEF UpToDate, LateStages
<1>5. ASSUME NEW c \in Calls, NEW d \in stored',
             request[d].artifact = request[c].artifact,
             stage'[c] \in LateStages
      PROVE  /\ d \in stored
             /\ stage'[c] = "deleting" => d \in pending'[session'[c]].target
             /\ stage'[c] \in {"copy", "upsert", "commit"} =>
                  d \in pending'[session'[c]].deleted
  <2>1. d \in stored
    BY <1>1, <1>5, CommitLeavesOthers DEF QuietEffect, XInv, CommitEffect
  <2>2. /\ stage[c] = "deleting" => d \in pending[session[c]].target
        /\ stage[c] \in {"copy", "upsert", "commit"} =>
             d \in pending[session[c]].deleted
    BY <1>5, <2>1 DEF XInv, DeletesAll
  <2>3. CASE Stood(c)
    BY <1>5, <2>1, <2>2, <2>3 DEF Stood, InTry
  <2>4. CASE Decided(c)
    BY <2>1, <2>4 DEF Decided
  <2>5. CASE Executed(c) /\ stage[c] = "promote"
    <3>1. existing[c] = catalog[request[c].artifact]
          /\ (request[c].mode = "skip" => existing[c] = NoCall)
      BY <2>5 DEF XInv, UpToDate
    <3>2. catalog[request[c].artifact] # NoCall
      BY <1>5, <2>1 DEF IInv, StoredInv
    <3>3. request[c].mode \in Modes
      BY DEF IInv, TypeOK, Requests
    <3>4. stage'[c] = "delete"
      BY <2>5, <3>1, <3>2, <3>3 DEF Executed, AfterPromote, Replaces, Modes
    <3> QED
      BY <2>1, <3>4
  <2>6. CASE Executed(c) /\ stage[c] = "delete"
    <3>1. d \in Of(request[c].artifact)
      BY <1>5, <2>1 DEF Of, IInv, TypeOK
    <3> QED
      BY <2>1, <2>6, <3>1 DEF Executed
  <2>7. CASE Executed(c) /\ stage[c] = "deleting"
    <3>1. d \in pending'[session'[c]].deleted
      BY <2>1, <2>2, <2>7 DEF Executed
    <3>2. stage'[c] # "deleting"
      BY <2>7 DEF Executed, AfterDelete
    <3> QED
      BY <2>1, <3>1, <3>2
  <2>8. CASE Executed(c) /\ stage[c] \in {"copy", "upsert"}
    BY <2>1, <2>2, <2>8 DEF Executed
  <2> QED
    BY <1>2, <1>5, <2>3, <2>4, <2>5, <2>6, <2>7, <2>8 DEF Framed, Executed
<1>6. DeletesAll'
  BY <1>1, <1>5 DEF DeletesAll, LateStages, InTry
<1>7. SingleInv'
  <2>1. CASE QuietEffect
    BY <1>1, <2>1 DEF QuietEffect, XInv, SingleInv
  <2>2. ASSUME NEW c \in Calls, CommitEffect(c), NEW d \in stored'
        PROVE  catalog'[request[d].artifact] = d
    <3>1. request[d].artifact \in Artifacts /\ request[c].artifact \in Artifacts
          /\ d \in Calls
      BY <2>2 DEF IInv, TypeOK, Requests, CommitEffect
    <3>2. CASE d = c
      BY <2>2, <3>1, <3>2 DEF CommitEffect, IInv, TypeOK
    <3>3. CASE d # c
      <4>1. d \in stored /\ stage[c] = "commit"
        BY <2>2, <3>3 DEF CommitEffect
      <4>2. request[d].artifact # request[c].artifact
        BY <2>2, <4>1 DEF XInv, DeletesAll, CommitEffect
      <4> QED
        BY <2>2, <3>1, <4>1, <4>2 DEF CommitEffect, IInv, TypeOK, XInv, SingleInv
    <3> QED
      BY <3>2, <3>3
  <2> QED
    BY <1>1, <2>1, <2>2 DEF SingleInv
<1> QED
  BY <1>4, <1>6, <1>7 DEF XInv

LEMMA ExclusiveIsSpec == ExclusiveSpec => Spec
<1>1. [Next /\ OneWriterPerArtifact']_vars => [Next]_vars
  OBVIOUS
<1> QED
  BY <1>1, PTL DEF ExclusiveSpec, Spec

THEOREM ExclusiveInvariance == ExclusiveSpec => [](IInv /\ XInv)
<1>1. Init => XInv
  BY DEF Init, XInv, OneWriterPerArtifact, UpToDate, DeletesAll, SingleInv,
         Active, BeforeTry, InTry
<1>2. IInv /\ XInv /\ [Next /\ OneWriterPerArtifact']_vars => XInv'
  <2> SUFFICES ASSUME IInv, XInv, [Next /\ OneWriterPerArtifact']_vars
               PROVE  XInv'
    OBVIOUS
  <2>1. CASE Next /\ OneWriterPerArtifact'
    BY <2>1, XStep
  <2>2. CASE UNCHANGED vars
    <3>1. OneWriterPerArtifact'
      BY <2>2 DEF vars, XInv, OneWriterPerArtifact
    <3> QED
      BY <2>2, <3>1, XStep
  <2> QED
    BY <2>1, <2>2
<1> QED
  BY <1>1, <1>2, Invariance, ExclusiveIsSpec, PTL DEF ExclusiveSpec

LEMMA OnceNow == IInv /\ XInv => ExactlyOnce
  BY DEF IInv, XInv, StoredInv, NamedInv, SingleInv, ExactlyOnce, Of

\* With one writer per artifact nothing is stored twice and nothing is lost.
THEOREM ExactlyOnceCorrect == ExclusiveSpec => []ExactlyOnce
  BY OnceNow, ExclusiveInvariance, PTL

-----------------------------------------------------------------------------
(***************************************************************************)
(* Refinement of ArtifactLedger.                                           *)
(***************************************************************************)
Told(c) == IF stage[c] \in Final THEN stage[c] ELSE "pending"

\* A step that does not commit answers at most one caller, with "failed" or,
\* when the catalog knows the artifact, with "skipped".
AnswersOne ==
  \/ \A d \in Calls : Told(d)' = Told(d)
  \/ \E c \in Calls :
       /\ stage[c] \notin Final
       /\ \A d \in Calls \ {c} : Told(d)' = Told(d)
       /\ \/ stage'[c] = "failed"
          \/ /\ stage'[c] = "skipped" /\ request[c].mode = "skip"
             /\ catalog[request[c].artifact] # NoCall

LEMMA OneAnswer ==
  ASSUME TypeOK, [Next]_vars, ~ \E c \in Calls : Commit(c)
  PROVE  AnswersOne
<1> USE DEF Goto, TypeOK, Final, Told, AnswersOne
<1>1. ASSUME NEW c \in Calls, NEW s \in Sessions, Start(c, s) PROVE AnswersOne
  BY <1>1 DEF Start
<1>2. ASSUME NEW c \in Calls, EnsureCatalog(c) PROVE AnswersOne
  BY <1>2 DEF EnsureCatalog
<1>3. ASSUME NEW c \in Calls, EnsureTable(c) PROVE AnswersOne
  BY <1>3 DEF EnsureTable
<1>4. ASSUME NEW c \in Calls, CatalogGet(c) PROVE AnswersOne
  BY <1>4 DEF CatalogGet
<1>5. ASSUME NEW c \in Calls, ColumnsToPromote(c) PROVE AnswersOne
  BY <1>5 DEF ColumnsToPromote, AfterPromote, AfterDelete
<1>6. ASSUME NEW c \in Calls, BeginDelete(c) PROVE AnswersOne
  BY <1>6 DEF BeginDelete
<1>7. ASSUME NEW c \in Calls, FinishDelete(c) PROVE AnswersOne
  BY <1>7 DEF FinishDelete, AfterDelete
<1>8. ASSUME NEW c \in Calls, CopyRows(c) PROVE AnswersOne
  BY <1>8 DEF CopyRows
<1>9. ASSUME NEW c \in Calls, UpsertCatalog(c) PROVE AnswersOne
  BY <1>9 DEF UpsertCatalog
<1>10. ASSUME NEW c \in Calls, CommitInDoubt(c) PROVE AnswersOne
  BY <1>10 DEF CommitInDoubt
<1>11. ASSUME NEW c \in Calls, StatementFails(c) PROVE AnswersOne
  BY <1>11 DEF StatementFails, BeforeTry
<1>12. ASSUME NEW c \in Calls, StatementRefused(c) PROVE AnswersOne
  BY <1>12 DEF StatementRefused, BeforeTry
<1>13. ASSUME NEW c \in Calls, WriteFails(c) PROVE AnswersOne
  BY <1>13 DEF WriteFails, InTry
<1>14. ASSUME NEW s \in Sessions,
              Connect(s) \/ Close(s) \/ Rollback(s) \/ CountRows(s)
       PROVE AnswersOne
  BY <1>14 DEF Connect, Close, Rollback, CountRows
<1>15. ASSUME NEW s \in Sessions, ConnectionLost(s) PROVE AnswersOne
  BY <1>15 DEF ConnectionLost, Active, BeforeTry, InTry
<1>16. CASE UNCHANGED vars
  BY <1>16 DEF vars
<1> QED
  BY <1>1, <1>2, <1>3, <1>4, <1>5, <1>6, <1>7, <1>8, <1>9, <1>10, <1>11,
     <1>12, <1>13, <1>14, <1>15, <1>16
     DEF Next, CallNext, SessionNext, Proceed

Rows == [a \in Artifacts |-> stored \cap Of(a)]
Known == {a \in Artifacts : catalog[a] # NoCall}
Outcome == [c \in Calls |-> Told(c)]

\* A commit is a Load of the ledger: it leaves exactly the call's batch.
LEMMA CommitIsLoad ==
  ASSUME IInv, XInv, NEW c \in Calls, CommitEffect(c), request' = request
  PROVE  Ledger!Load(c)
<1> DEFINE a == request[c].artifact
<1>1. /\ a \in Artifacts /\ c \in Calls /\ c # NoCall
      /\ request[c].mode \in Modes
      /\ stage[c] = "commit" /\ stage[c] \notin Final
  BY NoCallAssumption DEF IInv, TypeOK, Requests, CommitEffect, Final
<1>2. a \in Known => request[c].mode = "replace"
  BY <1>1 DEF XInv, UpToDate, InTry, Known, Modes
<1>3. Rows' = [Rows EXCEPT ![a] = IF a \in EmptyArtifacts THEN {} ELSE {c}]
  <2>1. ASSUME NEW b \in Artifacts, b # a
        PROVE  (stored \cap Of(b))' = stored \cap Of(b)
    BY <2>1 DEF CommitEffect, Of
  <2>2. (stored \cap Of(a))' = IF a \in EmptyArtifacts THEN {} ELSE {c}
    <3>1. ASSUME NEW d \in stored', request[d].artifact = a PROVE d = c
      BY <1>1, <3>1 DEF XInv, DeletesAll, CommitEffect
    <3>2. c \in Of(a)
      BY DEF Of
    <3> QED
      BY <3>1, <3>2 DEF CommitEffect, Of
  <2> QED
    BY <2>1, <2>2 DEF Rows
<1>4. Known' = Known \cup {a}
  BY <1>1 DEF Known, CommitEffect, IInv, TypeOK
<1>5. \E answer \in {"loaded", "failed"} :
        Outcome' = [Outcome EXCEPT ![c] = answer]
  <2>1. stage'[c] \in {"loaded", "failed"}
        /\ \A d \in Calls \ {c} : stage'[d] = stage[d]
    BY DEF CommitEffect
  <2> QED
    BY <2>1 DEF Outcome, Told, Final
<1>6. Outcome[c] = "pending"
  BY <1>1 DEF Outcome, Told
<1> QED
  BY <1>2, <1>3, <1>4, <1>5, <1>6
     DEF Ledger!Load, Ledger!Batch, Rows, Known, Outcome, Told

\* The loader, used by one writer per artifact, implements the ledger.
THEOREM LoaderImplementsLedger == ExclusiveSpec => ImplementsLedger
<1>1. Init => Ledger!Init
  BY DEF Init, Ledger!Init, Ledger!Requests, Ledger!Modes, Requests, Modes,
         Final
<1>2. IInv /\ XInv /\ [Next]_vars => [Ledger!Next]_(Ledger!vars)
  <2> SUFFICES ASSUME IInv, XInv, [Next]_vars
               PROVE  Ledger!Next \/ UNCHANGED Ledger!vars
    OBVIOUS
  <2>1. request' = request /\ (QuietEffect \/ \E c \in Calls : CommitEffect(c))
    BY StepEffect DEF IInv
  <2>2. ASSUME NEW c \in Calls, CommitEffect(c) PROVE Ledger!Next
    BY <2>1, <2>2, CommitIsLoad DEF Ledger!Next
  <2>3. ASSUME QuietEffect, ~ \E c \in Calls : CommitEffect(c)
        PROVE  Ledger!Next \/ UNCHANGED Ledger!vars
    <3>1. Rows' = Rows /\ Known' = Known
      BY <2>1, <2>3 DEF QuietEffect, Rows, Known, Of
    <3>2. AnswersOne
      <4>1. ASSUME NEW c \in Calls, Commit(c) PROVE CommitEffect(c)
        BY <4>1, PublishAtCommit DEF Commit, Goto, IInv
      <4> QED
        BY <2>3, <4>1, OneAnswer DEF IInv
    <3>3. CASE \A d \in Calls : Told(d)' = Told(d)
      <4>1. Outcome' = Outcome
        BY <3>3 DEF Outcome
      <4> QED
        BY <2>1, <3>1, <4>1 DEF Ledger!vars, Rows, Known, Outcome, Told
    <3>4. ASSUME NEW c \in Calls, stage[c] \notin Final,
                 \A d \in Calls \ {c} : Told(d)' = Told(d),
                 stage'[c] = "failed"
          PROVE  Ledger!Next
      <4>1. Outcome' = [Outcome EXCEPT ![c] = "failed"]
            /\ Outcome[c] = "pending"
        BY <3>4 DEF Outcome, Told, Final
      <4> QED
        BY <2>1, <3>1, <4>1 DEF Ledger!Next, Ledger!Fail, Rows, Known, Outcome,
                                Told
    <3>5. ASSUME NEW c \in Calls, stage[c] \notin Final,
                 \A d \in Calls \ {c} : Told(d)' = Told(d),
                 stage'[c] = "skipped", request[c].mode = "skip",
                 catalog[request[c].artifact] # NoCall
          PROVE  Ledger!Next
      <4>1. Outcome' = [Outcome EXCEPT ![c] = "skipped"]
            /\ Outcome[c] = "pending"
        BY <3>5 DEF Outcome, Told, Final
      <4>2. request[c].artifact \in Known
        BY <3>5 DEF Known, IInv, TypeOK, Requests
      <4> QED
        BY <2>1, <3>1, <3>5, <4>1, <4>2 DEF Ledger!Next, Ledger!Skip, Rows,
                                            Known, Outcome, Told
    <3> QED
      BY <3>2, <3>3, <3>4, <3>5 DEF AnswersOne
  <2> QED
    BY <2>1, <2>2, <2>3
<1> QED
  BY <1>1, <1>2, ExclusiveInvariance, ExclusiveIsSpec, PTL
     DEF ExclusiveSpec, Spec, Ledger!Spec, ImplementsLedger

-----------------------------------------------------------------------------
(* Batches.                                                                *)

Outcomes == {"none", "loaded", "skipped", "failed"}

\* The types of the batch's own variables.
AtInv ==
  /\ phase \in [Sessions -> {"new"} \cup Working \cup Ended]
  /\ at \in [Sessions -> Nat \ {0}]
  /\ result \in [Calls -> Outcomes]
  /\ \A s \in Sessions :
       phase[s] \in Working \ {"reading"} => at[s] <= Len(Files[s])

\* What one batch does in one step.
Move(s) ==
  \/ OpenSink(s) \/ ReadFile(s) \/ Load(s) \/ CountFile(s) \/ FileFails(s)
  \/ Finish(s) \/ LoadGoesWrong(s) \/ LoseConnection(s) \/ Crash(s)

LEMMA MoveOfNext == BatchNext <=> \E s \in Sessions : Move(s)
  BY DEF BatchNext, BatchStep, Move

\* The current file of a batch is one of the calls, and nobody else's.
LEMMA CurrentCall ==
  ASSUME AtInv, NEW s \in Sessions, at[s] <= Len(Files[s])
  PROVE  /\ Current(s) \in Calls
         /\ \A t \in Sessions : at[t] <= Len(Files[t]) /\ Current(t) = Current(s)
                                  => t = s
<1>1. /\ Files[s] \in Seq(Calls) /\ at[s] \in Nat \ {0}
      /\ at[s] \in 1..Len(Files[s])
  BY FilesAssumption DEF AtInv
<1>2. Current(s) \in Calls
  BY <1>1 DEF Current
<1>3. ASSUME NEW t \in Sessions, at[t] <= Len(Files[t]), Current(t) = Current(s)
      PROVE  t = s
  <2>1. /\ Files[t] \in Seq(Calls) /\ at[t] \in Nat \ {0}
        /\ at[t] \in 1..Len(Files[t])
    BY <1>3, FilesAssumption DEF AtInv
  <2>2. at[t] \in DOMAIN Files[t] /\ at[s] \in DOMAIN Files[s]
    BY <1>1, <2>1
  <2> QED
    BY <1>3, <2>2, FilesAssumption DEF Current
<1> QED
  BY <1>2, <1>3

-----------------------------------------------------------------------------
\* The current file comes to its end, or the batch stays with it.
LEMMA Advance ==
  ASSUME AtInv, NEW s \in Sessions, phase[s] \in Working \ {"reading"},
         result' \in [Calls -> Outcomes],
         \/ /\ phase' = [phase EXCEPT ![s] = "reading"]
            /\ at' = [at EXCEPT ![s] = @ + 1]
         \/ /\ at' = at
            /\ \E next \in Working : phase' = [phase EXCEPT ![s] = next]
  PROVE  AtInv'
<1>1. CASE /\ phase' = [phase EXCEPT ![s] = "reading"]
           /\ at' = [at EXCEPT ![s] = @ + 1]
  <2>1. at' \in [Sessions -> Nat \ {0}]
    BY <1>1 DEF AtInv
  <2>2. ASSUME NEW t \in Sessions, phase'[t] \in Working \ {"reading"}
        PROVE  at'[t] <= Len(Files[t])
    <3>1. t # s
      BY <1>1, <2>2 DEF AtInv
    <3>2. phase'[t] = phase[t] /\ at'[t] = at[t]
      BY <1>1, <3>1 DEF AtInv
    <3> QED
      BY <2>2, <3>2 DEF AtInv
  <2>3. phase' \in [Sessions -> {"new"} \cup Working \cup Ended]
    BY <1>1 DEF AtInv, Working
  <2> QED
    BY <2>1, <2>2, <2>3 DEF AtInv
<1>2. CASE /\ at' = at
           /\ \E next \in Working : phase' = [phase EXCEPT ![s] = next]
  BY <1>2 DEF AtInv
<1> QED
  BY <1>1, <1>2

LEMMA AtStep == AtInv /\ [BatchNext]_allVars => AtInv'
<1> SUFFICES ASSUME AtInv, [BatchNext]_allVars PROVE AtInv'
  OBVIOUS
<1>1. CASE UNCHANGED allVars
  BY <1>1 DEF allVars, batchVars, AtInv
<1>2. ASSUME NEW s \in Sessions, Move(s) PROVE AtInv'
  <2> USE DEF AtInv, Working, Ended, Outcomes, Become, Report, NextFile,
              AfterFailure, batchVars
  <2>1. CASE OpenSink(s)
    BY <2>1 DEF OpenSink
  <2>2. CASE ReadFile(s)
    BY <2>2 DEF ReadFile
  <2>3. CASE Load(s) \/ LoadGoesWrong(s) \/ LoseConnection(s)
    BY <2>3 DEF Load, LoadGoesWrong, LoseConnection
  <2>4. CASE CountFile(s)
    <3>1. /\ phase[s] = "loading" /\ result' \in [Calls -> Outcomes]
          /\ \/ /\ phase' = [phase EXCEPT ![s] = "reading"]
                /\ at' = [at EXCEPT ![s] = @ + 1]
             \/ phase' = [phase EXCEPT ![s] = "failing"] /\ at' = at
      BY <2>4 DEF CountFile
    <3> QED
      BY <3>1, Advance
  <2>5. CASE FileFails(s)
    <3>1. /\ phase[s] \in {"loading", "failing"}
          /\ result' \in [Calls -> Outcomes]
          /\ \/ /\ phase' = [phase EXCEPT ![s] = "reading"]
                /\ at' = [at EXCEPT ![s] = @ + 1]
             \/ phase' = [phase EXCEPT ![s] = "stopping"] /\ at' = at
      BY <2>5 DEF FileFails, Raised
    <3> QED
      BY <3>1, Advance
  <2>6. CASE Finish(s)
    BY <2>6 DEF Finish
  <2>7. CASE Crash(s)
    BY <2>7 DEF Crash
  <2> QED
    BY <1>2, <2>1, <2>2, <2>3, <2>4, <2>5, <2>6, <2>7 DEF Move
<1> QED
  BY <1>1, <1>2, MoveOfNext

LEMMA MoveIsNext ==
  ASSUME AtInv, [BatchNext]_allVars PROVE [Next]_vars
<1>1. CASE UNCHANGED allVars
  BY <1>1 DEF allVars
<1>2. ASSUME NEW s \in Sessions, Move(s) PROVE Next \/ UNCHANGED vars
  <2>1. at[s] <= Len(Files[s]) => Current(s) \in Calls
    BY CurrentCall
  <2>2. CASE OpenSink(s)
    BY <2>2 DEF OpenSink, Next, SessionNext
  <2>3. CASE ReadFile(s)
    BY <2>1, <2>3 DEF ReadFile, Next, CallNext
  <2>4. CASE Load(s) \/ LoadGoesWrong(s)
    <3>1. Current(s) \in Calls
      BY <2>1, <2>4 DEF Load, LoadGoesWrong, AtInv, Working
    <3> QED
      BY <2>4, <3>1 DEF Load, LoadGoesWrong, Next, CallNext
  <2>5. CASE CountFile(s)
    BY <2>5 DEF CountFile, Next, SessionNext
  <2>6. CASE FileFails(s) \/ Finish(s)
    BY <2>6 DEF FileFails, Finish, Next, SessionNext
  <2>7. CASE LoseConnection(s) \/ Crash(s)
    BY <2>7 DEF LoseConnection, Crash, Next, SessionNext
  <2> QED
    BY <1>2, <2>2, <2>3, <2>4, <2>5, <2>6, <2>7 DEF Move
<1> QED
  BY <1>1, <1>2, MoveOfNext

LEMMA AtInvariance == BatchSpec => []AtInv
<1>1. BatchInit => AtInv
  BY FilesAssumption DEF BatchInit, AtInv, Working, Outcomes
<1> QED
  BY <1>1, AtStep, PTL DEF BatchSpec

\* Batches are a way of using the loader: every theorem about Spec holds of
\* them (run_batch, convert_mhtml_to_postgres calling load_table).
THEOREM BatchIsLoader == BatchSpec => Spec
<1>1. BatchInit => Init
  BY DEF BatchInit
<1>2. AtInv /\ [BatchNext]_allVars => [Next]_vars
  BY MoveIsNext
<1> QED
  BY <1>1, <1>2, AtInvariance, PTL DEF BatchSpec, Spec

-----------------------------------------------------------------------------
(***************************************************************************)
(* A running call is the current file of a batch that waits for it, and a  *)
(* file's load begins on a clean session.                                  *)
(***************************************************************************)
LoadingInv ==
  /\ \A s \in Sessions : phase[s] = "loading" => session[Current(s)] = s
  /\ \A c \in Calls : stage[c] \in Active =>
       phase[session[c]] = "loading" /\ c = Current(session[c])

CleanInv ==
  /\ \A s \in Sessions : phase[s] = "reading" => tx[s] # "aborted"
  /\ \A c \in Calls : stage[c] = "ensure_catalog" => tx[session[c]] # "aborted"

\* One batch's step leaves the other batches, their sessions and their files
\* alone.
OthersUntouched(s) ==
  /\ \A t \in Sessions \ {s} :
       phase'[t] = phase[t] /\ at'[t] = at[t] /\ tx'[t] = tx[t]
  /\ \A c \in Calls :
       (\/ at[s] > Len(Files[s]) \/ c # Current(s)) =>
         /\ session'[c] = session[c]
         /\ session[c] # s \/ stage[c] \notin Active => stage'[c] = stage[c]
  /\ \A c \in Calls : stage'[c] \in Active =>
       session'[c] = s \/ (stage[c] \in Active /\ session'[c] = session[c])

\* A statement of a running call changes that call's stage and the status of
\* its own session.
LEMMA StatementIsLocal ==
  ASSUME TypeOK, NEW c \in Calls,
         Proceed(c) \/ CommitInDoubt(c) \/ StatementFails(c) \/ WriteFails(c)
  PROVE  /\ session' = session
         /\ stage[c] \in Active /\ stage'[c] # "ensure_catalog"
         /\ \A d \in Calls \ {c} : stage'[d] = stage[d]
         /\ \A t \in Sessions \ {session[c]} : tx'[t] = tx[t]
<1> USE DEF TypeOK, callVars, dbVars, Goto, SetSession, Active, BeforeTry, InTry
<1>1. CASE EnsureCatalog(c)
  BY <1>1 DEF EnsureCatalog
<1>2. CASE EnsureTable(c)
  BY <1>2 DEF EnsureTable
<1>3. CASE CatalogGet(c)
  BY <1>3 DEF CatalogGet
<1>4. CASE ColumnsToPromote(c)
  BY <1>4 DEF ColumnsToPromote, AfterPromote, AfterDelete
<1>5. CASE BeginDelete(c)
  BY <1>5 DEF BeginDelete
<1>6. CASE FinishDelete(c)
  BY <1>6 DEF FinishDelete, AfterDelete
<1>7. CASE CopyRows(c)
  BY <1>7 DEF CopyRows
<1>8. CASE UpsertCatalog(c)
  BY <1>8 DEF UpsertCatalog
<1>9. CASE Commit(c) \/ CommitInDoubt(c)
  BY <1>9 DEF Commit, CommitInDoubt
<1>10. CASE StatementRefused(c)
  BY <1>10 DEF StatementRefused
<1>11. CASE StatementFails(c)
  BY <1>11 DEF StatementFails
<1>12. CASE WriteFails(c)
  BY <1>12 DEF WriteFails
<1> QED
  BY <1>1, <1>2, <1>3, <1>4, <1>5, <1>6, <1>7, <1>8, <1>9, <1>10, <1>11, <1>12
     DEF Proceed

LEMMA MoveIsLocal ==
  ASSUME AtInv, IInv, LoadingInv, NEW s \in Sessions, Move(s)
  PROVE  OthersUntouched(s)
<1> USE DEF AtInv, IInv, TypeOK, Become, Report, NextFile, AfterFailure,
            batchVars, vars, callVars, dbVars, Goto, SetSession, OthersUntouched
<1>1. at[s] <= Len(Files[s]) => Current(s) \in Calls
  BY CurrentCall
<1>2. CASE OpenSink(s)
  BY <1>2 DEF OpenSink, Connect
<1>3. CASE ReadFile(s)
  BY <1>1, <1>3 DEF ReadFile, Start
<1>4. CASE CountFile(s)
  BY <1>4 DEF CountFile, CountRows
<1>5. CASE FileFails(s)
  BY <1>5 DEF FileFails, Rollback
<1>6. CASE Finish(s)
  BY <1>6 DEF Finish, Close
<1>7. CASE LoseConnection(s) \/ Crash(s)
  BY <1>7 DEF LoseConnection, Crash, ConnectionLost
<1>8. CASE Load(s) \/ LoadGoesWrong(s)
  <2> DEFINE c == Current(s)
  <2>1. /\ phase[s] = "loading" /\ c \in Calls /\ phase' = phase /\ at' = at
        /\ at[s] <= Len(Files[s])
    BY <1>1, <1>8 DEF Load, LoadGoesWrong, Working
  <2>2. session[c] = s
    BY <2>1 DEF LoadingInv
  <2>3. /\ session' = session /\ stage[c] \in Active
        /\ \A d \in Calls \ {c} : stage'[d] = stage[d]
        /\ \A t \in Sessions \ {session[c]} : tx'[t] = tx[t]
    BY <1>8, <2>1, StatementIsLocal DEF Load, LoadGoesWrong
  <2> QED
    BY <2>1, <2>2, <2>3
<1> QED
  BY <1>2, <1>3, <1>4, <1>5, <1>6, <1>7, <1>8 DEF Move

\* What a batch's step does to its own session and current file.
OwnLoading(s) ==
  /\ phase'[s] = "loading" => session'[Current(s)'] = s
  /\ \A c \in Calls : stage'[c] \in Active /\ session'[c] = s =>
       phase'[s] = "loading" /\ c = Current(s)'
OwnClean(s) ==
  /\ phase'[s] = "reading" => tx'[s] # "aborted"
  /\ \A c \in Calls : stage'[c] = "ensure_catalog" /\ session'[c] = s =>
       tx'[s] # "aborted"

LEMMA MoveKeepsOwn ==
  ASSUME AtInv, IInv, LoadingInv, CleanInv, NEW s \in Sessions, Move(s)
  PROVE  OwnLoading(s) /\ OwnClean(s)
<1> USE DEF AtInv, IInv, TypeOK, Become, Report, NextFile, AfterFailure,
            batchVars, vars, callVars, dbVars, Goto, SetSession,
            OwnLoading, OwnClean, Current
<1>1. at[s] <= Len(Files[s]) => Current(s) \in Calls
  BY CurrentCall
<1>2. CASE OpenSink(s)
  <2>1. /\ \A d \in Calls : session'[d] = s => stage'[d] \notin Active
        /\ phase'[s] \in {"reading", "raised"}
    BY <1>2 DEF OpenSink, Connect, LoadingInv
  <2>2. phase'[s] = "reading" => tx'[s] = "idle"
    BY <1>2 DEF OpenSink, Connect
  <2> QED
    BY <2>1, <2>2 DEF Active, BeforeTry
<1>3. CASE ReadFile(s)
  <2> DEFINE c == Current(s)
  <2>1. /\ phase[s] = "reading" /\ c \in Calls /\ at' = at
        /\ \A d \in Calls : stage[d] \in Active => session[d] # s
        /\ tx[s] # "aborted" /\ tx' = tx
    BY <1>1, <1>3 DEF ReadFile, Start, LoadingInv, CleanInv
  <2>2. CASE Start(c, s) /\ Become(s, "loading")
    <3>1. /\ session' = [session EXCEPT ![c] = s]
          /\ stage' = [stage EXCEPT ![c] = "ensure_catalog"]
          /\ phase'[s] = "loading"
      BY <2>2 DEF Start
    <3>2. \A d \in Calls \ {c} : stage'[d] = stage[d] /\ session'[d] = session[d]
      BY <3>1
    <3> QED
      BY <2>1, <3>1, <3>2
  <2>3. CASE Become(s, "failing") /\ UNCHANGED vars
    BY <2>1, <2>3 DEF Active, BeforeTry
  <2> QED
    BY <1>3, <2>2, <2>3 DEF ReadFile
<1>4. CASE CountFile(s)
  BY <1>4 DEF CountFile, CountRows, LoadingInv, CleanInv, Active, BeforeTry, InTry, Usable
<1>5. CASE FileFails(s)
  BY <1>5 DEF FileFails, Raised, Rollback, LoadingInv, Active, BeforeTry, InTry
<1>6. CASE Finish(s)
  BY <1>6 DEF Finish, Close, LoadingInv
<1>7. CASE LoseConnection(s) \/ Crash(s)
  BY <1>7 DEF LoseConnection, Crash, ConnectionLost, LoadingInv, Busy, Working, Active, BeforeTry, InTry
<1>8. CASE Load(s) \/ LoadGoesWrong(s)
  <2> DEFINE c == Current(s)
  <2>1. /\ phase[s] = "loading" /\ c \in Calls /\ phase' = phase /\ at' = at
    BY <1>1, <1>8 DEF Load, LoadGoesWrong, Working
  <2>2. session[c] = s
    BY <2>1 DEF LoadingInv
  <2>3. /\ session' = session /\ stage'[c] # "ensure_catalog"
        /\ \A d \in Calls \ {c} : stage'[d] = stage[d]
    BY <1>8, <2>1, StatementIsLocal DEF Load, LoadGoesWrong
  <2>4. \A d \in Calls \ {c} : stage[d] \in Active => session[d] # s
    BY <2>1 DEF LoadingInv
  <2> QED
    BY <2>1, <2>2, <2>3, <2>4 DEF Active, BeforeTry
<1> QED
  BY <1>2, <1>3, <1>4, <1>5, <1>6, <1>7, <1>8 DEF Move

LEMMA BatchStepKeeps ==
  ASSUME AtInv, IInv, LoadingInv, CleanInv, [BatchNext]_allVars, AtInv', IInv'
  PROVE  LoadingInv' /\ CleanInv'
<1>1. CASE UNCHANGED allVars
  BY <1>1 DEF allVars, vars, batchVars, LoadingInv, CleanInv, Current
<1>2. ASSUME NEW s \in Sessions, Move(s) PROVE LoadingInv' /\ CleanInv'
  <2>1. OthersUntouched(s) /\ OwnLoading(s) /\ OwnClean(s)
    BY <1>2, MoveIsLocal, MoveKeepsOwn
  <2>2. \A c \in Calls : stage'[c] \in Active => session'[c] \in Sessions
    BY DEF IInv, TypeOK
  <2>3. ASSUME NEW t \in Sessions, t # s, phase'[t] = "loading"
        PROVE  session'[Current(t)'] = t
    <3>1. phase[t] = "loading" /\ at[t] <= Len(Files[t])
      BY <2>1, <2>3 DEF OthersUntouched, AtInv, Working
    <3>2. Current(t)' = Current(t) /\ Current(t) \in Calls
      BY <2>1, <2>3, <3>1, CurrentCall DEF OthersUntouched, Current
    <3>3. at[s] > Len(Files[s]) \/ Current(t) # Current(s)
      <4>1. at[s] \in Nat /\ Len(Files[s]) \in Nat
        BY FilesAssumption DEF AtInv
      <4> QED
        BY <2>3, <3>1, <4>1, CurrentCall
    <3> QED
      BY <2>1, <3>1, <3>2, <3>3 DEF OthersUntouched, LoadingInv
  <2>4. ASSUME NEW c \in Calls, stage'[c] \in Active, session'[c] # s
        PROVE  /\ stage[c] = stage'[c] /\ session[c] = session'[c]
               /\ phase[session[c]] = "loading" /\ c = Current(session[c])
    <3>1. CASE at[s] > Len(Files[s]) \/ c # Current(s)
      <4>1. session'[c] = session[c] /\ stage'[c] = stage[c]
        BY <2>1, <2>4, <3>1 DEF OthersUntouched
      <4> QED
        BY <2>4, <4>1 DEF LoadingInv
    <3>2. CASE at[s] <= Len(Files[s]) /\ c = Current(s)
      <4>1. stage[c] \in Active /\ session[c] \in Sessions /\ session[c] # s
        BY <2>1, <2>4 DEF OthersUntouched, IInv, TypeOK
      <4>2. phase[session[c]] = "loading" /\ c = Current(session[c])
        BY <4>1 DEF LoadingInv
      <4>3. at[session[c]] <= Len(Files[session[c]])
        BY <4>1, <4>2 DEF AtInv, Working
      <4> QED
        BY <3>2, <4>1, <4>2, <4>3, CurrentCall
    <3>3. at[s] \in Nat /\ Len(Files[s]) \in Nat
      BY FilesAssumption DEF AtInv
    <3> QED
      BY <3>1, <3>2, <3>3
  <2>5. LoadingInv'
    <3>1. ASSUME NEW c \in Calls, stage'[c] \in Active
          PROVE  LET t == session'[c] IN
                 phase'[t] = "loading" /\ c = Files[t][at'[t]]
      <4>1. CASE session'[c] = s
        BY <2>1, <3>1, <4>1 DEF OwnLoading, Current
      <4>2. CASE session'[c] # s
        BY <2>1, <2>2, <2>4, <3>1, <4>2 DEF OthersUntouched, Current
      <4> QED
        BY <4>1, <4>2
    <3>2. ASSUME NEW t \in Sessions, phase'[t] = "loading"
          PROVE  session'[Files[t][at'[t]]] = t
      BY <2>1, <2>3, <3>2 DEF OwnLoading, Current
    <3> QED
      BY <3>1, <3>2 DEF LoadingInv, Current
  <2>6. CleanInv'
    <3>1. \A t \in Sessions : phase'[t] = "reading" => tx'[t] # "aborted"
      BY <2>1 DEF OwnClean, OthersUntouched, CleanInv
    <3>2. ASSUME NEW c \in Calls, stage'[c] = "ensure_catalog"
          PROVE  tx'[session'[c]] # "aborted"
      <4>1. stage'[c] \in Active
        BY <3>2 DEF Active, BeforeTry
      <4>2. CASE session'[c] = s
        BY <2>1, <3>2, <4>2 DEF OwnClean
      <4>3. CASE session'[c] # s
        BY <2>1, <2>2, <2>4, <3>2, <4>1, <4>3 DEF OthersUntouched, CleanInv
      <4> QED
        BY <4>2, <4>3
    <3> QED
      BY <3>1, <3>2 DEF CleanInv
  <2> QED
    BY <2>5, <2>6
<1> QED
  BY <1>1, <1>2, MoveOfNext

BatchInv == AtInv /\ IInv /\ LoadingInv /\ CleanInv

LEMMA BatchInvariance == BatchSpec => []BatchInv
<1>1. BatchInit => LoadingInv /\ CleanInv
  BY DEF BatchInit, Init, LoadingInv, CleanInv, Active, BeforeTry, InTry
<1>2. /\ AtInv /\ AtInv' /\ IInv /\ IInv' /\ LoadingInv /\ CleanInv
      /\ [BatchNext]_allVars
      => LoadingInv' /\ CleanInv'
  BY BatchStepKeeps
<1>3. BatchSpec => []AtInv /\ []IInv
  BY AtInvariance, BatchIsLoader, Invariance, PTL
<1> QED
  BY <1>1, <1>2, <1>3, PTL DEF BatchSpec, BatchInv

\* Types, and a running call is the current file of the batch on its session.
THEOREM BatchTypeCorrect == BatchSpec => []BatchTypeOK
<1>1. BatchInv => BatchTypeOK
  BY DEF BatchInv, IInv, AtInv, LoadingInv, BatchTypeOK, Outcomes
<1> QED
  BY <1>1, BatchInvariance, PTL

\* No file begins on a session that an earlier file has left aborted or with
\* uncommitted work (run_batch's rollback after a failed file).
THEOREM IsolationCorrect == BatchSpec => []FailuresIsolated
<1>1. BatchInv => FailuresIsolated
  <2> SUFFICES ASSUME BatchInv, NEW c \in Calls, stage[c] = "ensure_catalog"
               PROVE  tx[session[c]] # "aborted" /\ pending[session[c]] = NoWork
    BY DEF FailuresIsolated
  <2> QED
    BY NothingCarried DEF BatchInv, IInv, CleanInv, BeforeTry
<1> QED
  BY <1>1, BatchInvariance, PTL

-----------------------------------------------------------------------------
(***************************************************************************)
(* What is in the report is what the call answered, a call that answered   *)
(* "skipped" has written nothing, and no file is passed over.              *)
(***************************************************************************)
ResultInv ==
  \A c \in Calls : result[c] \in {"loaded", "skipped"} => stage[c] = result[c]

ListedInv ==
  \A s \in Sessions :
    /\ \A i \in 1..(at[s] - 1) : result[Files[s][i]] # "none"
    /\ phase[s] = "reported" => at[s] > Len(Files[s])

OriginInv ==
  /\ \A c \in stored : stage[c] \in {"loaded", "failed"}
  /\ \A a \in Artifacts : catalog[a] # NoCall =>
                              stage[catalog[a]] \in {"loaded", "failed"}

LEMMA OriginStep ==
  ASSUME IInv, OriginInv, [Next]_vars
  PROVE  OriginInv'
<1>1. /\ request' = request
      /\ \A d \in Calls : stage[d] \in Final => stage'[d] = stage[d]
      /\ QuietEffect \/ \E c \in Calls : CommitEffect(c)
  BY StepEffect DEF IInv
<1>2. \A a \in Artifacts : catalog[a] \in Calls \cup {NoCall}
  BY DEF IInv, TypeOK
<1>3. stored \subseteq Calls
  BY DEF IInv, TypeOK
<1>4. CASE QuietEffect
  BY <1>1, <1>2, <1>3, <1>4 DEF QuietEffect, OriginInv, Final
<1>5. ASSUME NEW c \in Calls, CommitEffect(c) PROVE OriginInv'
  <2>1. \A a \in Artifacts : catalog'[a] \in {catalog[a], c}
    BY <1>5 DEF CommitEffect, IInv, TypeOK
  <2>2. stage'[c] \in {"loaded", "failed"} /\ stored' \subseteq stored \cup {c}
    BY <1>5 DEF CommitEffect
  <2> QED
    BY <1>1, <1>2, <1>3, <2>1, <2>2 DEF OriginInv, Final
<1> QED
  BY <1>1, <1>4, <1>5

\* A step of the batch files at most one outcome, for the current file: what
\* the call answered, or "failed".
FilesOneOutcome(s) ==
  \/ result' = result /\ at' = at
  \/ /\ at[s] <= Len(Files[s])
     /\ at' \in {at, [at EXCEPT ![s] = @ + 1]}
     /\ \E answer \in {stage[Current(s)], "failed"} :
          /\ answer \in {"loaded", "skipped", "failed"}
          /\ result' = [result EXCEPT ![Current(s)] = answer]

LEMMA OneOutcome ==
  ASSUME AtInv, NEW s \in Sessions, Move(s)
  PROVE  /\ FilesOneOutcome(s)
         /\ phase'[s] = "reported" => at' = at /\ at[s] > Len(Files[s])
         /\ \A t \in Sessions \ {s} : phase'[t] = phase[t]
<1> USE DEF AtInv, Become, Report, NextFile, AfterFailure, batchVars,
            FilesOneOutcome
<1>1. CASE OpenSink(s)
  BY <1>1 DEF OpenSink
<1>2. CASE ReadFile(s)
  BY <1>2 DEF ReadFile
<1>3. CASE Load(s) \/ LoadGoesWrong(s) \/ LoseConnection(s)
  BY <1>3 DEF Load, LoadGoesWrong, LoseConnection, Working
<1>4. CASE CountFile(s)
  <2>1. phase[s] = "loading" /\ at[s] <= Len(Files[s])
    BY <1>4 DEF CountFile, Working
  <2> QED
    BY <1>4, <2>1 DEF CountFile
<1>5. CASE FileFails(s)
  <2>1. phase[s] \in {"loading", "failing"} /\ at[s] <= Len(Files[s])
    BY <1>5 DEF FileFails, Raised, Working
  <2> QED
    BY <1>5, <2>1 DEF FileFails
<1>6. CASE Finish(s)
  BY <1>6 DEF Finish
<1>7. CASE Crash(s)
  BY <1>7 DEF Crash
<1> QED
  BY <1>1, <1>2, <1>3, <1>4, <1>5, <1>6, <1>7 DEF Move

LEMMA ReportStep ==
  ASSUME BatchInv, BatchInv', ResultInv, ListedInv, [BatchNext]_allVars
  PROVE  ResultInv' /\ ListedInv'
<1>1. CASE UNCHANGED allVars
  BY <1>1 DEF allVars, vars, batchVars, ResultInv, ListedInv
<1>2. ASSUME NEW s \in Sessions, Move(s) PROVE ResultInv' /\ ListedInv'
  <2>1. /\ FilesOneOutcome(s)
        /\ phase'[s] = "reported" => at' = at /\ at[s] > Len(Files[s])
        /\ \A t \in Sessions \ {s} : phase'[t] = phase[t]
    BY <1>2, OneOutcome DEF BatchInv
  <2>2. \A c \in Calls : stage[c] \in Final => stage'[c] = stage[c]
    <3>1. [Next]_vars
      BY <1>2, MoveOfNext, MoveIsNext DEF BatchInv
    <3> QED
      BY <3>1, StepEffect DEF BatchInv, IInv
  <2>3. /\ result \in [Calls -> Outcomes] /\ at \in [Sessions -> Nat \ {0}]
        /\ at' \in [Sessions -> Nat \ {0}]
        /\ \A t \in Sessions : Files[t] \in Seq(Calls)
    BY FilesAssumption DEF BatchInv, AtInv
  <2>4. CASE result' = result /\ at' = at
    BY <2>1, <2>2, <2>4 DEF ResultInv, ListedInv, Final
  <2>5. ASSUME at[s] <= Len(Files[s]),
               at' \in {at, [at EXCEPT ![s] = @ + 1]},
               NEW answer \in {stage[Current(s)], "failed"},
               answer \in {"loaded", "skipped", "failed"},
               result' = [result EXCEPT ![Current(s)] = answer]
        PROVE  ResultInv' /\ ListedInv'
    <3>1. Current(s) \in Calls
      BY <2>5, CurrentCall DEF BatchInv
    <3>2. /\ result'[Current(s)] = answer
          /\ \A c \in Calls \ {Current(s)} : result'[c] = result[c]
      BY <2>3, <2>5, <3>1
    <3>3. ResultInv'
      BY <2>2, <2>5, <3>1, <3>2 DEF ResultInv, Final
    <3>4. ASSUME NEW t \in Sessions, NEW i \in 1..(at'[t] - 1)
          PROVE  result'[Files[t][i]] # "none"
      <4>1. CASE i \in 1..(at[t] - 1)
        <5>1. result[Files[t][i]] # "none"
          BY <4>1 DEF ListedInv
        <5> QED
          BY <2>3, <2>5, <5>1
      <4>2. CASE i \notin 1..(at[t] - 1)
        <5>1. t = s /\ i = at[s]
          BY <2>3, <2>5, <4>2
        <5> QED
          BY <2>5, <3>2, <5>1 DEF Current
      <4> QED
        BY <4>1, <4>2
    <3>5. ASSUME NEW t \in Sessions, phase'[t] = "reported"
          PROVE  at'[t] > Len(Files[t])
      BY <2>1, <2>3, <2>5, <3>5 DEF ListedInv
    <3> QED
      BY <3>3, <3>4, <3>5 DEF ListedInv
  <2> QED
    BY <2>1, <2>4, <2>5 DEF FilesOneOutcome
<1> QED
  BY <1>1, <1>2, MoveOfNext

ReportInv == BatchInv /\ ResultInv /\ ListedInv /\ OriginInv

LEMMA ReportInvariance == BatchSpec => []ReportInv
<1>1. BatchInit => ResultInv /\ ListedInv /\ OriginInv
  <2> SUFFICES ASSUME BatchInit PROVE ResultInv /\ ListedInv /\ OriginInv
    OBVIOUS
  <2>1. \A s \in Sessions : 1..(at[s] - 1) = {} /\ phase[s] # "reported"
    BY DEF BatchInit
  <2> QED
    BY <2>1 DEF BatchInit, Init, ResultInv, ListedInv, OriginInv
<1>2. BatchInv /\ BatchInv' /\ ResultInv /\ ListedInv /\ [BatchNext]_allVars
      => ResultInv' /\ ListedInv'
  BY ReportStep
<1>3. BatchInv /\ OriginInv /\ [BatchNext]_allVars => OriginInv'
  BY OriginStep, MoveIsNext DEF BatchInv
<1> QED
  BY <1>1, <1>2, <1>3, BatchInvariance, PTL DEF BatchSpec, ReportInv

\* The report agrees with the database (run_batch's FileResult).
THEOREM ReportCorrect == BatchSpec => []ReportTrue
<1>1. ReportInv => ReportTrue
  <2> SUFFICES ASSUME ReportInv, NEW s \in Sessions
               PROVE  /\ phase[s] = "reported" =>
                           \A c \in FilesOf(s) : result[c] # "none"
                      /\ \A c \in FilesOf(s) :
                           LET a == request[c].artifact IN
                           /\ result[c] \in {"loaded", "skipped"} =>
                                /\ catalog[a] # NoCall
                                /\ a \notin EmptyArtifacts => stored \cap Of(a) # {}
                           /\ c \in stored => result[c] # "skipped"
    BY DEF ReportTrue
  <2>1. /\ Files[s] \in Seq(Calls) /\ Len(Files[s]) \in Nat
        /\ at[s] \in Nat \ {0}
    BY FilesAssumption DEF ReportInv, BatchInv, AtInv
  <2>2. FilesOf(s) \subseteq Calls
    BY <2>1 DEF FilesOf
  <2>3. ASSUME phase[s] = "reported", NEW c \in FilesOf(s)
        PROVE  result[c] # "none"
    <3>1. PICK i \in 1..Len(Files[s]) : c = Files[s][i]
      BY DEF FilesOf
    <3>2. i \in 1..(at[s] - 1)
      BY <2>1, <2>3 DEF ReportInv, ListedInv
    <3> QED
      BY <3>1, <3>2 DEF ReportInv, ListedInv
  <2>4. ASSUME NEW c \in Calls, result[c] \in {"loaded", "skipped"}
        PROVE  LET a == request[c].artifact IN
               /\ catalog[a] # NoCall
               /\ a \notin EmptyArtifacts => stored \cap Of(a) # {}
    <3>1. stage[c] \in {"loaded", "skipped"}
      BY <2>4 DEF ReportInv, ResultInv
    <3> QED
      BY <3>1, DurableNow DEF ReportInv, BatchInv, SuccessIsDurable
  <2>5. ASSUME NEW c \in stored PROVE result[c] # "skipped"
    <3>1. c \in Calls
      BY DEF ReportInv, BatchInv, IInv, TypeOK
    <3> QED
      BY <3>1 DEF ReportInv, ResultInv, OriginInv
  <2> QED
    BY <2>2, <2>3, <2>4, <2>5
<1> QED
  BY <1>1, ReportInvariance, PTL

-----------------------------------------------------------------------------
(***************************************************************************)
(* Batches one after another.                                              *)
(***************************************************************************)
LEMMA SerialIsBatch == SerialSpec => BatchSpec
<1>1. [BatchNext /\ OneBatchAtATime']_allVars => [BatchNext]_allVars
  OBVIOUS
<1> QED
  BY <1>1, PTL DEF SerialSpec, BatchSpec

LEMMA OneBatchOneWriter ==
  ASSUME BatchInv, OneBatchAtATime PROVE OneWriterPerArtifact
<1> SUFFICES ASSUME NEW c \in Calls, NEW d \in Calls,
                    stage[c] \in Active, stage[d] \in Active
             PROVE  c = d
  BY DEF OneWriterPerArtifact
<1>1. /\ session[c] \in Sessions /\ session[d] \in Sessions
      /\ phase[session[c]] = "loading" /\ phase[session[d]] = "loading"
  BY DEF BatchInv, IInv, TypeOK, LoadingInv
<1>2. session[c] = session[d]
  BY <1>1 DEF OneBatchAtATime, Working
<1> QED
  BY <1>2 DEF BatchInv, IInv, TypeOK

\* A single batch, or batches one after another, have one writer per artifact
\* (run_batch processes one file at a time on its shared sink).
LEMMA SerialIsExclusive == SerialSpec => ExclusiveSpec
<1>1. BatchInit => Init
  BY DEF BatchInit
<1>2. /\ BatchInv /\ BatchInv' /\ [BatchNext /\ OneBatchAtATime']_allVars
      => [Next /\ OneWriterPerArtifact']_vars
  <2> SUFFICES ASSUME BatchInv, BatchInv',
                      [BatchNext /\ OneBatchAtATime']_allVars
               PROVE  [Next /\ OneWriterPerArtifact']_vars
    OBVIOUS
  <2>1. CASE UNCHANGED allVars
    BY <2>1 DEF allVars
  <2>2. CASE BatchNext /\ OneBatchAtATime'
    <3>1. [Next]_vars
      BY <2>2, MoveIsNext DEF BatchInv
    <3>2. OneWriterPerArtifact'
      BY <2>2, OneBatchOneWriter, PTL
    <3> QED
      BY <3>1, <3>2
  <2> QED
    BY <2>1, <2>2
<1>3. SerialSpec => []BatchInv
  BY SerialIsBatch, BatchInvariance, PTL
<1> QED
  BY <1>1, <1>2, <1>3, PTL DEF SerialSpec, ExclusiveSpec

\* Batches one after another keep the ledger: whatever crashes, is lost or is
\* run again, each artifact is published and answered as its abstract
\* specification says (run_batch is what an operator repeats).
THEOREM SerialKeepsLedger == SerialSpec => ImplementsLedger
  BY SerialIsExclusive, LoaderImplementsLedger, PTL

\* A load that was answered "loaded" is the one the catalog names until a
\* replacing call takes its place.
LatestInv ==
  \A c \in Calls :
    stage[c] = "loaded" =>
      \/ catalog[request[c].artifact] = c
      \/ request[catalog[request[c].artifact]].mode = "replace"

LEMMA LatestStep ==
  ASSUME IInv, XInv, LatestInv, [Next]_vars
  PROVE  LatestInv'
<1>1. /\ request' = request
      /\ \A d \in Calls : stage[d] \in Final => stage'[d] = stage[d]
      /\ QuietEffect \/ \E c \in Calls : CommitEffect(c)
  BY StepEffect DEF IInv
<1>2. ASSUME NEW c \in Calls, CommitEffect(c) PROVE LatestInv'
  <2> DEFINE a == request[c].artifact
  <2>1. /\ a \in Artifacts /\ catalog'[a] = c
        /\ \A b \in Artifacts \ {a} : catalog'[b] = catalog[b]
    BY <1>2 DEF IInv, TypeOK, Requests, CommitEffect
  <2>2. ASSUME NEW d \in Calls, d # c, stage'[d] = "loaded"
        PROVE  \/ catalog'[request[d].artifact] = d
               \/ request[catalog'[request[d].artifact]].mode = "replace"
    <3>1. stage[d] = "loaded" /\ request[d].artifact \in Artifacts
      BY <1>2, <2>2 DEF CommitEffect, IInv, TypeOK, Requests
    <3>2. CASE request[d].artifact # a
      BY <2>1, <3>1, <3>2 DEF LatestInv
    <3>3. CASE request[d].artifact = a
      <4>1. catalog[a] # NoCall
        BY <3>1, <3>3 DEF IInv, SuccessInv
      <4>2. existing[c] # NoCall
        BY <1>2, <4>1 DEF CommitEffect, XInv, UpToDate, InTry
      <4>3. request[c].mode # "skip"
        BY <1>2, <4>2 DEF CommitEffect, XInv, UpToDate, InTry
      <4>4. request[c].mode = "replace"
        BY <4>3 DEF IInv, TypeOK, Requests, Modes
      <4> QED
        BY <2>1, <3>3, <4>4
    <3> QED
      BY <3>2, <3>3
  <2> QED
    BY <1>1, <2>1, <2>2 DEF LatestInv
<1>3. CASE \E c \in Calls : Commit(c)
  <2>1. PICK c \in Calls : Commit(c)
    BY <1>3
  <2>2. CommitEffect(c)
    BY <2>1, PublishAtCommit DEF Commit, Goto, IInv
  <2> QED
    BY <1>2, <2>2
<1>4. CASE QuietEffect /\ ~ \E c \in Calls : Commit(c)
  <2>1. AnswersOne
    BY <1>4, OneAnswer DEF IInv
  <2>2. \A d \in Calls : stage'[d] = "loaded" => stage[d] = "loaded"
    BY <2>1 DEF AnswersOne, Told, Final
  <2> QED
    BY <1>1, <1>4, <2>2 DEF QuietEffect, LatestInv
<1> QED
  BY <1>1, <1>2, <1>3, <1>4

\* The reports of batches that run one after another add up to what is stored.
THEOREM ReportsCorrect == SerialSpec => []ReportsAddUp
<1>1. SerialSpec => [](ReportInv /\ IInv /\ XInv)
  BY SerialIsBatch, ReportInvariance, SerialIsExclusive, ExclusiveInvariance, PTL
<1>2. BatchInit => LatestInv
  BY DEF BatchInit, Init, LatestInv
<1>3. /\ ReportInv /\ IInv /\ XInv /\ LatestInv
      /\ [BatchNext /\ OneBatchAtATime']_allVars
      => LatestInv'
  <2>1. AtInv /\ [BatchNext /\ OneBatchAtATime']_allVars => [Next]_vars
    BY MoveIsNext
  <2> QED
    BY <2>1, LatestStep DEF ReportInv, BatchInv
<1>4. ReportInv /\ IInv /\ XInv /\ LatestInv => ReportsAddUp
  <2> SUFFICES ASSUME ReportInv, IInv, XInv, LatestInv, NEW c \in Calls,
                      result[c] \in {"loaded", "skipped"}
               PROVE  LET a == request[c].artifact IN
                      /\ catalog[a] # NoCall
                      /\ stored \cap Of(a) =
                           IF a \in EmptyArtifacts THEN {} ELSE {catalog[a]}
                      /\ result[c] = "loaded" =>
                           catalog[a] = c \/ request[catalog[a]].mode = "replace"
                      /\ result[c] = "skipped" => catalog[a] # c
    BY DEF ReportsAddUp
  <2> DEFINE a == request[c].artifact
  <2>1. stage[c] = result[c] /\ a \in Artifacts
    BY DEF ReportInv, ResultInv, IInv, TypeOK, Requests
  <2>2. catalog[a] # NoCall
    BY <2>1 DEF IInv, SuccessInv
  <2>3. stored \cap Of(a) = IF a \in EmptyArtifacts THEN {} ELSE {catalog[a]}
    BY <2>1, <2>2, OnceNow DEF ExactlyOnce
  <2>4. result[c] = "loaded" =>
          catalog[a] = c \/ request[catalog[a]].mode = "replace"
    BY <2>1 DEF LatestInv
  <2>5. result[c] = "skipped" => catalog[a] # c
    BY <2>1, <2>2 DEF ReportInv, OriginInv
  <2> QED
    BY <2>2, <2>3, <2>4, <2>5
<1> QED
  BY <1>1, <1>2, <1>3, <1>4, PTL DEF SerialSpec
=============================================================================
