------------------------------ MODULE BatchRun ------------------------------
(***************************************************************************)
(* run_batch: a batch opens one PsycopgSink and converts its files one     *)
(* after another on it, rolling the sink back after a file that failed.    *)
(* Any number of batches, each a process of its own, share one database.   *)
(* The loader's state and statements are those of ArtifactLoader; here the *)
(* batch decides when a call starts and when its session is used, rolled   *)
(* back and closed.  A batch is named by its session.                      *)
(***************************************************************************)
EXTENDS ArtifactLoader, Naturals, Sequences

CONSTANTS
  Files,       \* Files[s]: the load_table calls of batch s's files, in order
  StopOnError  \* the batches that run with continue_on_error=False

FilesOf(s) == {Files[s][i] : i \in 1..Len(Files[s])}

ASSUME FilesAssumption ==
  /\ Files \in [Sessions -> Seq(Calls)]
  /\ StopOnError \subseteq Sessions
  \* every file is a call of its own
  /\ \A s, t \in Sessions : \A i \in DOMAIN Files[s], j \in DOMAIN Files[t] :
       Files[s][i] = Files[t][j] => s = t /\ i = j

VARIABLES
  phase,   \* phase[s]: what run_batch is doing
  at,      \* at[s]: the number of the file it is working on
  result   \* result[c]: the outcome in the report, or "none" yet

batchVars == <<phase, at, result>>
allVars == <<vars, batchVars>>

\* "failing": an exception has reached the except block; "stopping": it
\* leaves the loop as BatchError.
Working == {"reading", "loading", "failing", "stopping"}
Ended == {"reported", "raised", "died"}

Current(s) == Files[s][at[s]]

\* on_duplicate is an argument of the batch, the same for all its files.
BatchInit ==
  /\ Init
  /\ \A s \in Sessions : \A c, d \in FilesOf(s) :
       request[c].mode = request[d].mode
  /\ phase = [s \in Sessions |-> "new"]
  /\ at = [s \in Sessions |-> 1]
  /\ result = [c \in Calls |-> "none"]

Become(s, next) == phase' = [phase EXCEPT ![s] = next]

\* The outcome of the current file enters the report.
Report(s, outcome) == result' = [result EXCEPT ![Current(s)] = outcome]
NextFile(s) == at' = [at EXCEPT ![s] = @ + 1] /\ Become(s, "reading")

-----------------------------------------------------------------------------
\* PsycopgSink(dsn), outside the try: a refused connection ends the run.
OpenSink(s) ==
  /\ phase[s] = "new"
  /\ \/ Connect(s) /\ Become(s, "reading")
     \/ Become(s, "raised") /\ UNCHANGED vars
  /\ UNCHANGED <<at, result>>

\* Read, parse, infer, validate; then load_table begins.  Each of the first
\* may raise, which has nothing to do with the database.
ReadFile(s) ==
  /\ phase[s] = "reading" /\ at[s] <= Len(Files[s])
  /\ \/ Start(Current(s), s) /\ Become(s, "loading")
     \/ Become(s, "failing") /\ UNCHANGED vars
  /\ UNCHANGED <<at, result>>

Load(s) ==
  /\ phase[s] = "loading"
  /\ Proceed(Current(s))
  /\ UNCHANGED batchVars

LoadGoesWrong(s) ==
  /\ phase[s] = "loading"
  /\ \/ CommitInDoubt(Current(s)) \/ StatementFails(Current(s))
     \/ WriteFails(Current(s))
  /\ UNCHANGED batchVars

\* count_rows after the load.  If it fails the file counts as failed,
\* whatever the load has stored.
CountFile(s) ==
  LET answer == stage[Current(s)] IN
  /\ phase[s] = "loading" /\ answer \in {"loaded", "skipped"}
  /\ \/ /\ CountRows(s) /\ tx'[s] = "open"
        /\ Report(s, answer) /\ NextFile(s)
     \/ /\ CountRows(s) /\ tx'[s] = "aborted"
        /\ Become(s, "failing") /\ UNCHANGED <<at, result>>
     \/ /\ ~Usable(s)
        /\ Become(s, "failing") /\ UNCHANGED <<vars, at, result>>

\* The current file has raised.
Raised(s) ==
  \/ phase[s] = "failing"
  \/ phase[s] = "loading" /\ stage[Current(s)] = "failed"

AfterFailure(s) ==
  /\ Report(s, "failed")
  /\ IF s \in StopOnError THEN Become(s, "stopping") /\ UNCHANGED at
                          ELSE NextFile(s)

\* Mutant: the sink is not rolled back.
FileFailsOpen(s) == Raised(s) /\ AfterFailure(s) /\ UNCHANGED vars

\* Mutant: the batch insists on the rollback.
FileFailsIfRolledBack(s) ==
  /\ Raised(s) /\ AfterFailure(s)
  /\ tx[s] # "closed"
  /\ Rollback(s) \/ (tx[s] = "idle" /\ UNCHANGED vars)

\* Mutant: a failed file is counted but not listed.
FileFailsUnlisted(s) ==
  /\ Raised(s)
  /\ NextFile(s) /\ UNCHANGED result
  /\ Rollback(s) \/ (tx[s] \in {"idle", "closed"} /\ UNCHANGED vars)

\* except: roll back.  On an idle session that does nothing, on a closed one
\* it raises and the exception is swallowed.
FileFails(s) ==
  /\ Raised(s) /\ AfterFailure(s)
  /\ Rollback(s) \/ (tx[s] \in {"idle", "closed"} /\ UNCHANGED vars)

\* finally: close the sink; return the report or raise BatchError.
Finish(s) ==
  /\ \/ /\ phase[s] = "reading" /\ at[s] > Len(Files[s])
        /\ Become(s, "reported")
     \/ phase[s] = "stopping" /\ Become(s, "raised")
  /\ Close(s) \/ (tx[s] = "closed" /\ UNCHANGED vars)
  /\ UNCHANGED <<at, result>>

\* The connection breaks; the process goes on.
LoseConnection(s) ==
  /\ phase[s] \in Working
  /\ ConnectionLost(s)
  /\ UNCHANGED batchVars

\* The process dies and its connection with it.
Crash(s) ==
  /\ phase[s] \in Working
  /\ ConnectionLost(s) \/ (tx[s] = "closed" /\ ~Busy(s) /\ UNCHANGED vars)
  /\ Become(s, "died") /\ UNCHANGED <<at, result>>

\* What a batch does by itself once it is running.
BatchStep(s) ==
  ReadFile(s) \/ Load(s) \/ CountFile(s) \/ FileFails(s) \/ Finish(s)

BatchNext ==
  \E s \in Sessions :
    \/ OpenSink(s) \/ BatchStep(s)
    \/ LoadGoesWrong(s) \/ LoseConnection(s) \/ Crash(s)

BatchSpec == BatchInit /\ [][BatchNext]_allVars

\* A process goes on as long as it is not waiting for the server, and the
\* server answers when no other transaction is in the way.
FairBatchSpec == BatchSpec /\ \A s \in Sessions : WF_allVars(BatchStep(s))

\* An operator who starts a batch, or starts it again, when no other runs.
OneBatchAtATime ==
  \A s, t \in Sessions : phase[s] \in Working /\ phase[t] \in Working => s = t
SerialSpec == BatchInit /\ [][BatchNext /\ OneBatchAtATime']_allVars

-----------------------------------------------------------------------------
(* Properties.                                                             *)

\* Types; the calls of a batch are those of its files, and while a call runs
\* its batch is waiting for it.
BatchTypeOK ==
  /\ TypeOK
  /\ phase \in [Sessions -> {"new"} \cup Working \cup Ended]
  /\ at \in [Sessions -> Nat \ {0}]
  /\ result \in [Calls -> {"none", "loaded", "skipped", "failed"}]
  /\ \A s \in Sessions :
       /\ phase[s] \in Working \ {"reading"} => at[s] <= Len(Files[s])
       /\ phase[s] = "loading" => session[Current(s)] = s
  /\ \A c \in Calls : stage[c] \in Active =>
       /\ phase[session[c]] = "loading"
       /\ c = Current(session[c])

\* A file that failed does not spoil the files after it: each load begins on
\* a session without an aborted transaction and without another file's work,
\* unless the connection is gone (run_batch: "Reset aborted transaction so
\* later files can continue").
FailuresIsolated ==
  \A c \in Calls :
    stage[c] = "ensure_catalog" =>
      /\ tx[session[c]] # "aborted"
      /\ pending[session[c]] = NoWork

\* The report tells the truth about the database, whatever happened to later
\* files and in other batches: every file has its line, a file reported as
\* loaded or skipped is there, and a load the report calls skipped has stored
\* nothing (OPERABILITY: "continue_on_error preserves earlier successful
\* files").  A file reported as failed may be stored: its commit was not
\* answered or its rows could not be counted.
ReportTrue ==
  \A s \in Sessions :
    /\ phase[s] = "reported" => \A c \in FilesOf(s) : result[c] # "none"
    /\ \A c \in FilesOf(s) :
         LET a == request[c].artifact IN
         /\ result[c] \in {"loaded", "skipped"} =>
              /\ catalog[a] # NoCall
              /\ a \notin EmptyArtifacts => stored \cap Of(a) # {}
         /\ c \in stored => result[c] # "skipped"

\* When batches run one after another their reports add up to what is stored,
\* also over files that were reported as failed and run again and over equal
\* files within a batch: an artifact reported as loaded or skipped is stored
\* once, by the call that reported it or, if that was replaced, by a later
\* replacing call.
ReportsAddUp ==
  \A c \in Calls :
    LET a == request[c].artifact IN
    result[c] \in {"loaded", "skipped"} =>
      /\ catalog[a] # NoCall
      /\ stored \cap Of(a) = IF a \in EmptyArtifacts THEN {} ELSE {catalog[a]}
      /\ result[c] = "loaded" =>
           catalog[a] = c \/ request[catalog[a]].mode = "replace"
      /\ result[c] = "skipped" => catalog[a] # c

\* Every batch that has opened its sink ends, also when the connection breaks
\* or another batch works on the same artifacts.
BatchEnds == \A s \in Sessions : phase[s] = "reading" ~> phase[s] \in Ended
=============================================================================
