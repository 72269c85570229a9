---------------------------- MODULE SourceReader ----------------------------
(***************************************************************************)
(* _read_bounded_source: a source file is read chunk by chunk, one byte    *)
(* beyond the budget at most, so that a file over it is refused without    *)
(* being held.  Sizes are counted in units; another program may still be   *)
(* appending to the file.                                                  *)
(***************************************************************************)
EXTENDS Naturals

CONSTANTS
  MaxSource,  \* ParseLimits.max_source_bytes
  Chunk,      \* _READ_CHUNK_BYTES
  MaxFile     \* bound on the size of a file

ASSUME ReaderAssumption ==
  MaxSource \in Nat \ {0} /\ Chunk \in Nat \ {0} /\ MaxFile \in Nat

VARIABLES
  reading,  \* "closed", "open", "read", or the error
  size,     \* the size the file has now
  source    \* how much of it has been read

readerVars == <<reading, size, source>>

Smallest(a, b) == IF a <= b THEN a ELSE b

ReaderIdle == reading = "closed" /\ size = 0 /\ source = 0

ForgetSource == reading' = "closed" /\ size' = 0 /\ source' = 0

OpenSource ==
  /\ reading' = "open" /\ source' = 0
  /\ size' \in 0..MaxFile

\* Mutant: the byte beyond the budget is not asked for.
WithinBudget(held) == MaxSource - held

Remaining(held) == MaxSource + 1 - held

\* A read gives what was asked for, or all there is; nothing at the end.
ReadChunk ==
  LET got == Smallest(Smallest(Chunk, Remaining(source)), size - source) IN
  /\ reading = "open" /\ source <= MaxSource
  /\ source' = source + got
  /\ reading' = IF got = 0 THEN "read" ELSE "open"
  /\ UNCHANGED size

SourceTooLarge ==
  /\ reading = "open" /\ source > MaxSource
  /\ reading' = "SOURCE_TOO_LARGE"
  /\ UNCHANGED <<size, source>>

\* Opening or reading raises OSError.
ReadFails ==
  /\ reading = "open"
  /\ reading' = "SOURCE_READ_FAILED"
  /\ UNCHANGED <<size, source>>

FileGrows ==
  /\ reading = "open" /\ size < MaxFile
  /\ size' = size + 1
  /\ UNCHANGED <<reading, source>>

ReaderNext == ReadChunk \/ SourceTooLarge \/ ReadFails \/ FileGrows

-----------------------------------------------------------------------------
\* No more than one unit beyond the budget is ever held; a file that is
\* accepted was read to its end and a file that is refused as too large is
\* (_read_bounded_source, whatever is appended meanwhile).
SourceReadWhole ==
  /\ source <= MaxSource + 1
  /\ reading = "read" => source = size /\ size <= MaxSource
  /\ reading = "SOURCE_TOO_LARGE" => size > MaxSource
=============================================================================
