----------------------------- MODULE Documents -----------------------------
(***************************************************************************)
(* One process of the gateway and the documents it is given, one after     *)
(* another.  Inspection reads a source within its budget, finds the HTML   *)
(* root and extracts its tables (inspect_mhtml_file); a conversion names   *)
(* and types the columns of a table, attaches comments and hands the       *)
(* schema to the loader (convert_mhtml_to_postgres).  A step that fails    *)
(* ends the call: nothing after it runs.                                   *)
(*                                                                         *)
(* Every step works on what the step before it returned; of that only what *)
(* the step looks at is kept, so its input is chosen when it begins and    *)
(* forgotten when the next one does.                                       *)
(***************************************************************************)
EXTENDS SourceReader, MimeRoot, SpanProjection, ColumnTypes, ColumnComments

VARIABLES
  returned   \* what the step before returned, until the next one begins

vars == <<returned, readerVars, mimeVars, spanVars, nameVars, typeVars, commentVars>>

Init ==
  /\ returned = "nothing"
  /\ ReaderIdle /\ MimeIdle /\ SpansIdle /\ NamesIdle /\ TypesIdle /\ CommentsIdle

ReadStep == UNCHANGED <<mimeVars, spanVars, nameVars, typeVars, commentVars>>
MimeStep == UNCHANGED <<readerVars, spanVars, nameVars, typeVars, commentVars>>
SpanStep == UNCHANGED <<readerVars, mimeVars, nameVars, typeVars, commentVars>>
NameStep == UNCHANGED <<readerVars, mimeVars, spanVars, typeVars, commentVars>>
TypeStep == UNCHANGED <<readerVars, mimeVars, spanVars, nameVars, commentVars>>
CommentStep == UNCHANGED <<readerVars, mimeVars, spanVars, nameVars, typeVars>>

Idle ==
  /\ returned = "nothing"
  /\ reading = "closed" /\ mime = "idle" /\ spans = "idle"
  /\ naming = "idle" /\ typing = "idle" /\ mapping = "idle"

-----------------------------------------------------------------------------
(* inspect_mhtml_file: the bytes, the HTML in them, the tables in it.      *)

BeginInspection ==
  Idle /\ OpenSource /\ ReadStep /\ UNCHANGED returned

SourceReturned ==
  /\ reading = "read" /\ returned' = "source"
  /\ ForgetSource /\ ReadStep

ParseSource ==
  /\ returned = "source" /\ returned' = "nothing"
  /\ \E m \in Messages : OpenMessage(m)
  /\ MimeStep

HtmlReturned ==
  /\ mime = "html" /\ returned' = "html"
  /\ ForgetMessage /\ MimeStep

ExtractTables ==
  /\ returned = "html" /\ returned' = "nothing"
  /\ \E d \in RawDocuments : OpenTables(d)
  /\ SpanStep

(* convert_mhtml_to_postgres, from the extracted table to its schema.  The *)
(* types and the names of infer_table_schema do not look at each other.    *)

BeginConversion ==
  /\ Idle /\ TypeStep /\ UNCHANGED returned
  /\ \E vals \in ColumnValues, hints \in Meanings : TypeColumn(vals, hints)

TypesReturned ==
  /\ typing = "typed" /\ returned' = "types"
  /\ ForgetTypes /\ TypeStep

NameColumns ==
  /\ returned = "types" /\ returned' = "nothing"
  /\ \E list \in HeaderLists : OpenNames(list)
  /\ NameStep

\* A mapping reference is optional; the table is created after it.
MapColumns ==
  /\ naming = "named" /\ loadable /\ mapping = "idle"
  /\ \E doc \in MappingDocuments(headers) : OpenMappings(doc)
  /\ CommentStep /\ UNCHANGED returned

MappingSettled == mapping \in {"idle", "commented"}

-----------------------------------------------------------------------------
Errors ==
  {"SOURCE_TOO_LARGE", "SOURCE_READ_FAILED",
   "MISSING_HTML_ROOT", "MIME_NESTING_TOO_DEEP", "TOO_MANY_MIME_PARTS", "INVALID_MIME",
   "AMBIGUOUS_HTML_ROOT", "UNKNOWN_CHARSET", "HTML_DECODE_FAILED", "HTML_TOO_LARGE",
   "INVALID_TABLE_SPAN", "TOO_MANY_ROWS", "TOO_MANY_COLUMNS", "TOO_MANY_CELLS",
   "INVALID_INPUT", "invalid_header", "duplicate_column", "legacy_column",
   "ambiguous", "conflicting"}

Failed == {reading, mime, spans, naming, mapping} \cap Errors # {}

\* The call returns a report, a schema to load, or raises.
Return ==
  /\ \/ Failed
     \/ spans = "tables"
     \/ naming = "created"
  /\ returned' = "nothing"
  /\ ForgetSource /\ ForgetMessage /\ ForgetTables
  /\ ForgetNames /\ ForgetTypes /\ ForgetComments

Step ==
  \/ ReaderNext /\ ReadStep
  \/ MimeNext /\ MimeStep
  \/ SpansNext /\ SpanStep
  \/ NamesNext /\ MappingSettled /\ NameStep
  \/ CommentsNext /\ CommentStep

Next ==
  \/ BeginInspection \/ SourceReturned \/ ParseSource \/ HtmlReturned \/ ExtractTables
  \/ BeginConversion \/ TypesReturned \/ NameColumns \/ MapColumns
  \/ Step /\ UNCHANGED returned
  \/ Return

Spec == Init /\ [][Next]_vars

=============================================================================
