--------------------------- MODULE LoadingParser ---------------------------
(***************************************************************************)
(* _TopLevelTableParser of html_table_extractor: the tables that are       *)
(* loaded.  Tables, rows and cells are entered when they end; text is      *)
(* collected while a cell is open, also that of nested tables; colspan is  *)
(* expanded at once.                                                       *)
(***************************************************************************)
EXTENDS HtmlTokens

VARIABLES
  loaded,     \* the finished tables: rows of cell texts
  level,      \* depth of nested tables
  in_tr,      \* a row is open; otherwise _cur_row is None
  in_td,      \* a cell is open
  cur_table,  \* finished rows of the open table
  cur_row,    \* finished cells of the open row
  cur_cell,   \* text of the open cell
  attrs,      \* its colspan, and its x:str text or <<>>
  failed      \* TableExtractError has been raised

collected == <<loaded, level, in_tr, in_td, cur_table, cur_row, cur_cell,
               attrs, failed>>

LoadingInit ==
  /\ loaded = <<>> /\ level = 0 /\ in_tr = FALSE /\ in_td = FALSE
  /\ cur_table = <<>> /\ cur_row = <<>> /\ cur_cell = <<>>
  /\ attrs = [colspan |-> 1, x_str |-> <<>>] /\ failed = FALSE

MaxColSpan == 100000
Pass == UNCHANGED collected
\* The parser is of no use afterwards.
Fail == failed' = TRUE /\ UNCHANGED <<loaded, level, in_tr, in_td, cur_table,
                                     cur_row, cur_cell, attrs>>

-----------------------------------------------------------------------------
BeginTable ==
  /\ level' = level + 1
  /\ cur_table' = IF level = 0 THEN <<>> ELSE cur_table
  /\ UNCHANGED <<loaded, in_tr, in_td, cur_row, cur_cell, attrs, failed>>

BeginRow ==
  /\ in_tr' = TRUE /\ cur_row' = <<>>
  /\ UNCHANGED <<loaded, level, in_td, cur_table, cur_cell, attrs, failed>>

AttrsOf(t, n) ==
  [colspan |-> t.colspan, x_str |-> IF t.x_str THEN <<n>> ELSE <<>>]

BeginCell(t, n) ==
  /\ in_td' = TRUE /\ cur_cell' = <<>>
  /\ attrs' = AttrsOf(t, n)
  /\ UNCHANGED <<loaded, level, in_tr, cur_table, cur_row, failed>>

\* handle_starttag
LoadStart(t, n) ==
  CASE t.tag = "table" -> BeginTable
    [] t.tag = "tr" /\ level = 1 -> BeginRow
    [] t.tag = "td" /\ level = 1 /\ in_tr -> BeginCell(t, n)
    [] OTHER -> Pass

FinishTable ==
  /\ level' = IF level > 0 THEN level - 1 ELSE 0
  /\ loaded' = IF level = 1 THEN Append(loaded, cur_table) ELSE loaded
  /\ cur_table' = IF level = 1 THEN <<>> ELSE cur_table
  /\ UNCHANGED <<in_tr, in_td, cur_row, cur_cell, attrs, failed>>

\* A colspan below 1 counts as 1.
Width(colspan) == IF colspan < 1 THEN 1 ELSE colspan
Unreadable(colspan) == colspan = NotANumber \/ colspan > MaxColSpan
Repeated(value, colspan) == [i \in 1..Width(colspan) |-> value]

\* Mutant: colspan is not expanded.
FinishCellOnce ==
  IF ~in_tr THEN Fail
    ELSE /\ in_td' = FALSE /\ cur_cell' = <<>>
         /\ cur_row' = Append(cur_row, cur_cell)
         /\ UNCHANGED <<loaded, level, in_tr, cur_table, attrs, failed>>

\* Mutant: the cell stays open.
FinishCellOpen ==
  IF ~in_tr \/ Unreadable(attrs.colspan) THEN Fail
    ELSE /\ cur_row' = Append(cur_row, cur_cell)
         /\ UNCHANGED <<loaded, level, in_tr, in_td, cur_table, cur_cell,
                        attrs, failed>>

FinishCell ==
  IF ~in_tr \/ Unreadable(attrs.colspan) THEN Fail
    ELSE /\ in_td' = FALSE /\ cur_cell' = <<>>
         /\ LET value == IF cur_cell = <<>> THEN attrs.x_str ELSE cur_cell
            IN cur_row' = cur_row \o Repeated(value, attrs.colspan)
         /\ UNCHANGED <<loaded, level, in_tr, cur_table, attrs, failed>>

FinishRow ==
  /\ cur_table' = Append(cur_table, cur_row)
  /\ in_tr' = FALSE /\ cur_row' = <<>>
  /\ UNCHANGED <<loaded, level, in_td, cur_cell, attrs, failed>>

\* handle_endtag
LoadEnd(t) ==
  CASE t.tag = "table" -> FinishTable
    [] t.tag = "td" /\ level = 1 /\ in_td -> FinishCell
    [] t.tag = "tr" /\ level = 1 /\ in_tr -> FinishRow
    [] OTHER -> Pass

\* handle_startendtag is inherited: a start and an end.
EmptyTable ==
  /\ loaded' = IF level = 0 THEN Append(loaded, <<>>) ELSE loaded
  /\ cur_table' = IF level = 0 THEN <<>> ELSE cur_table
  /\ UNCHANGED <<level, in_tr, in_td, cur_row, cur_cell, attrs, failed>>

EmptyRow ==
  /\ cur_table' = Append(cur_table, <<>>)
  /\ in_tr' = FALSE /\ cur_row' = <<>>
  /\ UNCHANGED <<loaded, level, in_td, cur_cell, attrs, failed>>

EmptyCell(t, n) ==
  IF Unreadable(t.colspan) THEN Fail
    ELSE /\ in_td' = FALSE /\ cur_cell' = <<>>
         /\ attrs' = AttrsOf(t, n)
         /\ cur_row' = cur_row \o Repeated(AttrsOf(t, n).x_str, t.colspan)
         /\ UNCHANGED <<loaded, level, in_tr, cur_table, failed>>

\* Outside a row the start of a cell is passed over, but its end is that of a
\* cell left open.
LoadEmpty(t, n) ==
  CASE t.tag = "table" -> EmptyTable
    [] t.tag = "tr" /\ level = 1 -> EmptyRow
    [] t.tag = "td" /\ level = 1 /\ in_tr -> EmptyCell(t, n)
    [] t.tag = "td" /\ level = 1 /\ ~in_tr /\ in_td -> FinishCell
    [] OTHER -> Pass

\* handle_data
LoadData(n) ==
  IF in_td /\ level >= 1
    THEN /\ cur_cell' = Append(cur_cell, n)
         /\ UNCHANGED <<loaded, level, in_tr, in_td, cur_table, cur_row, attrs,
                        failed>>
    ELSE Pass

\* The next token is t, and n the number of its text, if it has one.
Read(t, n) ==
  IF failed THEN Pass
  ELSE CASE t.kind = "start" -> LoadStart(t, n)
         [] t.kind = "empty" -> LoadEmpty(t, n)
         [] t.kind = "end" -> LoadEnd(t)
         [] t.kind = "data" -> LoadData(n)
=============================================================================
