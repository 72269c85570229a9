-------------------------- MODULE InspectionParser --------------------------
(***************************************************************************)
(* _TableParser of html_tables: the tables that are inspected and from     *)
(* which schemas are proposed.  Rows and cells are entered when they       *)
(* start, content of suppressed containers is passed over, and budgets are *)
(* checked before anything is allocated.                                   *)
(***************************************************************************)
EXTENDS HtmlTokens

CONSTANTS MaxTables, MaxRows, MaxCells, MaxText  \* ParseLimits

VARIABLES
  tables,             \* the raw tables: rows of cells [colspan, text]
  current_row,        \* TRUE if the last row is open
  current_cell,       \* <<row, number>> of the open cell, <<>> if none is
  table_depth,        \* 1 in a table
  suppression_stack,  \* the containers that are open
  raw_cell_count,     \* cells of the whole document
  rejected            \* MhtmlGatewayError has been raised

inspected == <<tables, current_row, current_cell, table_depth,
               suppression_stack, raw_cell_count, rejected>>
structure == <<tables, current_row, current_cell, table_depth, raw_cell_count>>

InspectionInit ==
  /\ tables = <<>> /\ current_row = FALSE /\ current_cell = <<>>
  /\ table_depth = 0 /\ suppression_stack = <<>>
  /\ raw_cell_count = 0 /\ rejected = FALSE

Suppressing == suppression_stack # <<>>
Rows == tables[Len(tables)]
\* The parser is of no use afterwards.
Reject == rejected' = TRUE /\ UNCHANGED <<structure, suppression_stack>>
Ignore == UNCHANGED inspected

-----------------------------------------------------------------------------
\* A container opens, also inside another one.
Suppress(tag) ==
  /\ suppression_stack' = Append(suppression_stack, tag)
  /\ UNCHANGED <<structure, rejected>>

StartTable ==
  IF table_depth > 0 \/ Len(tables) >= MaxTables
    THEN Reject
    ELSE /\ table_depth' = 1 /\ tables' = Append(tables, <<>>)
         /\ UNCHANGED <<current_row, current_cell, suppression_stack,
                        raw_cell_count, rejected>>

StartRow ==
  IF Len(Rows) >= MaxRows
    THEN Reject
    ELSE /\ tables' = AppendToLast(tables, <<>>)
         /\ current_row' = TRUE
         /\ UNCHANGED <<current_cell, table_depth, suppression_stack,
                        raw_cell_count, rejected>>

StartCell(colspan) ==
  IF raw_cell_count >= MaxCells \/ colspan < 1
    THEN Reject
    ELSE /\ raw_cell_count' = raw_cell_count + 1
         /\ tables' = [tables EXCEPT ![Len(tables)] =
              AppendToLast(@, [colspan |-> colspan, text |-> <<>>])]
         /\ current_cell' = <<Len(Rows), Len(Rows[Len(Rows)]) + 1>>
         /\ UNCHANGED <<current_row, table_depth, suppression_stack, rejected>>

\* _append_fragment
AddText(n) ==
  LET r == current_cell[1]
      i == current_cell[2]
  IN IF Len(Rows[r][i].text) >= MaxText
       THEN Reject
       ELSE /\ tables' = [tables EXCEPT ![Len(tables)][r][i].text = Append(@, n)]
            /\ UNCHANGED <<current_row, current_cell, table_depth,
                           suppression_stack, raw_cell_count, rejected>>

\* handle_starttag
InspectStart(t) ==
  IF t.tag \in Containers THEN Suppress(t.tag)
  ELSE IF Suppressing THEN Ignore
  ELSE CASE t.tag = "table" -> StartTable
         [] t.tag = "tr" /\ table_depth = 1 -> StartRow
         [] t.tag = "td" /\ table_depth = 1 /\ current_row -> StartCell(t.colspan)
         [] OTHER -> Ignore

\* Mutant: any container's end tag closes the innermost one.
ReleaseAny(tag) ==
  IF tag \in Containers
    THEN /\ suppression_stack' = Front(suppression_stack)
         /\ UNCHANGED <<structure, rejected>>
    ELSE Ignore

\* Only the innermost container can be closed.
Release(tag) ==
  IF tag = Last(suppression_stack)
    THEN /\ suppression_stack' = Front(suppression_stack)
         /\ UNCHANGED <<structure, rejected>>
    ELSE Ignore

EndTable ==
  /\ table_depth' = 0
  /\ current_row' = FALSE /\ current_cell' = <<>>
  /\ UNCHANGED <<tables, suppression_stack, raw_cell_count, rejected>>

EndCell ==
  /\ current_cell' = <<>>
  /\ UNCHANGED <<tables, current_row, table_depth, suppression_stack,
                 raw_cell_count, rejected>>

EndRow ==
  /\ current_row' = FALSE
  /\ UNCHANGED <<tables, current_cell, table_depth, suppression_stack,
                 raw_cell_count, rejected>>

\* handle_endtag
InspectEnd(t) ==
  IF Suppressing THEN Release(t.tag)
  ELSE CASE t.tag = "table" -> EndTable
         [] t.tag = "td" /\ table_depth = 1 -> EndCell
         [] t.tag = "tr" /\ table_depth = 1 -> EndRow
         [] OTHER -> Ignore

\* handle_data
InspectData(n) ==
  IF current_cell # <<>> /\ ~Suppressing THEN AddText(n) ELSE Ignore

\* The next token is t, and n the number of its text, if it has one.
Inspect(t, n) ==
  IF rejected THEN Ignore
  ELSE CASE t.kind = "start" -> InspectStart(t)
         [] t.kind = "empty" -> Ignore  \* handle_startendtag
         [] t.kind = "end" -> InspectEnd(t)
         [] t.kind = "data" -> InspectData(n)
=============================================================================
