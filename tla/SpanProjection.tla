--------------------------- MODULE SpanProjection ---------------------------
(***************************************************************************)
(* extract_tables: cells that span rows and columns are expanded into      *)
(* rectangular tables.  Before anything is allocated, _project_table_shape *)
(* computes the size the table will have and refuses spans that overlap or *)
(* exceed a budget; _expand_table then builds the rows.  The two walk the  *)
(* source rows by separate code.                                           *)
(*                                                                         *)
(* Data: a raw table is a sequence of rows, a row a sequence of spans; the *)
(* c-th cell of row r is named <<r, c>>, its text is left out.  Columns    *)
(* count from 0 as in the code.                                            *)
(***************************************************************************)
EXTENDS Naturals, Sequences, FiniteSets, SequencesExt

CONSTANTS
  MaxRows,        \* ParseLimits.max_rows_per_table
  MaxColumns,     \* ParseLimits.max_columns_per_table
  MaxTotalCells,  \* ParseLimits.max_total_cells
  RawDocuments    \* the raw tables of the documents _TableParser reads

Positive == Nat \ {0}
RawTables == Seq(Seq([rowspan : Positive, colspan : Positive]))

ASSUME LimitsAssumption == {MaxRows, MaxColumns, MaxTotalCells} \subseteq Positive

\* _span_value refuses a span below one, handle_starttag a row too many.
ASSUME RawAssumption ==
  /\ RawDocuments \subseteq Seq(RawTables)
  /\ \A document \in RawDocuments : \A t \in DOMAIN document : Len(document[t]) <= MaxRows

VARIABLES
  spans,      \* what runs next, "tables" when done, or the error
  raw,        \* the raw tables of the document
  table,      \* index of the table being extracted
  row,        \* source rows processed
  pending,    \* column -> rows and cell still to be carried down
  max_width,  \* widest row so far
  projected,  \* rows and width _project_table_shape returned
  grid,       \* normalized_rows
  total       \* cells of the tables extracted

spanVars == <<spans, raw, table, row, pending, max_width, projected, grid, total>>

Nothing == [k \in {} |-> 0]
Largest(S) == IF S = {} THEN 0 ELSE CHOOSE n \in S : \A m \in S : m <= n
Columns(carried) == DOMAIN carried
Ends(carried) == {k + 1 : k \in Columns(carried)}

SpansIdle ==
  /\ spans = "idle" /\ raw = <<>> /\ table = 0 /\ row = 0 /\ pending = Nothing
  /\ max_width = 0 /\ projected = <<0, 0>> /\ grid = <<>> /\ total = 0

ForgetTables ==
  /\ spans' = "idle" /\ raw' = <<>> /\ table' = 0 /\ row' = 0 /\ pending' = Nothing
  /\ max_width' = 0 /\ projected' = <<0, 0>> /\ grid' = <<>> /\ total' = 0

RefuseSpans(error) ==
  /\ spans' = error
  /\ UNCHANGED <<raw, table, row, pending, max_width, projected, grid, total>>

-----------------------------------------------------------------------------
(* _project_table_shape; pending[k] is the number of rows column k is      *)
(* still taken.                                                            *)

\* The first column from `column' on that nothing is carried into.
FreeColumn(carried, column) ==
  CHOOSE k \in column..(column + Cardinality(Columns(carried))) :
    k \notin Columns(carried) /\ \A j \in column..(k - 1) : j \in Columns(carried)

\* Mutant: a carried cell is dropped one row early.
ConsumeEarly(carried, from, to) ==
  [k \in {k \in Columns(carried) : k \notin from..(to - 1) \/ carried[k] > 2} |->
     IF k \in from..(to - 1) THEN carried[k] - 1 ELSE carried[k]]

\* The columns from..to-1 of this row are passed.
Consume(carried, from, to) ==
  [k \in {k \in Columns(carried) : k \notin from..(to - 1) \/ carried[k] > 1} |->
     IF k \in from..(to - 1) THEN carried[k] - 1 ELSE carried[k]]

\* consume_pending_until_free.
Skip(s) ==
  LET free == FreeColumn(s.pending, s.column) IN
  [s EXCEPT !.pending = Consume(@, s.column, free), !.column = free]

\* One cell of the source row with s.above rows above it; s.error is the
\* exception raised.
ProjectCell(s, cell) ==
  LET at == Skip(s)
      taken == at.column..(at.column + cell.colspan - 1)
      wrong == {k \in taken : k \in Columns(at.pending) \/ k >= MaxColumns}
      carried == [k \in Columns(at.pending) \cup (IF cell.rowspan > 1 THEN taken ELSE {}) |->
                    IF k \in taken THEN cell.rowspan - 1 ELSE at.pending[k]]
  IN
  IF s.error # "" THEN s
  ELSE IF s.above + cell.rowspan > MaxRows THEN [s EXCEPT !.error = "TOO_MANY_ROWS"]
  ELSE IF wrong # {}
    THEN [s EXCEPT !.error =
            IF \E k \in wrong \cap Columns(at.pending) : \A j \in wrong : k <= j
              THEN "INVALID_TABLE_SPAN" ELSE "TOO_MANY_COLUMNS"]
  ELSE Skip([at EXCEPT !.pending = carried, !.column = at.column + cell.colspan])

\* The columns behind the last cell of the row.
ProjectRest(s) ==
  LET end == Largest({s.column} \cup Ends(s.pending)) IN
  [s EXCEPT !.pending = Consume(@, s.column, end),
            !.column = IF \E k \in Columns(s.pending) : k >= s.column THEN end ELSE @]

Trailing(carried) == Largest({carried[k] : k \in Columns(carried)})

\* Rows and width of the table if no source row followed.
Shape(rows, width, carried) ==
  <<rows + Trailing(carried), Largest({width} \cup Ends(carried))>>

ProjectRow ==
  LET before == Skip([above |-> row, column |-> 0, pending |-> pending, error |-> ""])
      after == ProjectRest(FoldLeft(ProjectCell, before, raw[table][row + 1]))
      width == Largest({max_width, after.column})
      shape == Shape(row + 1, width, after.pending)
  IN
  /\ spans = "project" /\ row < Len(raw[table])
  /\ IF after.error # "" THEN RefuseSpans(after.error)
     ELSE IF total + shape[1] * shape[2] > MaxTotalCells THEN RefuseSpans("TOO_MANY_CELLS")
     ELSE /\ row' = row + 1 /\ max_width' = width /\ pending' = after.pending
          /\ UNCHANGED <<spans, raw, table, projected, grid, total>>

Projected ==
  /\ spans = "project" /\ row = Len(raw[table])
  /\ projected' = Shape(row, max_width, pending)
  /\ spans' = "expand" /\ row' = 0 /\ pending' = Nothing /\ max_width' = 0
  /\ UNCHANGED <<raw, table, grid, total>>

-----------------------------------------------------------------------------
(* _expand_table; pending[k] is what is left of the cell carried down      *)
(* column k.                                                               *)

Blank == <<>>

\* What the columns from..to-1 of a row show: the cells carried down, and
\* blanks where there is none.
FillRow(carried, from, to) ==
  [k \in 1..(to - from) |->
     IF from + k - 1 \in Columns(carried) THEN carried[from + k - 1].cell ELSE Blank]

\* The columns from..to-1 of this row are passed.
Passed(carried, from, to) ==
  [k \in {k \in Columns(carried) : k \notin from..(to - 1) \/ carried[k].left > 1} |->
     IF k \in from..(to - 1) THEN [carried[k] EXCEPT !.left = @ - 1] ELSE carried[k]]

\* Mutant: filling up the row leaves out the columns without a carried cell.
FillCarried(s, end) ==
  [s EXCEPT !.row = @ \o SelectSeq(FillRow(s.pending, s.column, end),
                                   LAMBDA cell : cell # Blank),
            !.pending = Passed(s.pending, s.column, end),
            !.column = end]

\* The row is filled up to column `end'.
Fill(s, end) ==
  [s EXCEPT !.row = @ \o FillRow(s.pending, s.column, end),
            !.pending = Passed(s.pending, s.column, end),
            !.column = end]

\* fill_pending_until_free.
FillToFree(s) == Fill(s, FreeColumn(s.pending, s.column))

ExpandCell(s, cell) ==
  LET at == FillToFree(s)
      taken == at.column..(at.column + cell.colspan - 1)
      name == <<s.above + 1, s.cell + 1>>
  IN FillToFree([above |-> s.above, cell |-> s.cell + 1,
                 row |-> at.row \o [k \in 1..cell.colspan |-> name],
                 column |-> at.column + cell.colspan,
                 pending |->
                   [k \in Columns(at.pending) \cup (IF cell.rowspan > 1 THEN taken ELSE {}) |->
                      IF cell.rowspan > 1 /\ k \in taken
                        THEN [left |-> cell.rowspan - 1, cell |-> name] ELSE at.pending[k]]])

\* The rest of a row, or a row below the source rows.
FillUp(s) == Fill(s, Largest({s.column} \cup Ends(s.pending)))

NewRow == [above |-> row, cell |-> 0, row |-> <<>>, column |-> 0, pending |-> pending]

AddRow(s) ==
  /\ grid' = Append(grid, s.row)
  /\ pending' = s.pending
  /\ max_width' = Largest({max_width, Len(s.row)})

ExpandRow ==
  /\ spans = "expand" /\ row < Len(raw[table])
  /\ AddRow(FillUp(FoldLeft(ExpandCell, FillToFree(NewRow), raw[table][row + 1])))
  /\ row' = row + 1
  /\ UNCHANGED <<spans, raw, table, projected, total>>

ExpandTrailing ==
  /\ spans = "expand" /\ row = Len(raw[table]) /\ Columns(pending) # {}
  /\ AddRow(FillUp(NewRow))
  /\ UNCHANGED <<spans, raw, table, row, projected, total>>

\* The rows are padded to one width; a table that is not of the projected
\* size is refused.
FinishGrid ==
  /\ spans = "expand" /\ row = Len(raw[table]) /\ Columns(pending) = {}
  /\ grid' = [r \in DOMAIN grid |->
                grid[r] \o [k \in 1..(max_width - Len(grid[r])) |-> Blank]]
  /\ IF <<Len(grid), max_width>> # projected
       THEN spans' = "INVALID_TABLE_SPAN" /\ UNCHANGED total
       ELSE spans' = "table" /\ total' = total + Len(grid) * max_width
  /\ UNCHANGED <<raw, table, row, pending, max_width, projected>>

-----------------------------------------------------------------------------
(* extract_tables.                                                         *)

StartTable(t) ==
  /\ table' = t /\ row' = 0 /\ pending' = Nothing /\ max_width' = 0
  /\ projected' = <<0, 0>> /\ grid' = <<>>
  /\ spans' = "project"

OpenTables(document) ==
  /\ raw' = document /\ total' = 0
  /\ IF document = <<>>
       THEN /\ spans' = "tables" /\ UNCHANGED <<table, row, pending, max_width, projected, grid>>
       ELSE StartTable(1)

NextTable ==
  /\ spans = "table"
  /\ IF table = Len(raw)
       THEN spans' = "tables" /\ UNCHANGED <<table, row, pending, max_width, projected, grid>>
       ELSE StartTable(table + 1)
  /\ UNCHANGED <<raw, total>>

SpansNext ==
  ProjectRow \/ Projected \/ ExpandRow \/ ExpandTrailing \/ FinishGrid \/ NextTable

-----------------------------------------------------------------------------
(* What the spans of a table mean: every cell is a rectangle whose upper   *)
(* left corner is the leftmost place of its row, right of the cell before  *)
(* it, that no earlier rectangle covers.                                   *)

Covers(rectangle, r, k) ==
  /\ r \in rectangle.row..(rectangle.row + rectangle.rowspan - 1)
  /\ k \in rectangle.column..(rectangle.column + rectangle.colspan - 1)

PlaceRectangle(placed, cell) ==
  LET start == Largest({p.column + p.colspan : p \in {p \in Range(placed) : p.row = cell.row}})
      free(k) == ~\E p \in Range(placed) : Covers(p, cell.row, k)
      last == start + Largest({p.column + p.colspan : p \in Range(placed)})
      column == CHOOSE k \in start..last : free(k) /\ \A j \in start..(k - 1) : ~free(j)
  IN Append(placed, [row |-> cell.row, name |-> cell.name, column |-> column,
                     rowspan |-> cell.rowspan, colspan |-> cell.colspan])

SourceCells(rows) ==
  FlattenSeq([r \in DOMAIN rows |-> [c \in DOMAIN rows[r] |->
    [row |-> r, name |-> <<r, c>>, rowspan |-> rows[r][c].rowspan,
     colspan |-> rows[r][c].colspan]]])

Layout(rows) == FoldLeft(PlaceRectangle, <<>>, SourceCells(rows))

Height(rows, layout) ==
  Largest({Len(rows)} \cup {p.row + p.rowspan - 1 : p \in Range(layout)})
Width(layout) == Largest({p.column + p.colspan : p \in Range(layout)})

Overlapping(layout) ==
  \E i, j \in DOMAIN layout :
    /\ i # j
    /\ \E r \in layout[i].row..(layout[i].row + layout[i].rowspan - 1),
          k \in layout[i].column..(layout[i].column + layout[i].colspan - 1) :
            Covers(layout[j], r, k)

\* What the layout has in row r, column k.
At(layout, r, k) ==
  IF \E p \in Range(layout) : Covers(p, r, k)
    THEN (CHOOSE p \in Range(layout) : Covers(p, r, k)).name ELSE Blank

-----------------------------------------------------------------------------
\* A table is refused exactly for what is wrong with its layout, and the
\* size computed without building it is the size of its layout: the
\* projection of _project_table_shape, whose checks run before the last row
\* is read, neither admits a table over a budget nor refuses one within it,
\* and what is built of the table never exceeds that size.
ProjectionExact ==
  table > 0 =>
    LET rows == raw[table]
        layout == Layout(rows)
        size == <<Height(rows, layout), Width(layout)>>
    IN
    /\ spans = "INVALID_TABLE_SPAN" => Overlapping(layout)
    /\ spans = "TOO_MANY_ROWS" => size[1] > MaxRows
    /\ spans = "TOO_MANY_COLUMNS" => size[2] > MaxColumns
    /\ spans = "TOO_MANY_CELLS" => total + size[1] * size[2] > MaxTotalCells
    /\ spans = "expand" /\ row = 0 =>
         /\ projected = size /\ ~Overlapping(layout)
         /\ size[1] <= MaxRows /\ size[2] <= MaxColumns
         /\ total + size[1] * size[2] <= MaxTotalCells
    /\ spans = "expand" =>
         Len(grid) <= size[1] /\ \A r \in DOMAIN grid : Len(grid[r]) <= size[2]

\* Every cell of an extracted table shows in exactly the places its spans
\* give it, and nothing shows anywhere else (_expand_table).
GridExact ==
  spans = "table" =>
    LET layout == Layout(raw[table]) IN
    /\ Len(grid) = Height(raw[table], layout)
    /\ \A r \in DOMAIN grid :
         grid[r] = [k \in 1..Width(layout) |-> At(layout, r, k - 1)]
=============================================================================
