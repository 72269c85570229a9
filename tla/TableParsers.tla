---------------------------- MODULE TableParsers ----------------------------
(***************************************************************************)
(* Both parsers read the same document.  What is loaded comes from         *)
(* LoadingParser by way of extract_primary_table and                       *)
(* validate_extracted_table; the schema proposal comes from                *)
(* InspectionParser by way of extract_tables and _extract_proposal_table.  *)
(***************************************************************************)
EXTENDS InspectionParser, LoadingParser, Places

CONSTANTS
  Alphabet,   \* the tokens documents are made of
  MaxTokens,  \* bound on the length of a document
  MaxTexts    \* bound on the number of its texts

ASSUME ParsersAssumption ==
  /\ Alphabet \subseteq Tokens
  /\ "document" \notin Containers  \* it names the outermost level, see Innermost
  /\ {MaxTokens, MaxTexts, MaxTables, MaxRows, MaxCells, MaxText} \subseteq Nat

VARIABLES
  read,      \* number of tokens read
  texts,     \* number of texts read
  unclosed,  \* start tags of each container less the end tags that match
  inert,     \* the texts inside a container
  widths,    \* width of the cell that each text belongs to, if it has one
  open       \* the open elements of a regular document

document == <<read, texts, unclosed, inert, widths, open>>
vars == <<inspected, collected, document>>

Init ==
  /\ InspectionInit /\ LoadingInit
  /\ read = 0 /\ texts = 0 /\ unclosed = [c \in Containers |-> 0]
  /\ inert = {} /\ widths = <<>> /\ open = <<>>

HasText(t) ==
  t.kind = "data" \/ (t.kind \in {"start", "empty"} /\ t.tag = "td" /\ t.x_str)
SpanOf(t) == IF t.kind = "data" THEN attrs.colspan ELSE t.colspan

Unclosed(t) ==
  IF t.kind \notin {"start", "end"} \/ t.tag \notin Containers THEN unclosed
  ELSE IF t.kind = "start" THEN [unclosed EXCEPT ![t.tag] = @ + 1]
  ELSE [unclosed EXCEPT ![t.tag] = IF @ > 0 THEN @ - 1 ELSE 0]

\* One token, of any document.
Token(t) ==
  /\ read < MaxTokens
  /\ HasText(t) => texts < MaxTexts
  /\ Inspect(t, texts + 1) /\ Read(t, texts + 1)
  /\ read' = read + 1
  /\ texts' = IF HasText(t) THEN texts + 1 ELSE texts
  /\ unclosed' = Unclosed(t)
  /\ inert' = IF t.kind = "data" /\ \E c \in Containers : unclosed[c] > 0
                THEN inert \cup {texts + 1} ELSE inert
  /\ widths' = IF HasText(t) THEN Append(widths, Width(SpanOf(t))) ELSE widths

Next == \E t \in Alphabet : Token(t) /\ UNCHANGED open
Spec == Init /\ [][Next]_vars

-----------------------------------------------------------------------------
\* Regular documents: all end tags are present, tables are not nested, text
\* of a cell is outside containers, spans are positive, values are text.
Innermost == IF open = <<>> THEN "document" ELSE Last(open)
Parent == [table |-> "document", tr |-> "table"]

Regular(t) ==
  CASE t.kind = "data" -> ~(Innermost \in Containers /\ "td" \in Range(open))
    [] t.kind = "empty" -> FALSE
    [] t.kind = "end" -> t.tag = Innermost
    [] t.kind = "start" /\ t.tag = "td" ->
         Innermost = "tr" /\ t.colspan \in 1..MaxColSpan /\ ~t.x_str
    [] t.kind = "start" /\ t.tag \in Containers -> TRUE
    [] OTHER -> Innermost = Parent[t.tag]

Follow(t) ==
  open' = CASE t.kind = "start" -> Append(open, t.tag)
            [] t.kind = "end" -> Front(open)
            [] OTHER -> open

RegularToken(t) == Regular(t) /\ Token(t) /\ Follow(t)

RegularNext == \E t \in Alphabet : RegularToken(t)
RegularSpec == Init /\ [][RegularNext]_vars

\* The same with text everywhere, as in a page whose cells hold scripts.
WellFormedNext ==
  \E t \in Alphabet :
    (Regular(t) \/ t.kind = "data") /\ Token(t) /\ Follow(t)
WellFormedSpec == Init /\ [][WellFormedNext]_vars

-----------------------------------------------------------------------------
\* extract_tables, for tables without rowspan and within the limits of the
\* projection: cells repeated for each column they span, rows padded.
Expand(row) == FlattenSeq([i \in DOMAIN row |->
                             [k \in 1..row[i].colspan |-> row[i].text]])
Expanded(table) == [r \in DOMAIN table |-> Expand(table[r])]
Blank(row) == \A i \in DOMAIN row : row[i] = <<>>
WidestOf(rows) == CHOOSE w \in {Len(rows[r]) : r \in DOMAIN rows} :
                    \A r \in DOMAIN rows : Len(rows[r]) <= w
Padded(rows) == [r \in DOMAIN rows |->
  [i \in 1..WidestOf(rows) |-> IF i <= Len(rows[r]) THEN rows[r][i] ELSE <<>>]]
NotBlank(rows) ==
  LET kept == {r \in DOMAIN rows : ~Blank(rows[r])} IN
  [n \in 1..Cardinality(kept) |-> rows[Nth(n, kept)]]

\* _extract_proposal_table: the only table, its header the first row with text.
CanPropose == ~rejected /\ Len(tables) = 1 /\ NotBlank(Expanded(tables[1])) # <<>>
ProposalRows == Padded(Expanded(tables[1]))
HeaderIndex == CHOOSE i \in DOMAIN ProposalRows :
  ~Blank(ProposalRows[i]) /\ \A j \in 1..(i - 1) : Blank(ProposalRows[j])
ProposalHeader == ProposalRows[HeaderIndex]
ProposalData == RemoveAt(ProposalRows, HeaderIndex)

\* Mutant: blank rows are kept, as the proposal keeps them.
EveryRow(table) == [header |-> Head(table), rows |-> Tail(table)]

\* extract_tables_from_html: the first row is the header (the names it gives
\* to blank cells are left out), blank rows are dropped, and a table whose
\* first row is blank is passed over.
Extracted(table) == [header |-> Head(table), rows |-> NotBlank(Tail(table))]
Usable == {i \in DOMAIN loaded : loaded[i] # <<>> /\ ~Blank(Head(loaded[i]))}

\* extract_primary_table: the largest, the first of several.
Area(t) == Len(t.header) * (IF t.rows = <<>> THEN 1 ELSE Len(t.rows))
Primary == LET largest == {i \in Usable : \A j \in Usable :
                             Area(Extracted(loaded[j])) <= Area(Extracted(loaded[i]))}
           IN Extracted(loaded[CHOOSE i \in largest : \A j \in largest : i <= j])

\* validate_extracted_table: at least one row, all as wide as the header.
CanLoad ==
  /\ ~failed /\ Usable # {}
  /\ Primary.rows # <<>>
  /\ \A r \in DOMAIN Primary.rows : Len(Primary.rows[r]) = Len(Primary.header)
-----------------------------------------------------------------------------
\* The texts of all cells, cell after cell.
CellTexts(rows) == FlattenSeq([r \in DOMAIN rows |->
                     FlattenSeq([i \in DOMAIN rows[r] |-> rows[r][i].text])])
InspectedTexts == FlattenSeq([k \in DOMAIN tables |-> CellTexts(tables[k])])

\* The same for the loading parser, equal values side by side read once (a
\* cell that spans columns).
RowTexts(row) == FlattenSeq([i \in DOMAIN row |->
                   IF i > 1 /\ row[i] = row[i - 1] THEN <<>> ELSE row[i]])
TableTexts(rows) == FlattenSeq([r \in DOMAIN rows |-> RowTexts(rows[r])])
LoadedTexts == FlattenSeq([k \in DOMAIN loaded |-> TableTexts(loaded[k])])
                 \o TableTexts(cur_table)
                 \o (IF in_tr THEN RowTexts(cur_row) ELSE <<>>)
                 \o (IF in_td THEN cur_cell ELSE <<>>)

Increasing(s) == \A i, j \in DOMAIN s : i < j => s[i] < s[j]

\* Each value stands side by side in as many columns as its cell spans, and
\* nowhere else in the row.
Spanned(row, ws) ==
  \A i \in DOMAIN row : row[i] # <<>> =>
    /\ Head(row[i]) \in DOMAIN ws
    /\ \E a \in DOMAIN row :
         {j \in DOMAIN row : row[j] = row[i]} = a..(a + ws[Head(row[i])] - 1)
SpannedRows(rows, ws) == \A r \in DOMAIN rows : Spanned(rows[r], ws)

-----------------------------------------------------------------------------
\* Inspection never shows a text that is inside a suppressed container, for
\* any nesting and with any mismatched end tags (the exact nesting stack of
\* handle_starttag and handle_endtag).
InertNotInspected ==
  \A k \in DOMAIN tables : \A r \in DOMAIN tables[k] :
    \A i \in DOMAIN tables[k][r] : Range(tables[k][r][i].text) \cap inert = {}

\* In any document each text is in at most one cell, in the order of the
\* document: leftovers of a cell or row whose end tag is missing are neither
\* repeated nor moved before earlier ones, and what is loaded of a cell stands
\* in exactly the columns the cell spans.
TextPlacedOnce ==
  /\ Increasing(InspectedTexts) /\ Increasing(LoadedTexts)
  /\ \A k \in DOMAIN loaded : SpannedRows(loaded[k], widths)
  /\ SpannedRows(cur_table, widths) /\ Spanned(cur_row, widths)

\* Regular documents that inspection does not reject: between tables both
\* parsers have read the same tables, though one enters rows and cells when
\* they start and the other when they end.
ParsersAgree ==
  open = <<>> /\ ~rejected =>
    /\ ~failed
    /\ loaded = [k \in DOMAIN tables |-> Expanded(tables[k])]

\* A schema proposed for a regular document describes what is loaded from it:
\* the same header and rows, but for blank rows and blank columns to the
\* right.
ProposalDescribesLoad ==
  open = <<>> /\ CanPropose /\ CanLoad =>
    LET width == Len(Primary.header)
        Described(row) == SubSeq(row, 1, width)
    IN /\ width <= Len(ProposalHeader)
       /\ Described(ProposalHeader) = Primary.header
       /\ NotBlank([i \in DOMAIN ProposalData |-> Described(ProposalData[i])])
            = Primary.rows
       /\ \A i \in DOMAIN ProposalRows :
            Blank(SubSeq(ProposalRows[i], width + 1, Len(ProposalHeader)))

\* docs/ARCHITECTURE.md:39 and docs/TRD.md:78: both table modules leave out
\* the content of suppressed containers; no finished table has a text of one.
InertNotLoaded ==
  \A k \in DOMAIN loaded : Range(TableTexts(loaded[k])) \cap inert = {}
=============================================================================
