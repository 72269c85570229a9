--------------------------- MODULE MCTableParsers ---------------------------
(* Instances of TableParsers for TLC. *)
EXTENDS TableParsers

Text(colspan) == [colspan |-> colspan, x_str |-> FALSE]

\* Cells that span columns, wrong spans, and the spreadsheet text attribute.
RegularCells == {Text(1), Text(2)}
WildCells == {Text(1), Text(0), Text(NotANumber), [colspan |-> 2, x_str |-> TRUE]}
PlainCells == {Text(1)}

AnyToken == Tokens

\* What a regular document can hold.
RegularTokens == {t \in Tokens : t.kind # "empty"}
=============================================================================
