---------------------------- MODULE ColumnTypes ----------------------------
(***************************************************************************)
(* The type of a column from the strings of its cells, inferred twice: by  *)
(* infer_pg_type for a load, generously, and by _infer_type for a schema   *)
(* proposal, conservatively and with regard to what the header means.      *)
(*                                                                         *)
(* Data: a string is its kind, one for each way the recognizers of the two *)
(* modules tell strings apart: what it is written as, and marks for what   *)
(* else it may be read as.  Blank cells are skipped by both.               *)
(***************************************************************************)
EXTENDS Naturals

CONSTANTS
  ColumnValues   \* the sets of kinds that columns hold

\* Marks: leading zeroes; also a date, a date of eight digits, a time; beyond
\* 64 bits, or only written with more digits than those have.  Grouped stands
\* for integers with thousands or with digits that are not ASCII.
Written(forms, marks) == [form : forms, marks : marks \cup {m \cup {"zero"} : m \in marks}]
Kinds ==
  [form : {"true", "yes"}, marks : {{}}]
    \cup Written({"iso_date", "date", "timestamp", "time", "text"}, {{}})
    \cup Written({"digits"}, {m \cup t : m \in {{}, {"date"}, {"compact"}, {"wide"}},
                                        t \in {{}, {"time"}}})
    \cup [form : {"digits"}, marks : {{"zero", "long"}, {"zero", "long", "time"}}]
    \cup Written({"grouped"}, SUBSET {"date", "time"})
    \cup Written({"decimal"}, {{}, {"date"}, {"time"}})
    \cup Written({"number"}, {{}, {"date"}})

ASSUME TypesAssumption == ColumnValues \subseteq SUBSET Kinds

Form(forms) == {k \in Kinds : k.form \in forms}
Marked(marks) == {k \in Kinds : k.marks \cap marks # {}}

VARIABLES
  typing,    \* "idle" or "typed"
  values,    \* the kinds of the strings in the column
  meaning,   \* what the header's words suggest
  proposed,  \* type in the schema proposal
  inferred   \* type of the column of a load

typeVars == <<typing, values, meaning, proposed, inferred>>

Meanings == SUBSET {"identifier", "date"}

TypesIdle ==
  /\ typing = "idle" /\ values = {} /\ meaning = {}
  /\ proposed = "TEXT" /\ inferred = "TEXT"

ForgetTypes ==
  /\ typing' = "idle" /\ values' = {} /\ meaning' = {}
  /\ proposed' = "TEXT" /\ inferred' = "TEXT"

-----------------------------------------------------------------------------
(* schema_inference: which kinds each recognizer accepts.                  *)

_is_bool == Form({"true", "yes"})
_is_int == Form({"digits", "grouped"}) \ Marked({"wide"})
_is_numeric == Form({"digits", "grouped", "decimal", "number"})
_is_timestamp == Form({"timestamp"})
_is_date == Form({"iso_date", "date"}) \cup Marked({"date", "compact"})
_is_time == Form({"time"}) \cup Marked({"time"})

\* Mutant: the wider number type is tried first.
NumericFirst ==
  << <<"BOOLEAN", _is_bool>>, <<"NUMERIC", _is_numeric>>, <<"BIGINT", _is_int>>,
     <<"TIMESTAMP", _is_timestamp>>, <<"DATE", _is_date>>, <<"TIME", _is_time>> >>

\* The order in which infer_pg_type tries the types.
Attempts ==
  << <<"BOOLEAN", _is_bool>>, <<"BIGINT", _is_int>>, <<"NUMERIC", _is_numeric>>,
     <<"TIMESTAMP", _is_timestamp>>, <<"DATE", _is_date>>, <<"TIME", _is_time>> >>

\* infer_pg_type: the first type that accepts every value.
InferredType(vals) ==
  LET accepting == {i \in DOMAIN Attempts : vals \subseteq Attempts[i][2]} IN
  IF vals = {} \/ accepting = {} THEN "TEXT"
  ELSE Attempts[CHOOSE i \in accepting : \A j \in accepting : i <= j][1]

-----------------------------------------------------------------------------
(* schema_proposal._infer_type.                                            *)

_BOOLEAN_VALUES == Form({"true"})
_is_valid_date == Form({"iso_date"}) \cup Marked({"compact"})
_has_leading_zero == Marked({"zero"})
_INTEGER_VALUE == Form({"digits"})
_DECIMAL_VALUE == Form({"decimal"})
_fits_signed_bigint == _INTEGER_VALUE \ Marked({"wide", "long"})

ProposedType(vals, hints) ==
  LET identifier == "identifier" \in hints
      keepsText == identifier \/ vals \cap _has_leading_zero # {}
  IN
  IF vals = {} THEN "TEXT"
  ELSE IF vals \subseteq _BOOLEAN_VALUES
    THEN IF identifier THEN "TEXT" ELSE "BOOLEAN"
  ELSE IF vals \subseteq _is_valid_date
    THEN IF "date" \in hints /\ ~identifier THEN "DATE" ELSE "TEXT"
  ELSE IF vals \subseteq _INTEGER_VALUE
    THEN IF keepsText THEN "TEXT"
         ELSE IF vals \subseteq _fits_signed_bigint THEN "BIGINT" ELSE "NUMERIC"
  ELSE IF vals \subseteq _DECIMAL_VALUE
    THEN IF keepsText THEN "TEXT" ELSE "NUMERIC"
  ELSE "TEXT"

-----------------------------------------------------------------------------
\* _column_proposal, and infer_table_schema on the same column.
TypeColumn(vals, hints) ==
  /\ typing' = "typed" /\ values' = vals /\ meaning' = hints
  /\ proposed' = ProposedType(vals, hints)
  /\ inferred' = InferredType(vals)

-----------------------------------------------------------------------------
\* A schema proposal never promises a column a load would make of another
\* kind: the type it proposes is TEXT or the type the load infers from the
\* same cells, though the two modules recognize strings by different code
\* and try types in different orders.  The one exception is a date column
\* whose dates are all written as eight digits, which loads as BIGINT.  And
\* a value keeps its leading zeroes, except as part of a date.
ProposalFitsLoad ==
  /\ proposed \in {"TEXT", inferred}
     \/ (proposed = "DATE" /\ values \subseteq Marked({"compact"}))
  /\ proposed \in {"BIGINT", "NUMERIC"} => values \cap _has_leading_zero = {}
=============================================================================
