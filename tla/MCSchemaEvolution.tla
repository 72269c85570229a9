------------------------- MODULE MCSchemaEvolution -------------------------
(* Instances of SchemaEvolution for TLC. *)
EXTENDS SchemaEvolution

CONSTANTS w1, w2, dates, mixed

TwoWorkers == {w1, w2}
TwoLoads == {dates, mixed}

FourColumns == {"x", "x_2", "x_field", "x_field_2"}
Shape(x, x2, field, field2) ==
  [x |-> x, x_2 |-> x2, x_field |-> field, x_field_2 |-> field2]

\* `dates' has the headers X and X, which are x_field and x_field_2 now and
\* were x and x_2; `mixed' has X Field and X 2, which are called as they were.
\* The loads have other types for the column they share, and `mixed' has a
\* cell there that is outside the sampled type.
MCInferred == [l \in TwoLoads |->
  IF l = dates THEN Shape(Absent, Absent, "DATE", "DATE")
               ELSE Shape(Absent, "BIGINT", "BIGINT", Absent)]
MCOdd == [l \in TwoLoads |-> IF l = mixed THEN {"x_field"} ELSE {}]
MCLegacy == [l \in TwoLoads |->
  IF l = dates
    THEN [k \in FourColumns |-> CASE k = "x_field" -> "x"
                                  [] k = "x_field_2" -> "x_2"
                                  [] OTHER -> k]
    ELSE [k \in FourColumns |-> k]]

\* No table yet, one with columns less, and those an earlier release made of
\* the headers X, X and X Field, X 2.
MCTables == {Shape(Absent, Absent, Absent, Absent),
             Shape(Absent, Absent, "BIGINT", Absent),
             Shape("TEXT", "TEXT", Absent, Absent),
             Shape(Absent, "BIGINT", "BIGINT", Absent)}
=============================================================================
