------------------------ MODULE SpanProjectionProofs ------------------------
(***************************************************************************)
(* Proofs about SpanProjection for every table and every budget:           *)
(* _project_table_shape refuses a table exactly for what is wrong with its *)
(* layout and computes the size of its layout, and _expand_table draws     *)
(* that layout.                                                            *)
(*                                                                         *)
(* Both walk a row from left to right and remember, column by column, for  *)
(* how many rows a cell above is still to be carried down; the layout      *)
(* knows only rectangles.  The bridge is Carries: while row q is read and  *)
(* the columns before c are passed, a column is carried into exactly when  *)
(* a rectangle laid before covers it in the row it waits for, and its      *)
(* count is the number of rows that rectangle still has.  Walks adds that  *)
(* nothing was left free on the way, so that the next free column is where *)
(* the layout puts the next cell.  ProjectInv and ExpandInv say this of    *)
(* the table being extracted after each of its rows.                       *)
(***************************************************************************)
EXTENDS SpanProjection, PlaceLemmas, SequenceTheorems, FiniteSetTheorems, TLAPS

-----------------------------------------------------------------------------
(* The folds over the cells of a row and of a table, step by step.         *)

LEMMA MaxOfSome ==
  ASSUME NEW n \in Nat, NEW S \in SUBSET (1..n), S # {}
  PROVE  Max(S) \in S /\ \A y \in S : y <= Max(S)
<1>1. PICK i \in S : \A j \in S : j <= i
  BY LastOfSome
<1>2. \A y \in S : i >= y
  BY <1>1
<1> QED BY <1>1, <1>2 DEF Max

\* What the three folds of SpanProjection do with one cell.
StepOf(fold, s, cell) ==
  CASE fold = "place" -> PlaceRectangle(s, cell)
    [] fold = "project" -> ProjectCell(s, cell)
    [] fold = "expand" -> ExpandCell(s, cell)

FoldOf(fold, before, cells) ==
  CASE fold = "place" -> FoldLeft(PlaceRectangle, before, cells)
    [] fold = "project" -> FoldLeft(ProjectCell, before, cells)
    [] fold = "expand" -> FoldLeft(ExpandCell, before, cells)

Folds(fold, before, cells, S, it) ==
  it = [T \in SUBSET S |->
          IF T = {} THEN before
          ELSE StepOf(fold, it[T \ {Max(T)}], cells[Max(T)])]

LEMMA FoldsExists ==
  ASSUME NEW fold, NEW before, NEW cells
  PROVE  \A n \in Nat : \E it : Folds(fold, before, cells, 1..n, it)
<1> DEFINE P == {n \in Nat : \E it : Folds(fold, before, cells, 1..n, it)}
<1>1. 0 \in P
  <2> DEFINE it == [T \in SUBSET (1..0) |-> before]
  <2>1. \A T \in SUBSET (1..0) : T = {}
    OBVIOUS
  <2>2. Folds(fold, before, cells, 1..0, it)
    BY <2>1 DEF Folds
  <2> QED BY <2>2
<1>2. ASSUME NEW n \in Nat, n \in P PROVE n + 1 \in P
  <2>1. PICK it : Folds(fold, before, cells, 1..n, it)
    BY <1>2
  <2> DEFINE last == n + 1
             jt == [T \in SUBSET (1..last) |->
                      IF last \in T THEN StepOf(fold, it[T \ {last}], cells[last]) ELSE it[T]]
  <2>2. \A T \in SUBSET (1..n) : /\ jt[T] = it[T] /\ T \in SUBSET (1..last)
    OBVIOUS
  <2>3. ASSUME NEW T \in SUBSET (1..last)
        PROVE  jt[T] = IF T = {} THEN before
                       ELSE StepOf(fold, jt[T \ {Max(T)}], cells[Max(T)])
    <3>1. CASE last \in T
      <4>1. T # {} /\ T \ {last} \in SUBSET (1..n) /\ \A y \in T : y <= last
        BY <3>1
      <4>2. Max(T) \in T /\ last <= Max(T) /\ Max(T) <= last
        <5>1. last \in Nat
          OBVIOUS
        <5> HIDE DEF last, jt
        <5> QED BY <3>1, <4>1, <5>1, MaxOfSome
      <4>3. Max(T) = last
        <5>1. last \in Nat /\ \A y \in 1..last : y \in Int
          OBVIOUS
        <5>2. Max(T) \in 1..last
          BY <4>2
        <5> HIDE DEF last, jt
        <5> QED BY <4>2, <5>1, <5>2
      <4>4. jt[T] = StepOf(fold, it[T \ {last}], cells[last])
        BY <3>1
      <4>5. jt[T \ {last}] = it[T \ {last}]
        BY <2>2, <4>1
      <4> HIDE DEF jt, last
      <4> QED BY <4>1, <4>3, <4>4, <4>5
    <3>2. CASE last \notin T
      <4>1. T \in SUBSET (1..n) /\ jt[T] = it[T]
        BY <3>2
      <4>2. it[T] = IF T = {} THEN before
                    ELSE StepOf(fold, it[T \ {Max(T)}], cells[Max(T)])
        BY <2>1, <4>1 DEF Folds
      <4>3. T \ {Max(T)} \in SUBSET (1..n)
        BY <4>1
      <4>4. jt[T \ {Max(T)}] = it[T \ {Max(T)}]
        BY <2>2, <4>3
      <4> HIDE DEF jt, last
      <4> QED BY <4>1, <4>2, <4>4
    <3> QED BY <3>1, <3>2
  <2>4. jt = [T \in SUBSET (1..last) |-> jt[T]]
    OBVIOUS
  <2> HIDE DEF jt
  <2>5. Folds(fold, before, cells, 1..last, jt)
    BY <2>3, <2>4 DEF Folds
  <2> QED BY <2>5
<1> HIDE DEF P
<1>3. Nat \subseteq P
  BY <1>1, <1>2, Induction
<1> QED BY <1>3 DEF P

\* g[k] is the value after k cells.
Steps(fold, before, cells, n, g) ==
  /\ g[0] = before
  /\ \A k \in 1..n : g[k] = StepOf(fold, g[k - 1], cells[k])
  /\ FoldOf(fold, before, cells) = g[n]

LEMMA FoldSteps ==
  ASSUME NEW fold \in {"place", "project", "expand"},
         NEW before, NEW cells, NEW n \in Nat, DOMAIN cells = 1..n
  PROVE  \E g : Steps(fold, before, cells, n, g)
<1> DEFINE it == CHOOSE it : Folds(fold, before, cells, 1..n, it)
           g == [k \in 0..n |-> it[1..k]]
<1>1. Folds(fold, before, cells, 1..n, it)
  BY FoldsExists
<1>6. /\ fold = "place" => FoldLeft(PlaceRectangle, before, cells) = it[1..n]
      /\ fold = "project" => FoldLeft(ProjectCell, before, cells) = it[1..n]
      /\ fold = "expand" => FoldLeft(ExpandCell, before, cells) = it[1..n]
  BY DEF FoldLeft, MapThenFoldSet, Folds, StepOf
<1>2. FoldOf(fold, before, cells) = it[1..n]
  <2>1. CASE fold = "place"
    BY <1>6, <2>1 DEF FoldOf
  <2>2. CASE fold = "project"
    BY <1>6, <2>2 DEF FoldOf
  <2>3. CASE fold = "expand"
    BY <1>6, <2>3 DEF FoldOf
  <2> QED BY <2>1, <2>2, <2>3
<1> HIDE DEF it
<1>3. g[0] = before
  <2>1. {} \in SUBSET (1..n) /\ 1..0 = {}
    OBVIOUS
  <2>2. it[{}] = before
    BY <1>1, <2>1 DEF Folds
  <2> QED BY <2>1, <2>2
<1>4. ASSUME NEW k \in 1..n PROVE g[k] = StepOf(fold, g[k - 1], cells[k])
  <2> DEFINE T == 1..k
  <2>1. T \in SUBSET (1..n) /\ T # {} /\ T \in SUBSET (1..k) /\ k \in Nat /\ k \in T
    OBVIOUS
  <2>2. Max(T) \in T /\ k <= Max(T)
    <3> HIDE DEF T
    <3> QED BY <2>1, MaxOfSome
  <2>3. Max(T) = k
    BY <2>2
  <2>4. T \ {k} = 1..(k - 1)
    OBVIOUS
  <2>5. it[T] = StepOf(fold, it[T \ {Max(T)}], cells[Max(T)])
    <3> HIDE DEF T
    <3> QED BY <1>1, <2>1 DEF Folds
  <2>6. it[T] = StepOf(fold, it[1..(k - 1)], cells[k])
    <3> HIDE DEF T
    <3> QED BY <2>3, <2>4, <2>5
  <2>7. g[k] = it[T] /\ g[k - 1] = it[1..(k - 1)]
    OBVIOUS
  <2> HIDE DEF g
  <2> QED BY <2>6, <2>7
<1>5. g[n] = it[1..n]
  OBVIOUS
<1> HIDE DEF g
<1> QED BY <1>2, <1>3, <1>4, <1>5 DEF Steps

-----------------------------------------------------------------------------
(* Least and greatest numbers.                                             *)

LEMMA LeastExists ==
  ASSUME NEW S \in SUBSET Nat, S # {}
  PROVE  \E m \in S : \A k \in S : m <= k
<1> SUFFICES ASSUME \A m \in S : \E k \in S : ~(m <= k) PROVE FALSE
  OBVIOUS
<1> DEFINE P == {n \in Nat : \A k \in 0..n : k \notin S}
<1>1. 0 \in P
  OBVIOUS
<1>2. ASSUME NEW n \in Nat, n \in P PROVE n + 1 \in P
  <2>1. \A k \in 0..(n + 1) : k \in 0..n \/ k = n + 1
    OBVIOUS
  <2>2. \A k \in S : k \notin 0..n
    BY <1>2
  <2>3. \A k \in S : n + 1 <= k
    BY <2>2
  <2> QED BY <1>2, <2>1, <2>3
<1> HIDE DEF P
<1>3. Nat \subseteq P
  BY <1>1, <1>2, Induction
<1>4. PICK n \in S : TRUE
  OBVIOUS
<1>5. n \in P /\ n \in 0..n
  BY <1>3
<1> QED BY <1>4, <1>5 DEF P

LEMMA GreatestExists ==
  ASSUME NEW S \in SUBSET Nat, S # {}, NEW b \in Nat, \A k \in S : k <= b
  PROVE  \E m \in S : \A k \in S : k <= m
<1> DEFINE U == {u \in Nat : \A k \in S : k <= u}
<1>1. U \in SUBSET Nat /\ U # {}
  OBVIOUS
<1>2. PICK u \in U : \A k \in U : u <= k
  <2> HIDE DEF U
  <2> QED BY <1>1, LeastExists
<1>3. CASE u \in S
  BY <1>2, <1>3
<1>4. CASE u \notin S
  <2>1. u \in Nat /\ \A k \in S : k <= u /\ k # u /\ k \in Nat
    BY <1>2, <1>4
  <2>2. u > 0
    <3>1. PICK k \in S : TRUE
      OBVIOUS
    <3>2. k \in Nat /\ k <= u /\ k # u
      BY <2>1
    <3> QED BY <2>1, <3>2
  <2>3. u - 1 \in Nat /\ \A k \in S : k <= u - 1
    BY <2>1, <2>2
  <2>4. u <= u - 1
    BY <1>2, <2>3
  <2> QED BY <2>1, <2>4
<1> QED BY <1>3, <1>4

LEMMA LargestIs ==
  ASSUME NEW S \in SUBSET Nat, NEW b \in Nat, \A k \in S : k <= b
  PROVE  /\ Largest(S) \in Nat /\ \A k \in S : k <= Largest(S)
         /\ S = {} => Largest(S) = 0
         /\ S # {} => Largest(S) \in S
<1>1. CASE S = {}
  BY <1>1 DEF Largest
<1>2. CASE S # {}
  <2>1. \E m \in S : \A k \in S : k <= m
    BY <1>2, GreatestExists
  <2>2. Largest(S) = CHOOSE n \in S : \A m \in S : m <= n
    BY <1>2 DEF Largest
  <2> QED BY <1>2, <2>1, <2>2
<1> QED BY <1>1, <1>2

-----------------------------------------------------------------------------
(* Rectangles.                                                             *)

Spans == [rowspan : Positive, colspan : Positive]
Sources == [row : Positive, name : Nat \X Nat, rowspan : Positive, colspan : Positive]
Rectangles == [row : Positive, name : Nat \X Nat, column : Nat,
               rowspan : Positive, colspan : Positive]

Bottom(p) == p.row + p.rowspan - 1
Edge(p) == p.column + p.colspan

LEMMA Rectangle ==
  ASSUME NEW p \in Rectangles
  PROVE  /\ p.row \in Nat /\ p.row >= 1 /\ p.column \in Nat
         /\ p.rowspan \in Nat /\ p.rowspan >= 1 /\ p.colspan \in Nat /\ p.colspan >= 1
         /\ Bottom(p) \in Nat /\ p.row <= Bottom(p)
         /\ Edge(p) \in Nat /\ p.column < Edge(p)
         /\ \A r, k \in Nat :
              Covers(p, r, k) <=> /\ p.row <= r /\ r <= Bottom(p)
                                  /\ p.column <= k /\ k < Edge(p)
<1>1. /\ p.row \in Nat /\ p.row >= 1 /\ p.column \in Nat
      /\ p.rowspan \in Nat /\ p.rowspan >= 1 /\ p.colspan \in Nat /\ p.colspan >= 1
  BY DEF Rectangles, Positive
<1> DEFINE a == p.row
           b == p.rowspan
           c == p.column
           d == p.colspan
<1>2. \A r, k \in Nat : Covers(p, r, k) <=> r \in a..(a + b - 1) /\ k \in c..(c + d - 1)
  BY DEF Covers
<1>3. Bottom(p) = a + b - 1 /\ Edge(p) = c + d
  BY DEF Bottom, Edge
<1>4. a \in Nat /\ a >= 1 /\ c \in Nat /\ b \in Nat /\ b >= 1 /\ d \in Nat /\ d >= 1
  BY <1>1
<1> HIDE DEF a, b, c, d
<1>5. /\ Bottom(p) \in Nat /\ a <= Bottom(p) /\ Edge(p) \in Nat /\ c < Edge(p)
      /\ \A r, k \in Nat : Covers(p, r, k) <=> /\ a <= r /\ r <= Bottom(p) /\ c <= k /\ k < Edge(p)
  BY <1>2, <1>3, <1>4
<1> QED BY <1>1, <1>5 DEF a, c

\* What the first i rectangles take of row q, and where the next cell of this
\* row may start.
Taken(F, i, q, k) == \E j \in 1..i : Covers(F[j], q, k)

IsStart(F, i, q, S) ==
  /\ S \in Nat
  /\ \A j \in 1..i : F[j].row = q => Edge(F[j]) <= S
  /\ S = 0 \/ \E j \in 1..i : F[j].row = q /\ Edge(F[j]) = S

Seated(F, i, q, column) ==
  \E S : /\ IsStart(F, i, q, S) /\ S <= column
         /\ ~Taken(F, i, q, column)
         /\ \A k \in S..(column - 1) : Taken(F, i, q, k)

LEMMA EdgesBounded ==
  ASSUME NEW F \in Seq(Rectangles)
  PROVE  \E b \in Nat : \A j \in 1..Len(F) : Edge(F[j]) <= b /\ Bottom(F[j]) <= b
<1> DEFINE P == {n \in Nat : n <= Len(F) =>
                   \E b \in Nat : \A j \in 1..n : Edge(F[j]) <= b /\ Bottom(F[j]) <= b}
<1>1. 0 \in P
  OBVIOUS
<1>2. ASSUME NEW n \in Nat, n \in P PROVE n + 1 \in P
  <2> SUFFICES ASSUME n + 1 <= Len(F)
               PROVE  \E b \in Nat : \A j \in 1..(n + 1) : Edge(F[j]) <= b /\ Bottom(F[j]) <= b
    OBVIOUS
  <2>1. PICK b \in Nat : \A j \in 1..n : Edge(F[j]) <= b /\ Bottom(F[j]) <= b
    BY <1>2
  <2>2. /\ \A j \in 1..(n + 1) : F[j] \in Rectangles /\ (j \in 1..n \/ j = n + 1)
        /\ n + 1 \in 1..(n + 1)
    OBVIOUS
  <2>3. \A j \in 1..(n + 1) : Edge(F[j]) \in Nat /\ Bottom(F[j]) \in Nat
    BY <2>2, Rectangle
  <2>4. PICK c \in Nat : c = b + Edge(F[n + 1]) + Bottom(F[n + 1])
    BY <2>2, <2>3
  <2>5. ASSUME NEW j \in 1..(n + 1) PROVE Edge(F[j]) <= c /\ Bottom(F[j]) <= c
    <3>1. CASE j \in 1..n
      BY <2>1, <2>2, <2>3, <2>4, <3>1
    <3>2. CASE j = n + 1
      BY <2>2, <2>3, <2>4, <3>2
    <3> QED BY <2>2, <3>1, <3>2
  <2> QED BY <2>5
<1> HIDE DEF P
<1>3. Nat \subseteq P
  BY <1>1, <1>2, Induction
<1>4. Len(F) \in P /\ Len(F) \in Nat
  BY <1>3
<1> QED BY <1>4 DEF P

LEMMA PlaceOne ==
  ASSUME NEW F \in Seq(Rectangles), NEW cell \in Sources
  PROVE  \E p \in Rectangles :
           /\ PlaceRectangle(F, cell) = Append(F, p)
           /\ p.row = cell.row /\ p.name = cell.name
           /\ p.rowspan = cell.rowspan /\ p.colspan = cell.colspan
           /\ Seated(F, Len(F), cell.row, p.column)
<1> DEFINE n == Len(F)
           q == cell.row
           same == {p \in Range(F) : p.row = q}
           starts == {p.column + p.colspan : p \in same}
           ends == {p.column + p.colspan : p \in Range(F)}
           start == Largest(starts)
           last == start + Largest(ends)
           free(k) == ~\E p \in Range(F) : Covers(p, q, k)
           column == CHOOSE k \in start..last : free(k) /\ \A j \in start..(k - 1) : ~free(j)
<1>1. /\ n \in Nat /\ DOMAIN F = 1..n /\ \A j \in 1..n : F[j] \in Rectangles
      /\ q \in Nat /\ \A p \in Range(F) : p \in Rectangles /\ \E j \in 1..n : p = F[j]
      /\ \A j \in 1..n : F[j] \in Range(F)
  BY DEF Range, Sources, Positive
<1>2. PICK b \in Nat : \A j \in 1..n : Edge(F[j]) <= b
  BY EdgesBounded
<1> HIDE DEF n, q
<1>3. /\ starts \in SUBSET Nat /\ ends \in SUBSET Nat
      /\ \A k \in starts : k <= b /\ \E j \in 1..n : F[j].row = q /\ Edge(F[j]) = k
      /\ \A k \in ends : k <= b
      /\ \A j \in 1..n : Edge(F[j]) \in ends /\ (F[j].row = q => Edge(F[j]) \in starts)
  BY <1>1, <1>2, Rectangle DEF Edge
<1> HIDE DEF starts, ends
<1>4. /\ start \in Nat /\ \A k \in starts : k <= start
      /\ starts = {} => start = 0
      /\ starts # {} => start \in starts
      /\ Largest(ends) \in Nat /\ \A k \in ends : k <= Largest(ends)
  BY <1>3, LargestIs
<1>5. IsStart(F, n, q, start)
  BY <1>3, <1>4 DEF IsStart
<1>6. \A k \in Nat : free(k) <=> ~Taken(F, n, q, k)
  BY <1>1 DEF Taken
<1> HIDE DEF start
<1>7. last \in Nat /\ start <= last /\ ~Taken(F, n, q, last)
  <2>1. last \in Nat /\ start <= last /\ Largest(ends) <= last
    BY <1>4
  <2>2. \A j \in 1..n : Edge(F[j]) <= last /\ Edge(F[j]) \in Nat
    BY <1>1, <1>3, <1>4, <2>1, Rectangle
  <2> HIDE DEF last
  <2>3. \A j \in 1..n : ~Covers(F[j], q, last)
    <3> TAKE j \in 1..n
    <3>1. F[j] \in Rectangles /\ Edge(F[j]) <= last /\ Edge(F[j]) \in Nat
      BY <1>1, <2>2
    <3>2. Covers(F[j], q, last) => last < Edge(F[j])
      BY <1>1, <2>1, <3>1, Rectangle
    <3> QED BY <2>1, <3>1, <3>2
  <2> QED BY <2>1, <2>3 DEF Taken
<1> HIDE DEF last, free
<1>8. \E k \in start..last : free(k) /\ \A j \in start..(k - 1) : ~free(j)
  <2> DEFINE S == {k \in start..last : free(k)}
  <2>1. S \in SUBSET Nat /\ S # {}
    BY <1>4, <1>6, <1>7
  <2>2. PICK k \in S : \A j \in S : k <= j
    <3> HIDE DEF S
    <3> QED BY <2>1, LeastExists
  <2>3. k \in start..last /\ free(k)
    BY <2>2
  <2>4. \A j \in start..(k - 1) : j \in start..last /\ ~(k <= j)
    BY <1>4, <1>7, <2>3
  <2>5. \A j \in start..(k - 1) : ~free(j)
    BY <2>2, <2>4
  <2> QED BY <2>3, <2>5
<1>9. column \in start..last /\ free(column) /\ \A j \in start..(column - 1) : ~free(j)
  BY <1>8
<1> DEFINE p == [row |-> q, name |-> cell.name, column |-> column,
                 rowspan |-> cell.rowspan, colspan |-> cell.colspan]
<1>10. PlaceRectangle(F, cell) = Append(F, p)
  BY DEF PlaceRectangle, column, free, start, last, starts, ends, same, q
<1> HIDE DEF column
<1>11. column \in Nat /\ start <= column
  BY <1>4, <1>7, <1>9
<1>12. ~Taken(F, n, q, column) /\ \A j \in start..(column - 1) : Taken(F, n, q, j)
  <2>1. \A j \in start..(column - 1) : j \in Nat
    BY <1>4, <1>11
  <2> QED BY <1>6, <1>9, <1>11, <2>1
<1>13. Seated(F, n, q, column)
  BY <1>5, <1>11, <1>12 DEF Seated
<1>14. p \in Rectangles
  BY <1>11 DEF Rectangles, Sources, q
<1>15. p.row = q /\ p.name = cell.name /\ p.rowspan = cell.rowspan /\ p.colspan = cell.colspan
       /\ p.column = column
  OBVIOUS
<1> HIDE DEF p
<1> QED BY <1>10, <1>13, <1>14, <1>15 DEF q, n

LEMMA SeqOfFunction ==
  ASSUME NEW X, NEW n \in Nat, NEW f \in [1..n -> X]
  PROVE  f \in Seq(X) /\ Len(f) = n /\ DOMAIN f = 1..n
OBVIOUS

-----------------------------------------------------------------------------
(* The layout: the rectangles of all cells, row after row.                 *)

SourceOf(rows, r, c) ==
  [row |-> r, name |-> <<r, c>>, rowspan |-> rows[r][c].rowspan,
   colspan |-> rows[r][c].colspan]

Offsets(rows, off) ==
  /\ off[0] = 0
  /\ \A r \in 0..Len(rows) : off[r] \in Nat /\ off[r] <= off[Len(rows)]
  /\ \A r \in 1..Len(rows) : off[r] = off[r - 1] + Len(rows[r])

LEMMA SourcesInOrder ==
  ASSUME NEW rows \in RawTables
  PROVE  \E off :
           /\ Offsets(rows, off)
           /\ SourceCells(rows) \in Seq(Sources)
           /\ Len(SourceCells(rows)) = off[Len(rows)]
           /\ \A r \in 1..Len(rows) : \A c \in 1..Len(rows[r]) :
                SourceCells(rows)[off[r - 1] + c] = SourceOf(rows, r, c)
           /\ \A r \in 0..Len(rows) : \A j \in 1..off[Len(rows)] :
                j <= off[r] <=> SourceCells(rows)[j].row <= r
           /\ \A j \in 1..off[Len(rows)] : SourceCells(rows)[j].row <= Len(rows)
<1> DEFINE n == Len(rows)
           ss == [r \in DOMAIN rows |-> [c \in DOMAIN rows[r] |-> SourceOf(rows, r, c)]]
<1>1. /\ n \in Nat /\ DOMAIN rows = 1..n
      /\ \A r \in 1..n : /\ rows[r] \in Seq(Spans) /\ Len(rows[r]) \in Nat
                         /\ DOMAIN rows[r] = 1..Len(rows[r])
  BY DEF RawTables, Spans
<1>2. ASSUME NEW r \in 1..n
      PROVE  /\ ss[r] \in Seq(Sources) /\ Len(ss[r]) = Len(rows[r])
             /\ \A c \in 1..Len(rows[r]) : ss[r][c] = SourceOf(rows, r, c) /\ ss[r][c].row = r
  <2> DEFINE m == Len(rows[r])
             x == [c \in 1..m |-> SourceOf(rows, r, c)]
  <2>1. ss[r] = x
    BY <1>1
  <2>2. ASSUME NEW c \in 1..m PROVE SourceOf(rows, r, c) \in Sources /\ SourceOf(rows, r, c).row = r
    <3>1. rows[r][c] \in Spans /\ r \in Positive /\ r \in Nat /\ c \in Nat
      BY <1>1 DEF Positive
    <3>2. rows[r][c].rowspan \in Positive /\ rows[r][c].colspan \in Positive
      BY <3>1 DEF Spans
    <3>3. <<r, c>> \in Nat \X Nat
      BY <3>1
    <3> QED BY <3>1, <3>2, <3>3 DEF SourceOf, Sources
  <2>3. x \in [1..m -> Sources] /\ \A c \in 1..m : x[c] = SourceOf(rows, r, c)
    BY <2>2
  <2>4. m \in Nat
    BY <1>1
  <2> HIDE DEF x, ss
  <2>5. x \in Seq(Sources) /\ Len(x) = m
    BY <2>3, <2>4, SeqOfFunction
  <2> QED BY <2>1, <2>2, <2>3, <2>5
<1>3. ss \in Seq(Seq(Sources)) /\ Len(ss) = n
  <2>1. ss \in [1..n -> Seq(Sources)]
    BY <1>1, <1>2
  <2> HIDE DEF ss
  <2> QED BY <1>1, <2>1, SeqOfFunction
<1>4. SourceCells(rows) = FlattenSeq(ss)
  BY DEF SourceCells, SourceOf
<1> HIDE DEF ss, n
<1>5. PICK f \in [0..n -> Seq(Sources)] :
        /\ f[0] = <<>> /\ FlattenSeq(ss) = f[n]
        /\ \A r \in 1..n : f[r] = f[r - 1] \o ss[r]
  BY <1>3, FlattenSteps
<1> DEFINE off == [r \in 0..n |-> Len(f[r])]
<1>6. \A r \in 0..n : off[r] \in Nat /\ off[r] = Len(f[r]) /\ f[r] \in Seq(Sources)
  BY <1>5
<1>7. off[0] = 0
  BY <1>1, <1>5
<1> HIDE DEF off
<1>8. ASSUME NEW r \in 1..n
      PROVE  /\ off[r] = off[r - 1] + Len(rows[r]) /\ r - 1 \in 0..n /\ r \in 0..n
             /\ off[r - 1] \in Nat /\ Len(rows[r]) \in Nat
             /\ \A j \in 1..off[r - 1] : f[r][j] = f[r - 1][j]
             /\ \A c \in 1..Len(rows[r]) :
                  f[r][off[r - 1] + c] = SourceOf(rows, r, c) /\ f[r][off[r - 1] + c].row = r
  <2>1. r - 1 \in 0..n /\ r \in 0..n
    BY <1>1
  <2> DEFINE a == f[r - 1]
             b == ss[r]
  <2>2. a \in Seq(Sources) /\ b \in Seq(Sources) /\ f[r] = a \o b
    BY <1>2, <1>5, <2>1
  <2>3. Len(a) = off[r - 1] /\ Len(b) = Len(rows[r]) /\ off[r] = Len(f[r])
    BY <1>2, <1>6, <2>1
  <2> HIDE DEF a, b
  <2>4. /\ Len(a \o b) = Len(a) + Len(b)
        /\ \A j \in 1..(Len(a) + Len(b)) : (a \o b)[j] = IF j <= Len(a) THEN a[j] ELSE b[j - Len(a)]
    BY <2>2, ConcatProperties
  <2>5. Len(a) \in Nat /\ Len(b) \in Nat
    BY <2>2
  <2>6. \A j \in 1..Len(a) : j \in 1..(Len(a) + Len(b)) /\ j <= Len(a)
    BY <2>5
  <2>7. \A c \in 1..Len(b) : /\ Len(a) + c \in 1..(Len(a) + Len(b)) /\ ~(Len(a) + c <= Len(a))
                             /\ (Len(a) + c) - Len(a) = c
    BY <2>5
  <2>8. /\ \A j \in 1..Len(a) : f[r][j] = a[j]
        /\ \A c \in 1..Len(b) : f[r][Len(a) + c] = b[c]
    BY <2>2, <2>4, <2>6, <2>7
  <2>9. \A c \in 1..Len(rows[r]) : b[c] = SourceOf(rows, r, c) /\ b[c].row = r
    BY <1>2 DEF b
  <2>10. off[r] = off[r - 1] + Len(rows[r])
    BY <2>2, <2>3, <2>4
  <2>11. \A j \in 1..off[r - 1] : f[r][j] = f[r - 1][j]
    BY <2>3, <2>8 DEF a
  <2>12. \A c \in 1..Len(rows[r]) : f[r][off[r - 1] + c] = SourceOf(rows, r, c)
                                    /\ f[r][off[r - 1] + c].row = r
    BY <2>3, <2>8, <2>9
  <2> QED BY <2>1, <2>3, <2>5, <2>10, <2>11, <2>12
<1> DEFINE Good(m) ==
      \A r \in 0..m :
        /\ off[r] <= off[m]
        /\ \A j \in 1..off[r] : f[m][j] = f[r][j] /\ f[m][j].row <= r
        /\ \A j \in (off[r] + 1)..off[m] : f[m][j].row > r
      P == {m \in Nat : m <= n => Good(m)}
<1>9. 0 \in P
  <2>1. \A r \in 0..0 : r = 0
    OBVIOUS
  <2> QED BY <1>7, <2>1
<1>10. ASSUME NEW m \in Nat, m \in P PROVE m + 1 \in P
  <2> SUFFICES ASSUME m + 1 <= n PROVE Good(m + 1)
    OBVIOUS
  <2> DEFINE k == m + 1
  <2>1. Good(m) /\ k \in 1..n /\ k - 1 = m /\ m \in 0..n /\ k \in Nat /\ m \in 0..m
    BY <1>1, <1>10
  <2> HIDE DEF k, Good
  <2>2. /\ off[k] = off[m] + Len(rows[k]) /\ off[m] \in Nat /\ Len(rows[k]) \in Nat
        /\ off[k] \in Nat
        /\ \A j \in 1..off[m] : f[k][j] = f[m][j]
        /\ \A c \in 1..Len(rows[k]) : f[k][off[m] + c].row = k
    BY <1>6, <1>8, <2>1
  <2>3. \A j \in (off[m] + 1)..off[k] : f[k][j].row = k
    <3> TAKE j \in (off[m] + 1)..off[k]
    <3>1. j - off[m] \in 1..Len(rows[k]) /\ off[m] + (j - off[m]) = j
      BY <2>2
    <3> QED BY <2>2, <3>1
  <2>4. \A j \in 1..off[m] : f[m][j].row <= m
    BY <2>1 DEF Good
  <2>5. ASSUME NEW r \in 0..m
        PROVE  /\ off[r] <= off[k] /\ off[r] \in Nat
               /\ \A j \in 1..off[r] : f[k][j] = f[r][j] /\ f[k][j].row <= r
               /\ \A j \in (off[r] + 1)..off[k] : f[k][j].row > r
    <3>1. /\ off[r] <= off[m]
          /\ \A j \in 1..off[r] : f[m][j] = f[r][j] /\ f[m][j].row <= r
          /\ \A j \in (off[r] + 1)..off[m] : f[m][j].row > r
      BY <2>1 DEF Good
    <3>2. r \in 0..n /\ off[r] \in Nat /\ r < k
      BY <1>1, <1>6, <2>1
    <3>3. \A j \in 1..off[r] : j \in 1..off[m]
      BY <2>2, <3>1, <3>2
    <3>4. ASSUME NEW j \in (off[r] + 1)..off[k] PROVE f[k][j].row > r
      <4>1. CASE j <= off[m]
        <5>1. j \in (off[r] + 1)..off[m] /\ j \in 1..off[m]
          BY <2>2, <3>2, <4>1
        <5> QED BY <2>2, <3>1, <5>1
      <4>2. CASE ~(j <= off[m])
        <5>1. j \in (off[m] + 1)..off[k]
          BY <2>2, <3>2, <4>2
        <5> QED BY <2>1, <2>3, <3>2, <5>1
      <4> QED BY <4>1, <4>2
    <3>5. off[r] <= off[k]
      BY <2>2, <3>1, <3>2
    <3> QED BY <2>2, <3>1, <3>2, <3>3, <3>4, <3>5
  <2>6. \A j \in 1..off[k] : f[k][j].row <= k
    <3> TAKE j \in 1..off[k]
    <3>1. j \in 1..off[m] \/ j \in (off[m] + 1)..off[k]
      BY <2>2
    <3>2. m <= k /\ \A x \in Positive : x <= m => x <= k
      BY <2>1 DEF Positive
    <3>3. j \in 1..off[m] => f[k][j].row \in Positive
      <4>1. f[k] \in Seq(Sources) /\ Len(f[k]) = off[k] /\ j \in 1..Len(f[k])
        BY <1>6, <2>1
      <4>2. f[k][j] \in Sources
        BY <4>1
      <4> QED BY <4>2 DEF Sources
    <3> QED BY <2>1, <2>2, <2>3, <2>4, <3>1, <3>2, <3>3
  <2>7. \A r \in 0..k : r \in 0..m \/ r = k
    BY <2>1
  <2>8. off[k] <= off[k] /\ \A j \in (off[k] + 1)..off[k] : FALSE
    BY <2>2
  <2>9. Good(k)
    BY <2>5, <2>6, <2>7, <2>8 DEF Good
  <2> QED BY <2>9 DEF k
<1> HIDE DEF P, Good
<1>11. Nat \subseteq P
  BY <1>9, <1>10, Induction
<1>12. Good(n)
  BY <1>1, <1>11 DEF P
<1>13. n \in 0..n /\ Len(f[n]) = off[n] /\ off[n] \in Nat /\ f[n] \in Seq(Sources)
       /\ SourceCells(rows) = f[n]
  BY <1>1, <1>4, <1>5, <1>6
<1>14. Offsets(rows, off)
  BY <1>6, <1>7, <1>8, <1>12 DEF Offsets, Good, n
<1>15. ASSUME NEW r \in 1..n, NEW c \in 1..Len(rows[r])
       PROVE  f[n][off[r - 1] + c] = SourceOf(rows, r, c)
  <2>1. r \in 0..n /\ off[r - 1] + c \in 1..off[r]
    BY <1>8
  <2>2. f[n][off[r - 1] + c] = f[r][off[r - 1] + c]
    BY <1>12, <2>1 DEF Good
  <2> QED BY <1>8, <2>2
<1>16. ASSUME NEW r \in 0..n, NEW j \in 1..off[n]
       PROVE  j <= off[r] <=> f[n][j].row <= r
  <2>1. off[r] \in Nat /\ (j \in 1..off[r] \/ j \in (off[r] + 1)..off[n])
    BY <1>6, <1>13
  <2>2. f[n][j].row \in Nat
    <3>1. f[n][j] \in Sources
      BY <1>13
    <3> QED BY <3>1 DEF Sources, Positive
  <2>3. CASE j \in 1..off[r]
    BY <1>12, <2>1, <2>3 DEF Good
  <2>4. CASE j \in (off[r] + 1)..off[n]
    <3>1. f[n][j].row > r /\ ~(j <= off[r])
      BY <1>12, <2>1, <2>4 DEF Good
    <3> QED BY <2>2, <3>1
  <2> QED BY <2>1, <2>3, <2>4
<1>17. \A j \in 1..off[n] : f[n][j].row <= n
  BY <1>12, <1>13 DEF Good
<1> QED BY <1>13, <1>14, <1>15, <1>16, <1>17 DEF n

\* The cells of the first r rows come first.
Done(F, r) ==
  CHOOSE i \in 0..Len(F) : \A j \in 1..Len(F) : j <= i <=> F[j].row <= r

OfCell(p, rows, r, c) ==
  /\ p.row = r /\ p.name = <<r, c>>
  /\ p.rowspan = rows[r][c].rowspan /\ p.colspan = rows[r][c].colspan

LaidOut(rows, F) ==
  /\ F \in Seq(Rectangles)
  /\ \A j \in 1..Len(F) : /\ Seated(F, j - 1, F[j].row, F[j].column)
                          /\ F[j].row <= Len(rows)
  /\ Done(F, 0) = 0 /\ Done(F, Len(rows)) = Len(F)
  /\ \A r \in 0..Len(rows) :
       /\ Done(F, r) \in 0..Len(F)
       /\ \A j \in 1..Len(F) : j <= Done(F, r) <=> F[j].row <= r
  /\ \A r \in 1..Len(rows) :
       /\ Done(F, r) = Done(F, r - 1) + Len(rows[r])
       /\ \A c \in 1..Len(rows[r]) : OfCell(F[Done(F, r - 1) + c], rows, r, c)

LEMMA SeatedPrefix ==
  ASSUME NEW F, NEW G, NEW i, \A j \in 1..i : F[j] = G[j], NEW q, NEW column,
         Seated(F, i, q, column)
  PROVE  Seated(G, i, q, column)
<1>1. \A k : Taken(F, i, q, k) <=> Taken(G, i, q, k)
  BY DEF Taken
<1>2. \A S : IsStart(F, i, q, S) => IsStart(G, i, q, S)
  BY DEF IsStart
<1> QED BY <1>1, <1>2 DEF Seated

\* What placing the first k cells gives.
Placed(F, cells, k) ==
  /\ F \in Seq(Rectangles) /\ Len(F) = k
  /\ \A j \in 1..k :
       /\ F[j].row = cells[j].row /\ F[j].name = cells[j].name
       /\ F[j].rowspan = cells[j].rowspan /\ F[j].colspan = cells[j].colspan
       /\ Seated(F, j - 1, F[j].row, F[j].column)

LEMMA PlacedAll ==
  ASSUME NEW cells \in Seq(Sources)
  PROVE  Placed(FoldLeft(PlaceRectangle, <<>>, cells), cells, Len(cells))
<1>1. Len(cells) \in Nat /\ DOMAIN cells = 1..Len(cells)
      /\ \A k \in 1..Len(cells) : cells[k] \in Sources
  OBVIOUS
<1> DEFINE n == Len(cells)
<1>2. PICK g : /\ g[0] = <<>>
               /\ \A k \in 1..n : g[k] = StepOf("place", g[k - 1], cells[k])
               /\ FoldLeft(PlaceRectangle, <<>>, cells) = g[n]
  <2> HIDE DEF n
  <2>1. n \in Nat /\ DOMAIN cells = 1..n
    BY <1>1 DEF n
  <2>2. PICK g : Steps("place", <<>>, cells, n, g)
    BY <2>1, FoldSteps
  <2>3. FoldOf("place", <<>>, cells) = FoldLeft(PlaceRectangle, <<>>, cells)
    BY DEF FoldOf
  <2> QED BY <2>2, <2>3 DEF Steps
<1> DEFINE P == {k \in Nat : k <= n => Placed(g[k], cells, k)}
<1>3. 0 \in P
  <2>1. <<>> \in Seq(Rectangles) /\ Len(<<>>) = 0 /\ \A j \in 1..0 : FALSE
    OBVIOUS
  <2> QED BY <1>2, <2>1 DEF Placed
<1>4. ASSUME NEW k \in Nat, k \in P PROVE k + 1 \in P
  <2> SUFFICES ASSUME k + 1 <= n PROVE Placed(g[k + 1], cells, k + 1)
    OBVIOUS
  <2> DEFINE F == g[k]
             cell == cells[k + 1]
  <2>1. /\ k <= n /\ k + 1 \in 1..n /\ (k + 1) - 1 = k /\ cell \in Sources
        /\ Placed(F, cells, k)
    BY <1>1, <1>4
  <2>2. g[k + 1] = PlaceRectangle(F, cell)
    BY <1>2, <2>1 DEF StepOf
  <2>3. F \in Seq(Rectangles) /\ Len(F) = k
    BY <2>1 DEF Placed
  <2> HIDE DEF F
  <2>4. PICK p \in Rectangles :
          /\ PlaceRectangle(F, cell) = Append(F, p)
          /\ p.row = cell.row /\ p.name = cell.name
          /\ p.rowspan = cell.rowspan /\ p.colspan = cell.colspan
          /\ Seated(F, Len(F), cell.row, p.column)
    BY <2>1, <2>3, PlaceOne
  <2> DEFINE G == Append(F, p)
  <2>5. /\ G \in Seq(Rectangles) /\ Len(G) = k + 1 /\ G[k + 1] = p
        /\ \A j \in 1..k : G[j] = F[j]
    BY <2>3
  <2> HIDE DEF G
  <2>6. ASSUME NEW j \in 1..(k + 1)
        PROVE  /\ G[j].row = cells[j].row /\ G[j].name = cells[j].name
               /\ G[j].rowspan = cells[j].rowspan /\ G[j].colspan = cells[j].colspan
               /\ Seated(G, j - 1, G[j].row, G[j].column)
    <3>1. CASE j = k + 1
      <4>1. Seated(F, k, G[j].row, G[j].column)
        BY <2>3, <2>4, <2>5, <3>1
      <4>2. Seated(G, k, G[j].row, G[j].column)
        BY <2>5, <4>1, SeatedPrefix
      <4>3. j - 1 = k
        BY <3>1
      <4> QED BY <2>4, <2>5, <3>1, <4>2, <4>3
    <3>2. CASE j \in 1..k
      <4>1. G[j] = F[j] /\ \A m \in 1..(j - 1) : F[m] = G[m]
        BY <2>5, <3>2
      <4>2. /\ F[j].row = cells[j].row /\ F[j].name = cells[j].name
            /\ F[j].rowspan = cells[j].rowspan /\ F[j].colspan = cells[j].colspan
            /\ Seated(F, j - 1, F[j].row, F[j].column)
        BY <2>1, <3>2 DEF Placed
      <4>3. Seated(G, j - 1, F[j].row, F[j].column)
        BY <4>1, <4>2, SeatedPrefix
      <4> QED BY <4>1, <4>2, <4>3
    <3> QED BY <3>1, <3>2
  <2>7. Placed(G, cells, k + 1)
    BY <2>5, <2>6 DEF Placed
  <2> QED BY <2>2, <2>4, <2>7 DEF G
<1> HIDE DEF P
<1>5. Nat \subseteq P
  BY <1>3, <1>4, Induction
<1> QED BY <1>1, <1>2, <1>5 DEF P

LEMMA LayoutIs ==
  ASSUME NEW rows \in RawTables
  PROVE  LaidOut(rows, Layout(rows))
<1> DEFINE n == Len(rows)
           cells == SourceCells(rows)
           F == Layout(rows)
<1>1. PICK off :
        /\ Offsets(rows, off)
        /\ cells \in Seq(Sources) /\ Len(cells) = off[n]
        /\ \A r \in 1..n : \A c \in 1..Len(rows[r]) :
             cells[off[r - 1] + c] = SourceOf(rows, r, c)
        /\ \A r \in 0..n : \A j \in 1..off[n] : j <= off[r] <=> cells[j].row <= r
        /\ \A j \in 1..off[n] : cells[j].row <= n
  BY SourcesInOrder
<1>2. Placed(F, cells, off[n])
  BY <1>1, PlacedAll DEF Layout
<1>3. /\ n \in Nat /\ \A r \in 1..n : Len(rows[r]) \in Nat
      /\ \A r \in 1..n : r \in 0..n /\ r - 1 \in 0..n
      /\ 0 \in 0..n /\ n \in 0..n
  BY DEF RawTables, Spans
<1>4. /\ off[0] = 0 /\ \A r \in 0..n : off[r] \in Nat /\ off[r] <= off[n]
      /\ \A r \in 1..n : off[r] = off[r - 1] + Len(rows[r])
  BY <1>1 DEF Offsets
<1> HIDE DEF n, cells, F
<1>5. /\ F \in Seq(Rectangles) /\ Len(F) = off[n] /\ off[n] \in Nat
      /\ \A j \in 1..off[n] :
           /\ F[j].row = cells[j].row /\ F[j].name = cells[j].name
           /\ F[j].rowspan = cells[j].rowspan /\ F[j].colspan = cells[j].colspan
           /\ Seated(F, j - 1, F[j].row, F[j].column)
  BY <1>2, <1>3, <1>4 DEF Placed
<1>6. ASSUME NEW r \in 0..n
      PROVE  /\ Done(F, r) = off[r] /\ off[r] \in 0..Len(F)
             /\ \A j \in 1..Len(F) : j <= off[r] <=> F[j].row <= r
  <2>1. off[r] \in 0..Len(F) /\ \A j \in 1..Len(F) : j <= off[r] <=> F[j].row <= r
    BY <1>1, <1>4, <1>5
  <2>2. ASSUME NEW i \in 0..Len(F), \A j \in 1..Len(F) : j <= i <=> F[j].row <= r
        PROVE  i = off[r]
    <3>1. \A j \in 1..Len(F) : j <= i <=> j <= off[r]
      BY <2>1, <2>2
    <3>2. ~(i < off[r])
      <4> SUFFICES ASSUME i < off[r] PROVE FALSE
        OBVIOUS
      <4>1. off[r] \in 1..Len(F)
        BY <2>1, <1>5
      <4> QED BY <3>1, <4>1, <2>1, <1>5
    <3>3. ~(off[r] < i)
      <4> SUFFICES ASSUME off[r] < i PROVE FALSE
        OBVIOUS
      <4>1. i \in 1..Len(F)
        BY <2>1, <1>5
      <4> QED BY <3>1, <4>1, <2>1, <1>5
    <3> QED BY <3>2, <3>3, <2>1, <1>5
  <2> QED BY <2>1, <2>2 DEF Done
<1>7. ASSUME NEW r \in 1..n, NEW c \in 1..Len(rows[r])
      PROVE  OfCell(F[Done(F, r - 1) + c], rows, r, c)
  <2>1. r - 1 \in 0..n /\ Done(F, r - 1) = off[r - 1]
    BY <1>3, <1>6
  <2>2. off[r - 1] \in Nat /\ off[r] = off[r - 1] + Len(rows[r]) /\ off[r] <= off[n] /\ Len(rows[r]) \in Nat
    BY <1>3, <1>4
  <2>3. off[r - 1] + c \in 1..off[n]
    BY <1>5, <2>2
  <2>4. cells[off[r - 1] + c] = SourceOf(rows, r, c)
    BY <1>1
  <2>5. PICK k : k = off[r - 1] + c
    OBVIOUS
  <2>6. /\ F[k].row = r /\ F[k].name = <<r, c>>
        /\ F[k].rowspan = rows[r][c].rowspan /\ F[k].colspan = rows[r][c].colspan
    <3>1. k \in 1..off[n] /\ cells[k] = SourceOf(rows, r, c)
      BY <2>3, <2>4, <2>5
    <3>2. /\ cells[k].row = r /\ cells[k].name = <<r, c>>
          /\ cells[k].rowspan = rows[r][c].rowspan /\ cells[k].colspan = rows[r][c].colspan
      BY <3>1 DEF SourceOf
    <3>3. /\ F[k].row = cells[k].row /\ F[k].name = cells[k].name
          /\ F[k].rowspan = cells[k].rowspan /\ F[k].colspan = cells[k].colspan
      BY <1>5, <3>1
    <3> QED BY <3>2, <3>3
  <2> QED BY <2>1, <2>5, <2>6 DEF OfCell
<1>8. \A j \in 1..Len(F) : Seated(F, j - 1, F[j].row, F[j].column) /\ F[j].row <= n
  BY <1>1, <1>5
<1>9. \A r \in 1..n : Done(F, r) = Done(F, r - 1) + Len(rows[r])
  BY <1>3, <1>4, <1>6
<1>10. Done(F, 0) = 0 /\ Done(F, n) = Len(F)
  BY <1>3, <1>4, <1>5, <1>6
<1>11. \A r \in 0..n : /\ Done(F, r) \in 0..Len(F)
                       /\ \A j \in 1..Len(F) : j <= Done(F, r) <=> F[j].row <= r
  BY <1>6
<1>12. LaidOut(rows, F)
  BY <1>5, <1>7, <1>8, <1>9, <1>10, <1>11 DEF LaidOut, n
<1> QED BY <1>12 DEF F

-----------------------------------------------------------------------------
(* What is carried down.  While row q is read and the columns before c are *)
(* passed, column k still waits for row Turn(q, c, k).                     *)

Turn(q, c, k) == IF k < c THEN q + 1 ELSE q

Carries(P, F, i, q, c) ==
  /\ DOMAIN P \subseteq Nat
  /\ \A j \in 1..i : F[j] \in Rectangles /\ F[j].row <= q
  /\ \A k \in Nat : k \in DOMAIN P <=> Taken(F, i, Turn(q, c, k), k)
  /\ \A k \in DOMAIN P : \A j \in 1..i :
       Covers(F[j], Turn(q, c, k), k) => P[k] = Bottom(F[j]) - Turn(q, c, k) + 1

LEMMA PrefixBounded ==
  ASSUME NEW F, NEW i \in Nat, \A j \in 1..i : F[j] \in Rectangles
  PROVE  \E b \in Nat : \A j \in 1..i : Edge(F[j]) <= b /\ Bottom(F[j]) <= b
<1> DEFINE G == [j \in 1..i |-> F[j]]
<1>1. G \in Seq(Rectangles) /\ Len(G) = i /\ \A j \in 1..i : G[j] = F[j]
  <2>1. G \in [1..i -> Rectangles] /\ \A j \in 1..i : G[j] = F[j]
    OBVIOUS
  <2> HIDE DEF G
  <2> QED BY <2>1, SeqOfFunction
<1> HIDE DEF G
<1>2. \E b \in Nat : \A j \in 1..Len(G) : Edge(G[j]) <= b /\ Bottom(G[j]) <= b
  BY <1>1, EdgesBounded
<1> QED BY <1>1, <1>2

LEMMA CarriesFinite ==
  ASSUME NEW P, NEW F, NEW i \in Nat, NEW q \in Nat, NEW c \in Nat, Carries(P, F, i, q, c)
  PROVE  /\ IsFiniteSet(DOMAIN P)
         /\ \E b \in Nat : \A k \in DOMAIN P : k < b
<1>1. PICK b \in Nat : \A j \in 1..i : Edge(F[j]) <= b /\ Bottom(F[j]) <= b
  BY PrefixBounded DEF Carries
<1>2. ASSUME NEW k \in DOMAIN P PROVE k \in Nat /\ k < b
  <2>1. k \in Nat /\ Turn(q, c, k) \in Nat /\ Taken(F, i, Turn(q, c, k), k)
    BY DEF Carries, Turn
  <2>2. PICK j \in 1..i : Covers(F[j], Turn(q, c, k), k)
    BY <2>1 DEF Taken
  <2>3. F[j] \in Rectangles /\ Edge(F[j]) <= b
    BY <1>1 DEF Carries
  <2>4. Edge(F[j]) \in Nat /\ k < Edge(F[j])
    BY <2>1, <2>2, <2>3, Rectangle
  <2> QED BY <2>1, <2>3, <2>4
<1>3. DOMAIN P \subseteq 0..b
  BY <1>2
<1>4. IsFiniteSet(DOMAIN P)
  <2>1. IsFiniteSet(0..b)
    BY FS_Interval
  <2> QED BY <1>3, <2>1, FS_Subset
<1> QED BY <1>2, <1>4

LEMMA FreeIs ==
  ASSUME NEW P, DOMAIN P \subseteq Nat, IsFiniteSet(DOMAIN P), NEW c \in Nat
  PROVE  /\ FreeColumn(P, c) \in Nat /\ c <= FreeColumn(P, c)
         /\ FreeColumn(P, c) \notin DOMAIN P
         /\ \A k \in c..(FreeColumn(P, c) - 1) : k \in DOMAIN P
<1> DEFINE D == DOMAIN P
           last == c + Cardinality(D)
<1>1. Cardinality(D) \in Nat /\ last \in Nat
  BY FS_CardinalityType
<1> HIDE DEF D
<1>2. \E k \in c..last : k \notin D
  <2> SUFFICES ASSUME c..last \subseteq D PROVE FALSE
    OBVIOUS
  <2>1. IsFiniteSet(D)
    BY DEF D
  <2>2. Cardinality(c..last) = last - c + 1
    <3>1. c \in Int /\ last \in Int /\ ~(c > last)
      BY <1>1
    <3> HIDE DEF last
    <3> QED BY <3>1, FS_Interval
  <2>3. Cardinality(c..last) <= Cardinality(D)
    BY <2>1, FS_Subset
  <2> QED BY <1>1, <2>2, <2>3
<1> DEFINE S == {k \in c..last : k \notin D}
<1>3. S \in SUBSET Nat /\ S # {}
  BY <1>1, <1>2
<1>4. PICK m \in S : \A k \in S : m <= k
  <2> HIDE DEF S
  <2> QED BY <1>3, LeastExists
<1>5. m \in c..last /\ m \notin D /\ m \in Nat
  BY <1>1, <1>4
<1>6. \A j \in c..(m - 1) : j \in c..last /\ ~(m <= j)
  BY <1>1, <1>5
<1>7. \A j \in c..(m - 1) : j \in D
  BY <1>4, <1>6
<1> HIDE DEF last
<1>8. FreeColumn(P, c) \in c..last /\ FreeColumn(P, c) \notin D
      /\ \A j \in c..(FreeColumn(P, c) - 1) : j \in D
  BY <1>5, <1>7 DEF FreeColumn, Columns, D, last
<1> QED BY <1>1, <1>8 DEF D

LEMMA ConsumeMoves ==
  ASSUME NEW P, NEW F, NEW i \in Nat, NEW q \in Nat, NEW c \in Nat, NEW e \in Nat, c <= e,
         Carries(P, F, i, q, c)
  PROVE  Carries(Consume(P, c, e), F, i, q, e)
<1> DEFINE C == Consume(P, c, e)
<1>1. /\ DOMAIN C = {k \in DOMAIN P : k \notin c..(e - 1) \/ P[k] > 1}
      /\ \A k \in DOMAIN C : C[k] = IF k \in c..(e - 1) THEN P[k] - 1 ELSE P[k]
  BY DEF Consume, Columns
<1>2. /\ DOMAIN P \subseteq Nat
      /\ \A j \in 1..i : F[j] \in Rectangles /\ F[j].row <= q
      /\ \A k \in Nat : k \in DOMAIN P <=> Taken(F, i, Turn(q, c, k), k)
      /\ \A k \in DOMAIN P : \A j \in 1..i :
           Covers(F[j], Turn(q, c, k), k) => P[k] = Bottom(F[j]) - Turn(q, c, k) + 1
  BY DEF Carries
<1> HIDE DEF C
<1>3. ASSUME NEW k \in Nat, k \notin c..(e - 1)
      PROVE  Turn(q, c, k) = Turn(q, e, k)
  BY <1>3 DEF Turn
<1>4. ASSUME NEW k \in Nat, k \in c..(e - 1)
      PROVE  Turn(q, c, k) = q /\ Turn(q, e, k) = q + 1
  BY <1>4 DEF Turn
<1>5. ASSUME NEW k \in Nat, NEW j \in 1..i, Covers(F[j], q + 1, k)
      PROVE  Covers(F[j], q, k) /\ Bottom(F[j]) \in Nat /\ Bottom(F[j]) > q
  <2>1. F[j] \in Rectangles /\ F[j].row <= q /\ q + 1 \in Nat
    BY <1>2
  <2> QED BY <1>5, <2>1, Rectangle
<1>6. ASSUME NEW k \in Nat, NEW j \in 1..i, Covers(F[j], q, k)
      PROVE  /\ Bottom(F[j]) \in Nat /\ Bottom(F[j]) >= q
             /\ Bottom(F[j]) > q => Covers(F[j], q + 1, k)
  <2>1. F[j] \in Rectangles /\ F[j].row <= q /\ q + 1 \in Nat /\ q <= q + 1
    BY <1>2
  <2> QED BY <1>6, <2>1, Rectangle
<1>7. ASSUME NEW k \in Nat
      PROVE  k \in DOMAIN C <=> Taken(F, i, Turn(q, e, k), k)
  <2>1. CASE k \notin c..(e - 1)
    BY <1>1, <1>2, <1>3, <2>1
  <2>2. CASE k \in c..(e - 1)
    <3>1. ASSUME k \in DOMAIN C PROVE Taken(F, i, q + 1, k)
      <4>1. k \in DOMAIN P /\ P[k] > 1
        BY <1>1, <2>2, <3>1
      <4>2. PICK j \in 1..i : Covers(F[j], q, k)
        BY <1>2, <1>4, <2>2, <4>1 DEF Taken
      <4>3. P[k] = Bottom(F[j]) - q + 1
        BY <1>2, <1>4, <2>2, <4>1, <4>2
      <4> QED BY <1>6, <4>1, <4>2, <4>3 DEF Taken
    <3>2. ASSUME Taken(F, i, q + 1, k) PROVE k \in DOMAIN C
      <4>1. PICK j \in 1..i : Covers(F[j], q + 1, k)
        BY <3>2 DEF Taken
      <4>2. Covers(F[j], q, k) /\ Bottom(F[j]) \in Nat /\ Bottom(F[j]) > q
        BY <1>5, <4>1
      <4>3. k \in DOMAIN P
        BY <1>2, <1>4, <2>2, <4>2 DEF Taken
      <4>4. P[k] = Bottom(F[j]) - q + 1
        BY <1>2, <1>4, <2>2, <4>2, <4>3
      <4> QED BY <1>1, <4>2, <4>3, <4>4
    <3> QED BY <1>4, <2>2, <3>1, <3>2
  <2> QED BY <2>1, <2>2
<1>8. ASSUME NEW k \in DOMAIN C, NEW j \in 1..i, Covers(F[j], Turn(q, e, k), k)
      PROVE  C[k] = Bottom(F[j]) - Turn(q, e, k) + 1
  <2>1. k \in DOMAIN P /\ k \in Nat
    BY <1>1, <1>2
  <2>2. CASE k \notin c..(e - 1)
    BY <1>1, <1>2, <1>3, <1>8, <2>1, <2>2
  <2>3. CASE k \in c..(e - 1)
    <3>1. Covers(F[j], q + 1, k)
      BY <1>4, <1>8, <2>1, <2>3
    <3>2. Covers(F[j], q, k) /\ Bottom(F[j]) \in Nat
      BY <1>5, <2>1, <3>1
    <3>3. P[k] = Bottom(F[j]) - q + 1
      BY <1>2, <1>4, <2>1, <2>3, <3>2
    <3>4. C[k] = P[k] - 1 /\ Turn(q, e, k) = q + 1
      BY <1>1, <1>4, <2>1, <2>3
    <3> QED BY <3>2, <3>3, <3>4
  <2> QED BY <2>2, <2>3
<1>9. DOMAIN C \subseteq Nat
  BY <1>1, <1>2
<1>10. Carries(C, F, i, q, e)
  BY <1>2, <1>7, <1>8, <1>9 DEF Carries
<1> QED BY <1>10 DEF C

\* Q is P with the rectangle p, just placed at column c of row q.
Laid(P, p, Q) ==
  LET taken == p.column..(p.column + p.colspan - 1) IN
  /\ DOMAIN Q = DOMAIN P \cup (IF p.rowspan > 1 THEN taken ELSE {})
  /\ \A k \in DOMAIN Q : Q[k] = IF k \in taken THEN p.rowspan - 1 ELSE P[k]

LEMMA PlaceMoves ==
  ASSUME NEW P, NEW Q, NEW F, NEW i \in Nat, NEW q \in Nat, NEW c \in Nat,
         Carries(P, F, i, q, c),
         F[i + 1] \in Rectangles, F[i + 1].row = q, F[i + 1].column = c,
         \A k \in DOMAIN P : ~(c <= k /\ k < Edge(F[i + 1])),
         Laid(P, F[i + 1], Q)
  PROVE  Carries(Q, F, i + 1, q, Edge(F[i + 1]))
<1> DEFINE m == i + 1
           p == F[m]
           e == Edge(p)
<1>1. /\ DOMAIN P \subseteq Nat
      /\ \A j \in 1..i : F[j] \in Rectangles /\ F[j].row <= q
      /\ \A k \in Nat : k \in DOMAIN P <=> Taken(F, i, Turn(q, c, k), k)
      /\ \A k \in DOMAIN P : \A j \in 1..i :
           Covers(F[j], Turn(q, c, k), k) => P[k] = Bottom(F[j]) - Turn(q, c, k) + 1
  BY DEF Carries
<1>2. /\ p \in Rectangles /\ p.row = q /\ p.column = c /\ e \in Nat /\ c < e
      /\ p.rowspan \in Nat /\ p.rowspan >= 1 /\ Bottom(p) = q + p.rowspan - 1
      /\ Bottom(p) \in Nat /\ p.colspan \in Nat
      /\ p.column + p.colspan - 1 = e - 1
      /\ \A r, k \in Nat : Covers(p, r, k) <=> q <= r /\ r <= Bottom(p) /\ c <= k /\ k < e
  <2>1. p \in Rectangles /\ p.row = q /\ p.column = c
    OBVIOUS
  <2>2. /\ e \in Nat /\ p.column < e /\ p.rowspan \in Nat /\ p.rowspan >= 1 /\ Bottom(p) \in Nat
        /\ p.colspan \in Nat
        /\ \A r, k \in Nat : Covers(p, r, k) <=> /\ p.row <= r /\ r <= Bottom(p)
                                                /\ p.column <= k /\ k < e
    BY <2>1, Rectangle
  <2>3. Bottom(p) = q + p.rowspan - 1 /\ e = c + p.colspan
    BY <2>1 DEF Bottom, Edge
  <2> HIDE DEF p, e
  <2> QED BY <2>1, <2>2, <2>3
<1>3. /\ \A k \in DOMAIN P : ~(c <= k /\ k < e)
      /\ DOMAIN Q = DOMAIN P \cup (IF p.rowspan > 1 THEN c..(e - 1) ELSE {})
      /\ \A k \in DOMAIN Q : Q[k] = IF k \in c..(e - 1) THEN p.rowspan - 1 ELSE P[k]
  BY <1>2 DEF Laid
<1>4. \A j \in 1..m : F[j] \in Rectangles /\ F[j].row <= q /\ (j \in 1..i \/ j = m)
  BY <1>1, <1>2
<1>5. m \in 1..m /\ 1..i \subseteq 1..m
  OBVIOUS
<1> HIDE DEF m, p, e
<1>6. \A r, k : Taken(F, m, r, k) <=> Taken(F, i, r, k) \/ Covers(p, r, k)
  BY <1>4, <1>5 DEF Taken, p
<1>7. ASSUME NEW k \in Nat, c <= k, k < e
      PROVE  /\ Turn(q, c, k) = q /\ Turn(q, e, k) = q + 1 /\ k \notin DOMAIN P
             /\ \A j \in 1..i : ~Covers(F[j], q + 1, k) /\ ~Covers(F[j], q, k)
             /\ k \in c..(e - 1) /\ (Covers(p, q + 1, k) <=> p.rowspan > 1)
  <2>1. Turn(q, c, k) = q /\ Turn(q, e, k) = q + 1 /\ k \notin DOMAIN P /\ k \in c..(e - 1)
    BY <1>2, <1>3, <1>7 DEF Turn
  <2>2. \A j \in 1..i : ~Covers(F[j], q, k)
    BY <1>1, <2>1 DEF Taken
  <2>3. ASSUME NEW j \in 1..i, Covers(F[j], q + 1, k) PROVE FALSE
    <3>1. F[j] \in Rectangles /\ F[j].row <= q /\ q + 1 \in Nat
      BY <1>1
    <3>2. Covers(F[j], q, k)
      BY <2>3, <3>1, Rectangle
    <3> QED BY <2>2, <3>2
  <2>4. Covers(p, q + 1, k) <=> p.rowspan > 1
    BY <1>2, <1>7
  <2> QED BY <2>1, <2>2, <2>3, <2>4
<1>8. ASSUME NEW k \in Nat, ~(c <= k /\ k < e)
      PROVE  /\ Turn(q, c, k) = Turn(q, e, k) /\ Turn(q, c, k) \in Nat
             /\ ~Covers(p, Turn(q, e, k), k) /\ k \notin c..(e - 1)
  <2>1. Turn(q, c, k) = Turn(q, e, k) /\ Turn(q, c, k) \in Nat /\ k \notin c..(e - 1)
    BY <1>2, <1>8 DEF Turn
  <2> QED BY <1>2, <1>8, <2>1
<1>9. ASSUME NEW k \in Nat
      PROVE  k \in DOMAIN Q <=> Taken(F, m, Turn(q, e, k), k)
  <2>1. CASE c <= k /\ k < e
    BY <1>3, <1>6, <1>7, <2>1 DEF Taken
  <2>2. CASE ~(c <= k /\ k < e)
    BY <1>1, <1>3, <1>6, <1>8, <2>2
  <2> QED BY <2>1, <2>2
<1>10. ASSUME NEW k \in DOMAIN Q, NEW j \in 1..m, Covers(F[j], Turn(q, e, k), k)
       PROVE  Q[k] = Bottom(F[j]) - Turn(q, e, k) + 1
  <2>1. k \in Nat
    BY <1>1, <1>2, <1>3
  <2>2. CASE c <= k /\ k < e
    <3>1. j = m
      BY <1>4, <1>7, <1>10, <2>1, <2>2
    <3>2. Q[k] = p.rowspan - 1 /\ Bottom(F[j]) = q + p.rowspan - 1 /\ Turn(q, e, k) = q + 1
      BY <1>2, <1>3, <1>7, <2>1, <2>2, <3>1 DEF p
    <3> QED BY <1>2, <3>2
  <2>3. CASE ~(c <= k /\ k < e)
    <3>1. j \in 1..i
      BY <1>4, <1>8, <1>10, <2>1, <2>3 DEF p
    <3>2. k \in DOMAIN P /\ Q[k] = P[k]
      BY <1>3, <1>8, <2>1, <2>3
    <3>3. Covers(F[j], Turn(q, c, k), k) /\ Turn(q, c, k) = Turn(q, e, k)
      BY <1>8, <1>10, <2>1, <2>3
    <3> QED BY <1>1, <3>1, <3>2, <3>3
  <2> QED BY <2>2, <2>3
<1>11. DOMAIN Q \subseteq Nat
  BY <1>1, <1>2, <1>3
<1>12. Carries(Q, F, m, q, e)
  BY <1>4, <1>9, <1>10, <1>11 DEF Carries
<1> QED BY <1>12 DEF m, p, e

LEMMA RowEnds ==
  ASSUME NEW P, NEW F, NEW i \in Nat, NEW q \in Nat, NEW c \in Nat,
         Carries(P, F, i, q, c), \A k \in DOMAIN P : k < c
  PROVE  /\ Carries(P, F, i, q + 1, 0)
         /\ \A k \in Nat : k >= c => ~Taken(F, i, q, k)
<1>1. /\ DOMAIN P \subseteq Nat
      /\ \A j \in 1..i : F[j] \in Rectangles /\ F[j].row <= q
      /\ \A k \in Nat : k \in DOMAIN P <=> Taken(F, i, Turn(q, c, k), k)
      /\ \A k \in DOMAIN P : \A j \in 1..i :
           Covers(F[j], Turn(q, c, k), k) => P[k] = Bottom(F[j]) - Turn(q, c, k) + 1
  BY DEF Carries
<1>2. \A k \in Nat : /\ k < c => Turn(q, c, k) = q + 1
                     /\ k >= c => Turn(q, c, k) = q
                     /\ Turn(q + 1, 0, k) = q + 1
  BY DEF Turn
<1>3. ASSUME NEW k \in Nat, k >= c PROVE ~Taken(F, i, q, k) /\ k \notin DOMAIN P
  BY <1>1, <1>2, <1>3
<1>4. ASSUME NEW k \in Nat, k >= c PROVE ~Taken(F, i, q + 1, k)
  <2> SUFFICES ASSUME NEW j \in 1..i, Covers(F[j], q + 1, k) PROVE FALSE
    BY DEF Taken
  <2>1. F[j] \in Rectangles /\ F[j].row <= q /\ q + 1 \in Nat
    BY <1>1
  <2>2. Covers(F[j], q, k)
    BY <2>1, Rectangle
  <2> QED BY <1>3, <1>4, <2>2 DEF Taken
<1>5. ASSUME NEW k \in Nat PROVE k \in DOMAIN P <=> Taken(F, i, q + 1, k)
  BY <1>1, <1>2, <1>3, <1>4
<1>6. \A j \in 1..i : F[j] \in Rectangles /\ F[j].row <= q + 1
  <2> TAKE j \in 1..i
  <2>1. F[j] \in Rectangles /\ F[j].row <= q
    BY <1>1
  <2>2. F[j].row \in Nat
    BY <2>1, Rectangle
  <2> QED BY <2>1, <2>2
<1>7. Carries(P, F, i, q + 1, 0)
  BY <1>1, <1>2, <1>5, <1>6 DEF Carries
<1> QED BY <1>3, <1>7

-----------------------------------------------------------------------------
(* A walk along row q: the first i rectangles are laid, the columns before *)
(* `column' are passed, and up to there nothing has been left free.        *)

Reaches(F, i, column) == column = 0 \/ \E j \in 1..i : column <= Edge(F[j])

Walks(column, P, F, i, q) ==
  /\ Carries(P, F, i, q, column)
  /\ \E S : /\ IsStart(F, i, q, S) /\ S <= column
            /\ \A k \in S..(column - 1) : Taken(F, i, q, k)
  /\ Reaches(F, i, column)

LEMMA RowBegins ==
  ASSUME NEW P, NEW F, NEW i \in Nat, NEW q \in Nat, Carries(P, F, i, q, 0),
         \A j \in 1..i : F[j].row < q
  PROVE  Walks(0, P, F, i, q)
<1>1. \A j \in 1..i : F[j] \in Rectangles /\ F[j].row \in Nat
  BY Rectangle DEF Carries
<1>2. IsStart(F, i, q, 0)
  BY <1>1 DEF IsStart
<1>3. \A k \in 0..(0 - 1) : Taken(F, i, q, k)
  OBVIOUS
<1> QED BY <1>2, <1>3 DEF Walks, Reaches

LEMMA SkipWalks ==
  ASSUME NEW P, NEW F, NEW i \in Nat, NEW q \in Nat, NEW c \in Nat, Walks(c, P, F, i, q)
  PROVE  /\ FreeColumn(P, c) \in Nat /\ c <= FreeColumn(P, c)
         /\ Walks(FreeColumn(P, c), Consume(P, c, FreeColumn(P, c)), F, i, q)
         /\ ~Taken(F, i, q, FreeColumn(P, c))
         /\ FreeColumn(P, c) \notin DOMAIN Consume(P, c, FreeColumn(P, c))
<1> DEFINE e == FreeColumn(P, c)
<1>1. /\ Carries(P, F, i, q, c) /\ DOMAIN P \subseteq Nat
      /\ \A j \in 1..i : F[j] \in Rectangles
      /\ \A k \in Nat : k \in DOMAIN P <=> Taken(F, i, Turn(q, c, k), k)
  BY DEF Walks, Carries
<1>2. /\ e \in Nat /\ c <= e /\ e \notin DOMAIN P
      /\ \A k \in c..(e - 1) : k \in DOMAIN P
  BY <1>1, CarriesFinite, FreeIs
<1> HIDE DEF e
<1>3. \A k \in Nat : k >= c => Turn(q, c, k) = q
  BY DEF Turn
<1>4. \A k \in c..(e - 1) : k \in Nat /\ k >= c /\ Taken(F, i, q, k)
  BY <1>1, <1>2, <1>3
<1>5. ~Taken(F, i, q, e)
  BY <1>1, <1>2, <1>3
<1>6. Carries(Consume(P, c, e), F, i, q, e)
  BY <1>1, <1>2, ConsumeMoves
<1>7. \E S : /\ IsStart(F, i, q, S) /\ S <= e
             /\ \A k \in S..(e - 1) : Taken(F, i, q, k)
  <2>1. PICK S : /\ IsStart(F, i, q, S) /\ S <= c
                 /\ \A k \in S..(c - 1) : Taken(F, i, q, k)
    BY DEF Walks
  <2>2. S \in Nat
    BY <2>1 DEF IsStart
  <2>3. \A k \in S..(e - 1) : k \in S..(c - 1) \/ k \in c..(e - 1)
    BY <1>2, <2>2
  <2> QED BY <1>2, <1>4, <2>1, <2>2, <2>3
<1>8. Reaches(F, i, e)
  <2>1. CASE e = c
    BY <2>1 DEF Walks
  <2>2. CASE e # c
    <3>1. e - 1 \in c..(e - 1) /\ e - 1 \in Nat
      BY <1>2, <2>2
    <3>2. PICK j \in 1..i : Covers(F[j], q, e - 1)
      BY <1>4, <3>1 DEF Taken
    <3>3. e - 1 < Edge(F[j]) /\ Edge(F[j]) \in Nat
      BY <1>1, <3>1, <3>2, Rectangle
    <3>4. e <= Edge(F[j])
      BY <1>2, <3>3
    <3> QED BY <3>4 DEF Reaches
  <2> QED BY <2>1, <2>2
<1>9. e \notin DOMAIN Consume(P, c, e)
  BY <1>2 DEF Consume, Columns
<1>10. Walks(e, Consume(P, c, e), F, i, q)
  BY <1>6, <1>7, <1>8 DEF Walks
<1> QED BY <1>2, <1>5, <1>9, <1>10 DEF e

LEMMA SeatIsFree ==
  ASSUME NEW P, NEW F, NEW i \in Nat, NEW q \in Nat, NEW c \in Nat, Walks(c, P, F, i, q),
         ~Taken(F, i, q, c), NEW d \in Nat, Seated(F, i, q, d)
  PROVE  d = c
<1>1. PICK S : /\ IsStart(F, i, q, S) /\ S <= c
               /\ \A k \in S..(c - 1) : Taken(F, i, q, k)
  BY DEF Walks
<1>2. PICK T : /\ IsStart(F, i, q, T) /\ T <= d /\ ~Taken(F, i, q, d)
               /\ \A k \in T..(d - 1) : Taken(F, i, q, k)
  BY DEF Seated
<1>3. S \in Nat /\ T \in Nat
  BY <1>1, <1>2 DEF IsStart
<1>4. S <= T /\ T <= S
  BY <1>1, <1>2, <1>3 DEF IsStart
<1>5. S = T
  BY <1>3, <1>4
<1>6. ~(c < d)
  <2> SUFFICES ASSUME c < d PROVE FALSE
    OBVIOUS
  <2>1. c \in T..(d - 1)
    BY <1>1, <1>3, <1>5
  <2> QED BY <1>2, <2>1
<1>7. ~(d < c)
  <2> SUFFICES ASSUME d < c PROVE FALSE
    OBVIOUS
  <2>1. d \in S..(c - 1)
    BY <1>2, <1>3, <1>5
  <2> QED BY <1>1, <1>2, <2>1
<1> QED BY <1>6, <1>7

\* Q is P with the rectangle p laid in columns nothing is carried into.
Joins(p, q, c, P, Q) ==
  /\ p \in Rectangles /\ p.row = q /\ p.column = c
  /\ \A k \in DOMAIN P : ~(c <= k /\ k < Edge(p))
  /\ Laid(P, p, Q)

LEMMA PlaceWalks ==
  ASSUME NEW P, NEW Q, NEW F, NEW i \in Nat, NEW q \in Nat, NEW c \in Nat,
         Walks(c, P, F, i, q), Joins(F[i + 1], q, c, P, Q)
  PROVE  /\ Walks(Edge(F[i + 1]), Q, F, i + 1, q)
         /\ Edge(F[i + 1]) \in Nat
<1> DEFINE m == i + 1
           e == Edge(F[m])
<1>1. Carries(P, F, i, q, c) /\ \A j \in 1..i : F[j] \in Rectangles
  BY DEF Walks, Carries
<1>2. Carries(Q, F, m, q, e)
  BY <1>1, PlaceMoves DEF Joins
<1>3. e \in Nat /\ c < e
  BY Rectangle DEF Joins
<1>4. F[m].row = q /\ Edge(F[m]) = e /\ m \in 1..m /\ \A j \in 1..m : j \in 1..i \/ j = m
  BY DEF Joins
<1>5. PICK S : IsStart(F, i, q, S) /\ S <= c
  BY DEF Walks
<1> HIDE DEF m, e
<1>6. IsStart(F, m, q, e)
  <2>1. S \in Nat /\ \A j \in 1..i : F[j].row = q => Edge(F[j]) <= S
    BY <1>5 DEF IsStart
  <2>2. ASSUME NEW j \in 1..m, F[j].row = q PROVE Edge(F[j]) <= e
    <3>1. CASE j \in 1..i
      <4>1. Edge(F[j]) \in Nat /\ Edge(F[j]) <= S
        BY <1>1, <2>1, <2>2, <3>1, Rectangle
      <4> QED BY <1>3, <1>5, <2>1, <4>1
    <3>2. CASE j = m
      BY <1>3, <1>4, <3>2
    <3> QED BY <1>4, <3>1, <3>2
  <2> QED BY <1>3, <1>4, <2>2 DEF IsStart
<1>7. e <= e /\ \A k \in e..(e - 1) : FALSE
  BY <1>3
<1>8. Reaches(F, m, e)
  BY <1>4, <1>7 DEF Reaches
<1>9. Walks(e, Q, F, m, q)
  BY <1>2, <1>6, <1>7, <1>8 DEF Walks
<1> QED BY <1>3, <1>9 DEF m, e

\* Where a row ends of which the columns before c are passed.
RowEnd(c, P) == Largest({c} \cup Ends(P))

LEMMA RestWalks ==
  ASSUME NEW P, NEW F, NEW i \in Nat, NEW q \in Nat, NEW c \in Nat, Walks(c, P, F, i, q)
  PROVE  /\ RowEnd(c, P) \in Nat /\ c <= RowEnd(c, P) /\ Reaches(F, i, RowEnd(c, P))
         /\ Carries(Consume(P, c, RowEnd(c, P)), F, i, q + 1, 0)
         /\ \A k \in Nat : k >= RowEnd(c, P) => ~Taken(F, i, q, k)
         /\ \A j \in 1..i : F[j].row = q => Edge(F[j]) <= RowEnd(c, P)
         /\ ~(\E k \in Columns(P) : k >= c) => RowEnd(c, P) = c
<1> DEFINE e == RowEnd(c, P)
<1>1. /\ Carries(P, F, i, q, c) /\ DOMAIN P \subseteq Nat
      /\ \A j \in 1..i : F[j] \in Rectangles
      /\ \A k \in Nat : k \in DOMAIN P <=> Taken(F, i, Turn(q, c, k), k)
  BY DEF Walks, Carries
<1>2. PICK b \in Nat : \A k \in DOMAIN P : k < b
  BY <1>1, CarriesFinite
<1> DEFINE U == {c} \cup Ends(P)
<1>3. /\ U \in SUBSET Nat /\ U # {} /\ \A k \in U : k <= b + c
      /\ \A k \in DOMAIN P : k \in Nat /\ k + 1 \in U
      /\ c \in U /\ \A u \in U : u = c \/ \E k \in DOMAIN P : u = k + 1
  BY <1>1, <1>2 DEF Ends, Columns
<1>4. e \in U /\ \A k \in U : k <= e
  <2>1. b + c \in Nat /\ e = Largest(U)
    BY DEF RowEnd
  <2> HIDE DEF U, e
  <2> QED BY <1>3, <2>1, LargestIs
<1> HIDE DEF U, e
<1>5. e \in Nat /\ c <= e /\ \A k \in DOMAIN P : k < e
  <2>1. e \in Nat /\ c <= e /\ \A k \in DOMAIN P : k \in Nat /\ k + 1 <= e
    BY <1>3, <1>4
  <2> QED BY <2>1
<1>6. Carries(Consume(P, c, e), F, i, q, e)
  BY <1>1, <1>5, ConsumeMoves
<1>7. \A k \in DOMAIN Consume(P, c, e) : k < e
  BY <1>5 DEF Consume, Columns
<1>8. /\ Carries(Consume(P, c, e), F, i, q + 1, 0)
      /\ \A k \in Nat : k >= e => ~Taken(F, i, q, k)
  BY <1>5, <1>6, <1>7, RowEnds
<1>9. Reaches(F, i, e)
  <2>1. CASE e = c
    BY <2>1 DEF Walks
  <2>2. CASE e # c
    <3>1. PICK k \in DOMAIN P : e = k + 1
      BY <1>3, <1>4, <2>2
    <3>2. k \in Nat /\ Turn(q, c, k) \in Nat /\ Taken(F, i, Turn(q, c, k), k)
      BY <1>1 DEF Turn
    <3>3. PICK j \in 1..i : Covers(F[j], Turn(q, c, k), k)
      BY <3>2 DEF Taken
    <3>4. k < Edge(F[j]) /\ Edge(F[j]) \in Nat
      BY <1>1, <3>2, <3>3, Rectangle
    <3>5. e <= Edge(F[j])
      BY <3>1, <3>2, <3>4
    <3> QED BY <3>5 DEF Reaches
  <2> QED BY <2>1, <2>2
<1>10. ASSUME NEW j \in 1..i, F[j].row = q PROVE Edge(F[j]) <= e
  <2>1. PICK S : IsStart(F, i, q, S) /\ S <= c
    BY DEF Walks
  <2>2. S \in Nat /\ Edge(F[j]) <= S /\ Edge(F[j]) \in Nat
    BY <1>1, <1>10, <2>1, Rectangle DEF IsStart
  <2> QED BY <1>5, <2>1, <2>2
<1>11. ASSUME ~(\E k \in Columns(P) : k >= c) PROVE e = c
  <2>1. \A k \in DOMAIN P : k \in Nat /\ k + 1 <= c
    BY <1>3, <1>11 DEF Columns
  <2>2. e <= c
    BY <1>3, <1>4, <2>1
  <2> QED BY <1>5, <2>2
<1> QED BY <1>5, <1>8, <1>9, <1>10, <1>11 DEF e

-----------------------------------------------------------------------------
(* _project_table_shape: one cell, one row.                                *)

Disjoint(F, i) ==
  \A a, b \in 1..i : a # b =>
    \A r, k \in Nat : ~(Covers(F[a], r, k) /\ Covers(F[b], r, k))

Within(F, i) ==
  \A j \in 1..i : Bottom(F[j]) <= MaxRows /\ Edge(F[j]) <= MaxColumns

\* The exceptions of ProjectCell and what they say of the layout.
Justified(error, F) ==
  \/ error = "INVALID_TABLE_SPAN" /\ Overlapping(F)
  \/ error = "TOO_MANY_ROWS" /\ \E j \in 1..Len(F) : Bottom(F[j]) > MaxRows
  \/ error = "TOO_MANY_COLUMNS" /\ \E j \in 1..Len(F) : Edge(F[j]) > MaxColumns

Refused(s, F) == "error" \in DOMAIN s /\ Justified(s.error, F)

Walker(s, above) ==
  /\ DOMAIN s = {"above", "column", "pending", "error"}
  /\ s.above = above /\ s.error = "" /\ s.column \in Nat

ProjectsWell(s, F, i, above) ==
  /\ Walker(s, above)
  /\ Walks(s.column, s.pending, F, i, above + 1) /\ ~Taken(F, i, above + 1, s.column)
  /\ Disjoint(F, i) /\ Within(F, i)

LEMMA OverlapFound ==
  ASSUME NEW F \in Seq(Rectangles), NEW a \in 1..Len(F), NEW b \in 1..Len(F), a # b,
         NEW r \in Nat, NEW k \in Nat, Covers(F[a], r, k), Covers(F[b], r, k)
  PROVE  Overlapping(F)
<1>1. /\ r \in F[a].row..(F[a].row + F[a].rowspan - 1)
      /\ k \in F[a].column..(F[a].column + F[a].colspan - 1)
  BY DEF Covers
<1>2. a \in DOMAIN F /\ b \in DOMAIN F
  OBVIOUS
<1> QED BY <1>1, <1>2 DEF Overlapping

LEMMA NoOverlap ==
  ASSUME NEW F \in Seq(Rectangles), Disjoint(F, Len(F))
  PROVE  ~Overlapping(F)
<1> SUFFICES ASSUME NEW a \in DOMAIN F, NEW b \in DOMAIN F, a # b,
                    NEW r \in F[a].row..(F[a].row + F[a].rowspan - 1),
                    NEW k \in F[a].column..(F[a].column + F[a].colspan - 1),
                    Covers(F[b], r, k)
             PROVE  FALSE
  BY DEF Overlapping
<1>1. a \in 1..Len(F) /\ b \in 1..Len(F) /\ F[a] \in Rectangles
  OBVIOUS
<1>2. r \in Nat /\ k \in Nat
  <2>1. /\ F[a].row \in Nat /\ F[a].column \in Nat /\ F[a].rowspan \in Nat
        /\ F[a].colspan \in Nat
    BY <1>1, Rectangle
  <2> QED BY <2>1
<1>3. Covers(F[a], r, k)
  BY DEF Covers
<1> QED BY <1>1, <1>2, <1>3 DEF Disjoint

\* A rectangle that is free of the others in its first row is so below.
LEMMA StaysDisjoint ==
  ASSUME NEW F, NEW i \in Nat, NEW q \in Nat, Disjoint(F, i),
         \A j \in 1..(i + 1) : F[j] \in Rectangles /\ F[j].row <= q,
         F[i + 1].row = q,
         \A k \in Nat : Covers(F[i + 1], q, k) => ~Taken(F, i, q, k)
  PROVE  Disjoint(F, i + 1)
<1> DEFINE m == i + 1
<1>1. m \in 1..m /\ \A j \in 1..m : j \in 1..i \/ j = m
  OBVIOUS
<1>2. ASSUME NEW j \in 1..i, NEW r \in Nat, NEW k \in Nat,
             Covers(F[j], r, k), Covers(F[m], r, k)
      PROVE  FALSE
  <2>1. F[j] \in Rectangles /\ F[j].row <= q /\ F[m] \in Rectangles /\ F[m].row = q
    BY <1>1
  <2>2. q <= r /\ Covers(F[m], q, k)
    BY <1>2, <2>1, Rectangle
  <2>3. Covers(F[j], q, k)
    BY <1>2, <2>1, <2>2, Rectangle
  <2> QED BY <2>2, <2>3 DEF Taken
<1> HIDE DEF m
<1>3. ASSUME NEW a \in 1..m, NEW b \in 1..m, a # b, NEW r \in Nat, NEW k \in Nat
      PROVE  ~(Covers(F[a], r, k) /\ Covers(F[b], r, k))
  <2>1. CASE a = m
    BY <1>1, <1>2, <1>3, <2>1
  <2>2. CASE b = m
    BY <1>1, <1>2, <1>3, <2>2
  <2>3. CASE a # m /\ b # m
    BY <1>1, <1>3, <2>3 DEF Disjoint
  <2> QED BY <2>1, <2>2, <2>3
<1>4. Disjoint(F, m)
  BY <1>3 DEF Disjoint
<1> QED BY <1>4 DEF m

Moved(s, carried, column) == [s EXCEPT !.pending = carried, !.column = column]

LEMMA MovedWalker ==
  ASSUME NEW s, NEW above, Walker(s, above), NEW C, NEW e \in Nat
  PROVE  /\ Walker(Moved(s, C, e), above)
         /\ Moved(s, C, e).pending = C /\ Moved(s, C, e).column = e
BY DEF Walker, Moved

LEMMA SkipIs ==
  ASSUME NEW s, NEW above, Walker(s, above), FreeColumn(s.pending, s.column) \in Nat
  PROVE  /\ Walker(Skip(s), above)
         /\ Skip(s).column = FreeColumn(s.pending, s.column)
         /\ Skip(s).pending = Consume(s.pending, s.column, FreeColumn(s.pending, s.column))
<1> DEFINE e == FreeColumn(s.pending, s.column)
           C == Consume(s.pending, s.column, e)
           t == Moved(s, C, e)
<1>1. Skip(s) = t
  BY Zenon DEF Skip, Moved
<1>2. Walker(t, above) /\ t.pending = C /\ t.column = e
  <2>1. e \in Nat
    OBVIOUS
  <2> HIDE DEF C, e
  <2> QED BY <2>1, MovedWalker
<1> HIDE DEF t
<1> QED BY <1>1, <1>2

LEMMA CellWalks ==
  ASSUME NEW F \in Seq(Rectangles), NEW i \in Nat, i + 1 <= Len(F), NEW above \in Nat,
         F[i + 1].row = above + 1, Seated(F, i, above + 1, F[i + 1].column),
         NEW cell, cell.rowspan = F[i + 1].rowspan, cell.colspan = F[i + 1].colspan,
         NEW s, ProjectsWell(s, F, i, above)
  PROVE  \/ ProjectsWell(ProjectCell(s, cell), F, i + 1, above)
         \/ Refused(ProjectCell(s, cell), F)
<1> DEFINE q == above + 1
           m == i + 1
           p == F[m]
           t == ProjectCell(s, cell)
<1> DEFINE c == s.column
           P == s.pending
<1>1. /\ Walker(s, above) /\ c \in Nat
      /\ Walks(c, P, F, i, q) /\ ~Taken(F, i, q, c)
  BY DEF ProjectsWell, Walker
<1>2. /\ Disjoint(F, i) /\ Within(F, i) /\ q \in Nat /\ m \in 1..Len(F)
      /\ p \in Rectangles /\ p.row = q /\ Seated(F, i, q, p.column)
      /\ cell.rowspan = p.rowspan /\ cell.colspan = p.colspan
      /\ \A j \in 1..i : j \in 1..Len(F) /\ j # m
      /\ \A j \in 1..m : j \in 1..i \/ j = m
  <2>1. Disjoint(F, i) /\ Within(F, i)
    BY DEF ProjectsWell
  <2>2. q \in Nat /\ m \in 1..Len(F) /\ p \in Rectangles
    OBVIOUS
  <2>3. (\A j \in 1..i : j \in 1..Len(F) /\ j # m) /\ \A j \in 1..m : j \in 1..i \/ j = m
    BY <2>2
  <2> QED BY <2>1, <2>2, <2>3
<1> DEFINE d == FreeColumn(P, c)
           C == Consume(P, c, d)
           e == Edge(p)
           taken == d..(d + cell.colspan - 1)
           wrong == {k \in taken : k \in Columns(C) \/ k >= MaxColumns}
           Q == [k \in Columns(C) \cup (IF cell.rowspan > 1 THEN taken ELSE {}) |->
                    IF k \in taken THEN cell.rowspan - 1 ELSE C[k]]
           u == Skip(s)
<1> HIDE DEF q, m, p
<1>3. /\ d \in Nat /\ c <= d /\ Walks(d, C, F, i, q)
      /\ ~Taken(F, i, q, d) /\ d \notin DOMAIN C
  <2> HIDE DEF c, P
  <2> QED BY <1>1, <1>2, SkipWalks
<1>4. Walker(u, above) /\ u.column = d /\ u.pending = C
  BY <1>1, <1>3, SkipIs
<1>5. s.error = "" /\ s.above = above
  BY <1>1 DEF Walker
<1> DEFINE final == Skip([u EXCEPT !.pending = Q, !.column = d + cell.colspan])
<1>6. t = IF above + cell.rowspan > MaxRows THEN [s EXCEPT !.error = "TOO_MANY_ROWS"]
          ELSE IF wrong # {}
            THEN [s EXCEPT !.error =
                    IF \E k \in wrong \cap Columns(C) : \A j \in wrong : k <= j
                      THEN "INVALID_TABLE_SPAN" ELSE "TOO_MANY_COLUMNS"]
          ELSE final
  <2>1. u.column = d /\ u.pending = C /\ s.error = "" /\ s.above = above
    BY <1>4, <1>5
  <2> HIDE DEF u, d, C
  <2> QED BY <2>1, Zenon DEF ProjectCell, u
<1>7. \A x : [s EXCEPT !.error = x].error = x /\ "error" \in DOMAIN [s EXCEPT !.error = x]
  BY <1>1 DEF Walker
<1> HIDE DEF c, P
<1>8. /\ p.column = d
      /\ e \in Nat /\ d < e /\ Bottom(p) \in Nat /\ p.rowspan \in Nat /\ p.colspan \in Nat
      /\ \A r, k \in Nat : Covers(p, r, k) <=> q <= r /\ r <= Bottom(p) /\ d <= k /\ k < e
      /\ q <= Bottom(p)
  <2>1. p.column \in Nat
    BY <1>2, Rectangle
  <2>2. p.column = d
    BY <1>2, <1>3, <2>1, SeatIsFree
  <2> HIDE DEF d, e, C
  <2>3. /\ e \in Nat /\ p.column < e /\ p.rowspan \in Nat /\ p.colspan \in Nat /\ Bottom(p) \in Nat
        /\ p.row <= Bottom(p)
        /\ \A r, k \in Nat : Covers(p, r, k) <=> /\ p.row <= r /\ r <= Bottom(p)
                                                /\ p.column <= k /\ k < e
    BY <1>2, Rectangle DEF e
  <2> QED BY <1>2, <2>2, <2>3
<1>9. e = d + cell.colspan /\ Bottom(p) = above + cell.rowspan /\ cell.colspan \in Nat
      /\ cell.rowspan \in Nat
  <2>1. e = p.column + p.colspan /\ Bottom(p) = p.row + p.rowspan - 1
    BY DEF Edge, Bottom
  <2>2. q = above + 1
    BY DEF q
  <2> HIDE DEF d, e
  <2> QED BY <1>2, <1>8, <2>1, <2>2
<1> HIDE DEF d, C, e, t, Q, u, final
<1>10. taken = d..(e - 1)
  BY <1>3, <1>8, <1>9
<1> HIDE DEF taken
<1>11. /\ DOMAIN C \subseteq Nat
       /\ \A j \in 1..i : F[j] \in Rectangles /\ F[j].row <= q
       /\ \A k \in Nat : k >= d => (k \in DOMAIN C <=> Taken(F, i, q, k))
  <2>1. Carries(C, F, i, q, d)
    BY <1>3 DEF Walks
  <2>2. \A k \in Nat : k >= d => Turn(q, d, k) = q
    BY <1>3 DEF Turn
  <2> QED BY <2>1, <2>2 DEF Carries
<1>12. \A k \in taken : k \in Nat /\ d <= k /\ k < e /\ Covers(p, q, k)
  BY <1>2, <1>3, <1>8, <1>10
<1>13. CASE above + cell.rowspan > MaxRows
  <2>1. t.error = "TOO_MANY_ROWS" /\ "error" \in DOMAIN t
    BY <1>6, <1>7, <1>13
  <2>2. Bottom(F[m]) > MaxRows
    BY <1>9, <1>13 DEF p
  <2> QED BY <1>2, <2>1, <2>2 DEF Refused, Justified, t
<1>14. CASE ~(above + cell.rowspan > MaxRows) /\ wrong # {}
  <2> DEFINE first == \E k \in wrong \cap Columns(C) : \A j \in wrong : k <= j
  <2>1. /\ t.error = IF first THEN "INVALID_TABLE_SPAN" ELSE "TOO_MANY_COLUMNS"
        /\ "error" \in DOMAIN t
    <3> HIDE DEF wrong
    <3> QED BY <1>6, <1>7, <1>14
  <2>2. CASE first
    <3>1. PICK k \in taken : k \in DOMAIN C
      BY <2>2 DEF Columns
    <3>2. PICK j \in 1..i : Covers(F[j], q, k)
      BY <1>11, <1>12, <3>1 DEF Taken
    <3>3. Covers(F[m], q, k) /\ k \in Nat
      BY <1>12 DEF p
    <3>4. Overlapping(F)
      BY <1>2, <3>2, <3>3, OverlapFound
    <3>5. t.error = "INVALID_TABLE_SPAN"
      <4> HIDE DEF first
      <4> QED BY <2>1, <2>2
    <3> QED BY <2>1, <3>4, <3>5 DEF Refused, Justified, t
  <2>3. CASE ~first
    <3>1. wrong \in SUBSET Nat /\ wrong # {}
      BY <1>12, <1>14
    <3>2. PICK k \in wrong : \A j \in wrong : k <= j
      <4> HIDE DEF wrong
      <4> QED BY <3>1, LeastExists
    <3>3. k \notin Columns(C)
      BY <2>3, <3>2
    <3>4. k \in taken /\ k >= MaxColumns
      BY <3>2, <3>3
    <3>5. Edge(F[m]) > MaxColumns
      <4>1. k \in Nat /\ k < e /\ e \in Nat /\ MaxColumns \in Nat
        BY <1>8, <1>12, <3>4, LimitsAssumption DEF Positive
      <4> QED BY <3>4, <4>1 DEF e, p
    <3>6. t.error = "TOO_MANY_COLUMNS"
      <4> HIDE DEF first
      <4> QED BY <2>1, <2>3
    <3> QED BY <1>2, <2>1, <3>5, <3>6 DEF Refused, Justified, t
  <2> HIDE DEF first
  <2> QED BY <2>2, <2>3
<1>15. CASE ~(above + cell.rowspan > MaxRows) /\ wrong = {}
  <2>1. t = final /\ \A k \in taken : k \notin DOMAIN C /\ ~(k >= MaxColumns)
    BY <1>6, <1>15 DEF Columns
  <2>2. \A k \in Nat : d <= k /\ k < e => k \in taken
    BY <1>3, <1>8, <1>10
  <2>3. \A k \in DOMAIN C : ~(d <= k /\ k < e)
    BY <1>11, <2>1, <2>2
  <2>4. Laid(C, p, Q)
    <3>1. p.column..(p.column + p.colspan - 1) = taken
      BY <1>2, <1>8, <1>9 DEF taken
    <3> QED BY <1>2, <3>1 DEF Laid, Q, Columns
  <2>5. Walks(e, Q, F, m, q)
    <3>1. Joins(F[i + 1], q, d, C, Q)
      BY <1>2, <1>8, <2>3, <2>4 DEF Joins, p, e, m
    <3>2. Walks(Edge(F[i + 1]), Q, F, i + 1, q)
      <4>1. Walks(d, C, F, i, q) /\ d \in Nat /\ q \in Nat
        BY <1>2, <1>3
      <4> QED BY <3>1, <4>1, PlaceWalks
    <3> QED BY <3>2 DEF e, p, m
  <2>6. Disjoint(F, m)
    <3>1. \A j \in 1..m : F[j] \in Rectangles /\ F[j].row <= q
      BY <1>2, <1>11 DEF p
    <3>2. \A k \in Nat : Covers(F[m], q, k) => ~Taken(F, i, q, k)
      <4> TAKE k \in Nat
      <4> HAVE Covers(F[m], q, k)
      <4>1. d <= k /\ k < e
        BY <1>2, <1>8 DEF p
      <4>2. k \notin DOMAIN C
        BY <2>3, <4>1
      <4> QED BY <1>3, <1>11, <4>1, <4>2
    <3> QED BY <1>2, <3>1, <3>2, StaysDisjoint DEF m, p
  <2>7. Within(F, m)
    <3>1. Bottom(p) <= MaxRows
      BY <1>8, <1>9, <1>15, LimitsAssumption DEF Positive
    <3>2. e <= MaxColumns
      <4>1. e - 1 \in taken /\ e - 1 \in Nat /\ MaxColumns \in Nat
        BY <1>3, <1>8, <1>10, LimitsAssumption DEF Positive
      <4> QED BY <1>8, <2>1, <4>1
    <3> QED BY <1>2, <3>1, <3>2 DEF Within, p, e
  <2> DEFINE w == Moved(u, Q, e)
             f == FreeColumn(Q, e)
  <2>8. Walker(w, above) /\ w.pending = Q /\ w.column = e /\ t = Skip(w)
    <3>1. t = Skip(w)
      BY <1>9, <2>1 DEF final, Moved
    <3>2. Walker(w, above) /\ w.pending = Q /\ w.column = e
      BY <1>4, <1>8, MovedWalker
    <3> HIDE DEF w
    <3> QED BY <3>1, <3>2
  <2>9. /\ f \in Nat /\ Walks(f, Consume(Q, e, f), F, m, q) /\ ~Taken(F, m, q, f)
    BY <1>2, <1>8, <2>5, SkipWalks DEF m
  <2> HIDE DEF w
  <2>10. Walker(t, above) /\ t.column = f /\ t.pending = Consume(Q, e, f)
    BY <2>8, <2>9, SkipIs
  <2> HIDE DEF f
  <2>11. ProjectsWell(t, F, m, above)
    BY <2>6, <2>7, <2>9, <2>10 DEF ProjectsWell, q
  <2> QED BY <2>11 DEF t, m
<1> HIDE DEF wrong
<1> QED BY <1>13, <1>14, <1>15

\* What the rows above r + 1 leave behind.
Projects(P, F, i, r) ==
  /\ Carries(P, F, i, r + 1, 0)
  /\ Disjoint(F, i) /\ Within(F, i)

RowStart(r, P) == Skip([above |-> r, column |-> 0, pending |-> P, error |-> ""])

LEMMA RowStarts ==
  ASSUME NEW F, NEW i \in Nat, NEW r \in Nat, NEW P, Projects(P, F, i, r),
         \A j \in 1..i : F[j].row <= r
  PROVE  ProjectsWell(RowStart(r, P), F, i, r)
<1> DEFINE q == r + 1
           s == [above |-> r, column |-> 0, pending |-> P, error |-> ""]
           d == FreeColumn(P, 0)
<1>1. /\ DOMAIN s = {"above", "column", "pending", "error"} /\ s.above = r
      /\ s.column = 0 /\ s.pending = P /\ s.error = ""
  OBVIOUS
<1>7. s.column \in Nat
  OBVIOUS
<1>2. \A j \in 1..i : F[j].row < q
  <2> TAKE j \in 1..i
  <2>1. F[j].row \in Nat
    BY Rectangle DEF Projects, Carries
  <2> QED BY <2>1
<1>3. Walks(0, P, F, i, q)
  BY <1>2, RowBegins DEF Projects
<1> HIDE DEF s
<1>4. /\ d \in Nat /\ Walks(d, Consume(P, 0, d), F, i, q) /\ ~Taken(F, i, q, d)
  BY <1>3, SkipWalks
<1> HIDE DEF d
<1>5. Walker(s, r)
  BY <1>1, <1>7, Zenon DEF Walker
<1>6. Walker(Skip(s), r) /\ Skip(s).column = d /\ Skip(s).pending = Consume(P, 0, d)
  BY <1>1, <1>4, <1>5, SkipIs DEF d
<1> QED BY <1>4, <1>6 DEF ProjectsWell, Projects, RowStart, s

LEMMA NextCell ==
  ASSUME NEW rows \in RawTables, NEW F, LaidOut(rows, F),
         NEW r \in Nat, r + 1 \in 1..Len(rows), NEW k \in 1..Len(rows[r + 1])
  PROVE  /\ Done(F, r) \in Nat /\ Len(rows[r + 1]) \in Nat
         /\ Done(F, r) + k <= Len(F)
         /\ OfCell(F[Done(F, r) + k], rows, r + 1, k)
         /\ Seated(F, Done(F, r) + k - 1, r + 1, F[Done(F, r) + k].column)
<1>1. /\ Done(F, r) \in 0..Len(F) /\ Done(F, r + 1) \in 0..Len(F) /\ r = (r + 1) - 1
      /\ Done(F, r + 1) = Done(F, r) + Len(rows[r + 1])
      /\ F \in Seq(Rectangles) /\ Len(F) \in Nat
  <2>1. r \in 0..Len(rows) /\ r + 1 \in 0..Len(rows)
    OBVIOUS
  <2>2. r = (r + 1) - 1
    OBVIOUS
  <2>3. F \in Seq(Rectangles)
    BY DEF LaidOut
  <2>4. Done(F, r + 1) = Done(F, (r + 1) - 1) + Len(rows[r + 1])
    BY DEF LaidOut
  <2> QED BY <2>1, <2>2, <2>3, <2>4 DEF LaidOut
<1>2. rows[r + 1] \in Seq(Spans)
  BY DEF RawTables, Spans
<1> DEFINE j == Done(F, r) + k
<1>3. j \in 1..Len(F) /\ Len(rows[r + 1]) \in Nat
  BY <1>1, <1>2
<1>4. OfCell(F[j], rows, r + 1, k)
  BY <1>1 DEF LaidOut
<1> HIDE DEF j
<1>5. Seated(F, j - 1, F[j].row, F[j].column) /\ F[j].row = r + 1
  BY <1>3, <1>4 DEF LaidOut, OfCell
<1> QED BY <1>1, <1>3, <1>4, <1>5 DEF j

LEMMA RowProjects ==
  ASSUME NEW rows \in RawTables, NEW F, LaidOut(rows, F),
         NEW r \in Nat, r + 1 \in 1..Len(rows),
         NEW P, Projects(P, F, Done(F, r), r),
         NEW t, t = FoldLeft(ProjectCell, RowStart(r, P), rows[r + 1])
  PROVE  ProjectsWell(t, F, Done(F, r + 1), r) \/ Refused(t, F)
<1> DEFINE cells == rows[r + 1]
           m == Len(cells)
           i == Done(F, r)
           before == RowStart(r, P)
<1>1. /\ m \in Nat /\ cells \in Seq(Spans) /\ DOMAIN cells = 1..m
      /\ i \in Nat /\ i <= Len(F) /\ F \in Seq(Rectangles)
      /\ Done(F, r + 1) = i + m
      /\ \A j \in 1..i : F[j].row <= r
  <2>1. cells \in Seq(Spans)
    BY DEF RawTables, Spans
  <2>2. r \in 0..Len(rows) /\ r = (r + 1) - 1
    OBVIOUS
  <2>3. /\ F \in Seq(Rectangles) /\ i \in 0..Len(F)
        /\ \A j \in 1..Len(F) : j <= i <=> F[j].row <= r
    BY <2>2 DEF LaidOut
  <2>4. Done(F, r + 1) = Done(F, (r + 1) - 1) + Len(rows[r + 1])
    BY DEF LaidOut
  <2>5. \A j \in 1..i : j \in 1..Len(F) /\ j <= i
    BY <2>3
  <2> HIDE DEF i, cells
  <2> QED BY <2>1, <2>2, <2>3, <2>4, <2>5 DEF i, cells
<1>2. ProjectsWell(before, F, i, r)
  BY <1>1, RowStarts
<1> HIDE DEF before
<1>3. PICK g : Steps("project", before, cells, m, g)
  <2> HIDE DEF m, cells
  <2> QED BY <1>1, FoldSteps
<1>4. /\ g[0] = before /\ t = g[m]
      /\ \A k \in 1..m : g[k] = ProjectCell(g[k - 1], cells[k])
  BY <1>3 DEF Steps, StepOf, FoldOf, before
<1> DEFINE Q == {k \in Nat : k <= m => ProjectsWell(g[k], F, i + k, r) \/ Refused(g[k], F)}
<1>5. 0 \in Q
  BY <1>1, <1>2, <1>4
<1>6. ASSUME NEW k \in Nat, k \in Q PROVE k + 1 \in Q
  <2> SUFFICES ASSUME k + 1 <= m
               PROVE  ProjectsWell(g[k + 1], F, i + (k + 1), r) \/ Refused(g[k + 1], F)
    OBVIOUS
  <2> DEFINE n == k + 1
             h == i + k
             s == g[k]
             cell == cells[n]
  <2>1. n \in 1..m /\ n - 1 = k /\ i + n - 1 = h /\ i + n = h + 1 /\ h \in Nat /\ k <= m
    <3> HIDE DEF i, m
    <3> QED BY <1>1
  <2>2. g[n] = ProjectCell(s, cell)
    BY <1>4, <2>1
  <2>3. ProjectsWell(s, F, h, r) \/ Refused(s, F)
    BY <1>6, <2>1
  <2> HIDE DEF n, h, s, cell
  <2>4. CASE Refused(s, F)
    <3>1. s.error # ""
      BY <2>4 DEF Refused, Justified
    <3>2. ProjectCell(s, cell) = s
      BY <3>1, Zenon DEF ProjectCell
    <3> QED BY <2>2, <2>4, <3>2 DEF n
  <2>5. CASE ProjectsWell(s, F, h, r)
    <3>1. /\ h + 1 <= Len(F) /\ OfCell(F[h + 1], rows, r + 1, n)
          /\ Seated(F, h, r + 1, F[h + 1].column)
      <4>1. /\ i + n <= Len(F) /\ OfCell(F[i + n], rows, r + 1, n)
            /\ Seated(F, i + n - 1, r + 1, F[i + n].column)
        <5> HIDE DEF i
        <5> QED BY <2>1, NextCell DEF i, m, cells
      <4> QED BY <2>1, <4>1
    <3>2. /\ F[h + 1].row = r + 1
          /\ cell.rowspan = F[h + 1].rowspan /\ cell.colspan = F[h + 1].colspan
      BY <3>1 DEF OfCell, cell, cells
    <3>3. ProjectsWell(ProjectCell(s, cell), F, h + 1, r) \/ Refused(ProjectCell(s, cell), F)
      BY <1>1, <2>1, <2>5, <3>1, <3>2, CellWalks
    <3> QED BY <2>1, <2>2, <3>3 DEF n
  <2> QED BY <2>3, <2>4, <2>5
<1> HIDE DEF Q
<1>7. Nat \subseteq Q
  BY <1>5, <1>6, Induction
<1>8. ProjectsWell(g[m], F, i + m, r) \/ Refused(g[m], F)
  BY <1>1, <1>7 DEF Q
<1> QED BY <1>1, <1>4, <1>8

\* The row ends: what it leaves behind and how wide it is.
RowDone(t, F, i, q) ==
  /\ t.column \in Nat /\ Reaches(F, i, t.column)
  /\ Projects(t.pending, F, i, q)
  /\ \A j \in 1..i : F[j].row = q => Edge(F[j]) <= t.column

LEMMA RestIs ==
  ASSUME NEW F, NEW i \in Nat, NEW r \in Nat, NEW s,
         ProjectsWell(s, F, i, r) \/ Refused(s, F)
  PROVE  LET t == ProjectRest(s)
         IN  \/ t.error = "" /\ RowDone(t, F, i, r + 1)
             \/ t.error # "" /\ Justified(t.error, F)
<1> DEFINE t == ProjectRest(s)
           c == s.column
           P == s.pending
           e == RowEnd(c, P)
           w == IF \E k \in Columns(P) : k >= c THEN e ELSE c
<1>1. t = Moved(s, Consume(P, c, e), w)
  BY Zenon DEF ProjectRest, Moved, RowEnd
<1>2. CASE Refused(s, F)
  <2>1. \A C, x : Moved(s, C, x).error = s.error
    BY <1>2 DEF Refused, Moved
  <2>2. t.error = s.error
    BY <1>1, <2>1
  <2>3. s.error # ""
    BY <1>2 DEF Refused, Justified
  <2> HIDE DEF t
  <2> QED BY <1>2, <2>2, <2>3 DEF Refused, t
<1>3. CASE ProjectsWell(s, F, i, r)
  <2>1. /\ Walker(s, r) /\ c \in Nat /\ Walks(c, P, F, i, r + 1)
        /\ Disjoint(F, i) /\ Within(F, i)
    BY <1>3 DEF ProjectsWell, Walker
  <2> HIDE DEF c, P, t
  <2>2. /\ e \in Nat /\ c <= e /\ Reaches(F, i, e)
        /\ Carries(Consume(P, c, e), F, i, (r + 1) + 1, 0)
        /\ \A j \in 1..i : F[j].row = r + 1 => Edge(F[j]) <= e
        /\ ~(\E k \in Columns(P) : k >= c) => e = c
    <3> DEFINE q == r + 1
    <3>1. q \in Nat /\ Walks(c, P, F, i, q)
      BY <2>1
    <3> HIDE DEF q
    <3>2. /\ e \in Nat /\ c <= e /\ Reaches(F, i, e)
          /\ Carries(Consume(P, c, e), F, i, q + 1, 0)
          /\ \A j \in 1..i : F[j].row = q => Edge(F[j]) <= e
          /\ ~(\E k \in Columns(P) : k >= c) => e = c
      BY <2>1, <3>1, RestWalks
    <3> QED BY <3>2 DEF q
  <2> HIDE DEF e
  <2>3. w = e
    BY <2>2
  <2>4. Walker(t, r) /\ t.pending = Consume(P, c, e) /\ t.column = e
    BY <1>1, <2>1, <2>2, <2>3, MovedWalker
  <2>5. t.error = ""
    BY <2>4 DEF Walker
  <2> QED BY <2>1, <2>2, <2>4, <2>5 DEF RowDone, Projects, t
<1> QED BY <1>2, <1>3

-----------------------------------------------------------------------------
(* Rows and columns of a layout, and of what is laid of it.                *)

Wide(F, i, w) ==
  /\ w \in Nat /\ Reaches(F, i, w)
  /\ \A j \in 1..i : Edge(F[j]) <= w

Tall(F, i, r, h) ==
  /\ h \in Nat /\ r <= h
  /\ \A j \in 1..i : Bottom(F[j]) <= h
  /\ h = r \/ \E j \in 1..i : h = Bottom(F[j])

LEMMA SizeIs ==
  ASSUME NEW F \in Seq(Rectangles), NEW rows \in RawTables
  PROVE  /\ Wide(F, Len(F), Width(F))
         /\ Tall(F, Len(F), Len(rows), Height(rows, F))
<1> DEFINE n == Len(F)
           r == Len(rows)
           ends == {p.column + p.colspan : p \in Range(F)}
           low == {r} \cup {p.row + p.rowspan - 1 : p \in Range(F)}
<1>1. /\ n \in Nat /\ r \in Nat /\ \A j \in 1..n : F[j] \in Rectangles /\ F[j] \in Range(F)
      /\ \A p \in Range(F) : \E j \in 1..n : p = F[j]
  BY DEF Range, RawTables, Spans
<1>2. PICK b \in Nat : \A j \in 1..n : Edge(F[j]) <= b /\ Bottom(F[j]) <= b
  BY EdgesBounded
<1> HIDE DEF n, r
<1>3. \A j \in 1..n : Edge(F[j]) \in Nat /\ Bottom(F[j]) \in Nat
  BY <1>1, Rectangle
<1>4. /\ \A j \in 1..n : Edge(F[j]) \in ends /\ Bottom(F[j]) \in low
      /\ \A k \in ends : \E j \in 1..n : k = Edge(F[j])
      /\ \A k \in low : k = r \/ \E j \in 1..n : k = Bottom(F[j])
      /\ r \in low
  BY <1>1 DEF Edge, Bottom
<1>5. Width(F) = Largest(ends) /\ Height(rows, F) = Largest(low)
  BY DEF Width, Height, r
<1> HIDE DEF ends, low
<1>6. /\ ends \in SUBSET Nat /\ \A k \in ends : k <= b
      /\ low \in SUBSET Nat /\ \A k \in low : k <= b + r
  BY <1>1, <1>2, <1>3, <1>4
<1>7. /\ Width(F) \in Nat /\ \A k \in ends : k <= Width(F)
      /\ Width(F) = 0 \/ Width(F) \in ends
  BY <1>5, <1>6, LargestIs
<1>8. Height(rows, F) \in low /\ \A k \in low : k <= Height(rows, F)
  <2>1. low # {} /\ b + r \in Nat
    BY <1>1, <1>4
  <2> QED BY <1>5, <1>6, <2>1, LargestIs
<1>9. Wide(F, n, Width(F))
  <2>1. \A j \in 1..n : Edge(F[j]) <= Width(F)
    BY <1>4, <1>7
  <2>2. Reaches(F, n, Width(F))
    <3>1. CASE Width(F) = 0
      BY <3>1 DEF Reaches
    <3>2. CASE Width(F) \in ends
      <4>1. PICK j \in 1..n : Width(F) = Edge(F[j])
        BY <1>4, <3>2
      <4>2. Width(F) <= Edge(F[j])
        BY <1>7, <4>1
      <4> QED BY <4>2 DEF Reaches
    <3> QED BY <1>7, <3>1, <3>2
  <2> QED BY <1>7, <2>1, <2>2 DEF Wide
<1>10. Tall(F, n, r, Height(rows, F))
  BY <1>4, <1>6, <1>8 DEF Tall
<1> QED BY <1>9, <1>10 DEF n, r

LEMMA WidthBounds ==
  ASSUME NEW F, NEW n \in Nat, \A j \in 1..n : F[j] \in Rectangles,
         NEW i \in 0..n, NEW v, Wide(F, i, v), NEW w, Wide(F, n, w)
  PROVE  v <= w /\ (i = n => v = w)
<1>1. v \in Nat /\ w \in Nat /\ \A j \in 1..i : j \in 1..n
  BY DEF Wide
<1>2. v <= w
  <2>1. CASE v = 0
    BY <1>1, <2>1
  <2>2. CASE v # 0
    <3>1. PICK j \in 1..i : v <= Edge(F[j])
      BY <2>2 DEF Wide, Reaches
    <3>2. Edge(F[j]) \in Nat /\ Edge(F[j]) <= w
      BY <1>1, Rectangle DEF Wide
    <3> QED BY <1>1, <3>1, <3>2
  <2> QED BY <2>1, <2>2
<1>3. ASSUME i = n PROVE w <= v
  <2>1. CASE w = 0
    BY <1>1, <2>1
  <2>2. CASE w # 0
    <3>1. PICK j \in 1..n : w <= Edge(F[j])
      BY <2>2 DEF Wide, Reaches
    <3>2. Edge(F[j]) \in Nat /\ Edge(F[j]) <= v
      BY <1>3, Rectangle DEF Wide
    <3> QED BY <1>1, <3>1, <3>2
  <2> QED BY <2>1, <2>2
<1> QED BY <1>1, <1>2, <1>3

LEMMA HeightBounds ==
  ASSUME NEW F, NEW n \in Nat, \A j \in 1..n : F[j] \in Rectangles,
         NEW i \in 0..n, NEW r \in Nat, NEW s \in Nat, r <= s,
         NEW g, Tall(F, i, r, g), NEW h, Tall(F, n, s, h)
  PROVE  g <= h /\ (i = n /\ r = s => g = h)
<1>1. g \in Nat /\ h \in Nat /\ r <= g /\ s <= h /\ \A j \in 1..i : j \in 1..n
  BY DEF Tall
<1>2. g <= h
  <2>1. CASE g = r
    BY <1>1, <2>1
  <2>2. CASE g # r
    <3>1. PICK j \in 1..i : g = Bottom(F[j])
      BY <2>2 DEF Tall
    <3>2. Bottom(F[j]) <= h
      BY <1>1 DEF Tall
    <3> QED BY <1>1, <3>1, <3>2
  <2> QED BY <2>1, <2>2
<1>3. ASSUME i = n, r = s PROVE h <= g
  <2>1. CASE h = s
    BY <1>1, <1>3, <2>1
  <2>2. CASE h # s
    <3>1. PICK j \in 1..n : h = Bottom(F[j])
      BY <2>2 DEF Tall
    <3>2. Bottom(F[j]) <= g
      BY <1>3 DEF Tall
    <3> QED BY <1>1, <3>1, <3>2
  <2> QED BY <2>1, <2>2
<1> QED BY <1>1, <1>2, <1>3

\* The table if no source row followed.
LEMMA ShapeIs ==
  ASSUME NEW P, NEW F, NEW i \in Nat, NEW r \in Nat, NEW w,
         Carries(P, F, i, r + 1, 0), Wide(F, i, w)
  PROVE  /\ Shape(r, w, P)[2] = w
         /\ Tall(F, i, r, Shape(r, w, P)[1])
<1> DEFINE rest == {P[k] : k \in DOMAIN P}
           ends == {w} \cup Ends(P)
           m == Trailing(P)
<1>1. Shape(r, w, P) = <<r + m, Largest(ends)>>
  BY DEF Shape
<1>2. /\ DOMAIN P \subseteq Nat
      /\ \A j \in 1..i : F[j] \in Rectangles
      /\ \A k \in Nat : k \in DOMAIN P <=> Taken(F, i, r + 1, k)
      /\ \A k \in DOMAIN P : \A j \in 1..i :
           Covers(F[j], r + 1, k) => P[k] = Bottom(F[j]) - (r + 1) + 1
  <2>1. \A k \in Nat : Turn(r + 1, 0, k) = r + 1
    BY DEF Turn
  <2>2. \A j \in 1..i : F[j] \in Rectangles
    BY DEF Carries
  <2>3. DOMAIN P \subseteq Nat /\ \A k \in Nat : k \in DOMAIN P <=> Taken(F, i, r + 1, k)
    BY <2>1 DEF Carries
  <2>4. \A k \in DOMAIN P : \A j \in 1..i :
           Covers(F[j], r + 1, k) => P[k] = Bottom(F[j]) - (r + 1) + 1
    BY <2>1, <2>3 DEF Carries
  <2> QED BY <2>2, <2>3, <2>4
<1>3. PICK b \in Nat : \A j \in 1..i : Edge(F[j]) <= b /\ Bottom(F[j]) <= b
  BY <1>2, PrefixBounded
<1>4. \A j \in 1..i : Edge(F[j]) \in Nat /\ Bottom(F[j]) \in Nat
  BY <1>2, Rectangle
<1>5. ASSUME NEW k \in DOMAIN P
      PROVE  k \in Nat /\ \E j \in 1..i : /\ k < Edge(F[j]) /\ Bottom(F[j]) > r
                                          /\ P[k] = Bottom(F[j]) - r
  <2>1. k \in Nat /\ r + 1 \in Nat
    BY <1>2
  <2>2. PICK j \in 1..i : Covers(F[j], r + 1, k)
    BY <1>2, <2>1 DEF Taken
  <2>3. F[j] \in Rectangles /\ Bottom(F[j]) \in Nat
    BY <1>2, <1>4
  <2>4. k < Edge(F[j]) /\ r + 1 <= Bottom(F[j])
    BY <2>1, <2>2, <2>3, Rectangle
  <2>5. P[k] = Bottom(F[j]) - (r + 1) + 1
    BY <1>2, <2>2
  <2> QED BY <2>1, <2>3, <2>4, <2>5
<1>6. ASSUME NEW j \in 1..i, Bottom(F[j]) > r, F[j].row <= r + 1
      PROVE  Bottom(F[j]) - r \in rest
  <2>1. F[j] \in Rectangles /\ r + 1 \in Nat /\ r + 1 <= Bottom(F[j])
    BY <1>2, <1>4, <1>6
  <2>2. F[j].column \in Nat /\ F[j].column < Edge(F[j])
    BY <2>1, Rectangle
  <2>3. Covers(F[j], r + 1, F[j].column)
    <3>1. F[j].column <= F[j].column
      BY <2>2
    <3> QED BY <1>6, <2>1, <2>2, <3>1, Rectangle
  <2>4. F[j].column \in DOMAIN P
    BY <1>2, <2>2, <2>3 DEF Taken
  <2>5. P[F[j].column] = Bottom(F[j]) - (r + 1) + 1
    BY <1>2, <2>3, <2>4
  <2>6. P[F[j].column] = Bottom(F[j]) - r
    BY <1>4, <2>5
  <2> QED BY <2>4, <2>6
<1>7. /\ rest \in SUBSET Nat /\ \A k \in rest : k <= b
  <2>1. ASSUME NEW k \in DOMAIN P PROVE P[k] \in Nat /\ P[k] <= b
    BY <1>3, <1>4, <1>5
  <2> QED BY <2>1
<1>8. m = Largest(rest)
  BY DEF Trailing, Columns
<1>9. \A k \in rest : \E j \in 1..i : Bottom(F[j]) > r /\ k = Bottom(F[j]) - r
  BY <1>5
<1>10. w \in Nat /\ ends \in SUBSET Nat /\ w \in ends /\ \A k \in ends : k <= w
  <2>1. w \in Nat /\ \A j \in 1..i : Edge(F[j]) <= w
    BY DEF Wide
  <2>2. ASSUME NEW k \in DOMAIN P PROVE k + 1 \in Nat /\ k + 1 <= w
    BY <1>4, <1>5, <2>1
  <2>3. \A x \in ends : x = w \/ \E k \in DOMAIN P : x = k + 1
    BY DEF Ends, Columns
  <2> HIDE DEF ends
  <2>4. \A x \in ends : x \in Nat /\ x <= w
    BY <2>1, <2>2, <2>3
  <2>5. w \in ends
    BY DEF ends
  <2> QED BY <2>1, <2>4, <2>5
<1> HIDE DEF rest, ends, m
<1>11. /\ m \in Nat /\ \A k \in rest : k <= m
       /\ m = 0 \/ m \in rest
  BY <1>7, <1>8, LargestIs
<1>12. Largest(ends) = w
  <2>1. Largest(ends) \in ends /\ \A k \in ends : k <= Largest(ends)
    BY <1>10, LargestIs
  <2>2. Largest(ends) \in Nat /\ Largest(ends) <= w /\ w <= Largest(ends)
    BY <1>10, <2>1
  <2> QED BY <1>10, <2>2
<1>13. Tall(F, i, r, r + m)
  <2>1. \A j \in 1..i : F[j].row <= r + 1
    BY DEF Carries
  <2>2. ASSUME NEW j \in 1..i PROVE Bottom(F[j]) <= r + m
    <3>1. CASE Bottom(F[j]) > r
      <4>1. Bottom(F[j]) - r <= m
        BY <1>6, <1>11, <2>1, <3>1
      <4> QED BY <1>4, <1>11, <4>1
    <3>2. CASE ~(Bottom(F[j]) > r)
      BY <1>4, <1>11, <3>2
    <3> QED BY <3>1, <3>2
  <2>3. r + m = r \/ \E j \in 1..i : r + m = Bottom(F[j])
    <3>1. CASE m = 0
      BY <3>1
    <3>2. CASE m \in rest
      <4>1. PICK j \in 1..i : Bottom(F[j]) > r /\ m = Bottom(F[j]) - r
        BY <1>9, <3>2
      <4>2. r + m = Bottom(F[j])
        BY <1>4, <4>1
      <4> QED BY <4>2
    <3> QED BY <1>11, <3>1, <3>2
  <2>4. r + m \in Nat /\ r <= r + m
    BY <1>11
  <2> QED BY <2>2, <2>3, <2>4 DEF Tall
<1> QED BY <1>1, <1>12, <1>13

-----------------------------------------------------------------------------
(* _project_table_shape on the table being extracted.                      *)

Rows == raw[table]
Map == Layout(raw[table])
Laying == Done(Map, row)

Extracting ==
  /\ raw \in RawDocuments /\ table \in 1..Len(raw)
  /\ total \in Nat /\ total <= MaxTotalCells

Shaped == Shape(row, max_width, pending)

ProjectInv ==
  /\ row \in 0..Len(Rows)
  /\ Projects(pending, Map, Laying, row)
  /\ Wide(Map, Laying, max_width)
  /\ row > 0 => total + Shaped[1] * Shaped[2] <= MaxTotalCells

LEMMA ProductGrows ==
  ASSUME NEW a \in Nat, NEW b \in Nat, NEW c \in Nat, NEW d \in Nat, a <= c, b <= d
  PROVE  a * b <= c * d /\ a * b \in Nat /\ c * d \in Nat
<1>1. a * b <= c * b
  BY SMTT(20)
<1>2. c * b <= c * d
  BY SMTT(20)
<1> QED BY <1>1, <1>2

LEMMA RawTable ==
  ASSUME Extracting
  PROVE  /\ Rows \in RawTables /\ Len(Rows) \in Nat /\ Len(Rows) <= MaxRows
         /\ LaidOut(Rows, Map) /\ Map \in Seq(Rectangles)
         /\ Len(Map) \in Nat /\ \A j \in 1..Len(Map) : Map[j] \in Rectangles
         /\ \A r \in 0..Len(Rows) : Done(Map, r) \in 0..Len(Map)
         /\ Done(Map, Len(Rows)) = Len(Map)
<1>1. raw \in Seq(RawTables) /\ table \in DOMAIN raw
  BY RawAssumption DEF Extracting
<1>2. Rows \in RawTables /\ Len(Rows) <= MaxRows
  BY <1>1, RawAssumption DEF Extracting, Rows
<1>3. LaidOut(Rows, Map)
  BY <1>2, LayoutIs DEF Rows, Map
<1>4. Len(Rows) \in Nat
  BY <1>2 DEF RawTables
<1>5. Map \in Seq(Rectangles) /\ Done(Map, Len(Rows)) = Len(Map)
      /\ \A r \in 0..Len(Rows) : Done(Map, r) \in 0..Len(Map)
  BY <1>3 DEF LaidOut
<1> QED BY <1>2, <1>3, <1>4, <1>5

\* What the exceptions and the size say of the layout.
Size == <<Height(Rows, Map), Width(Map)>>

RefusedFor(error) ==
  /\ error = "INVALID_TABLE_SPAN" => Overlapping(Map)
  /\ error = "TOO_MANY_ROWS" => Height(Rows, Map) > MaxRows
  /\ error = "TOO_MANY_COLUMNS" => Width(Map) > MaxColumns
  /\ error = "TOO_MANY_CELLS" => total + Height(Rows, Map) * Width(Map) > MaxTotalCells

LEMMA JustifiedRefusal ==
  ASSUME Extracting, NEW error, Justified(error, Map)
  PROVE  RefusedFor(error)
<1>1. /\ Rows \in RawTables /\ Map \in Seq(Rectangles) /\ Len(Map) \in Nat
      /\ \A j \in 1..Len(Map) : Edge(Map[j]) \in Nat /\ Bottom(Map[j]) \in Nat
  BY RawTable, Rectangle
<1>2. Wide(Map, Len(Map), Width(Map)) /\ Tall(Map, Len(Map), Len(Rows), Height(Rows, Map))
  BY <1>1, SizeIs
<1>3. /\ Width(Map) \in Nat /\ Height(Rows, Map) \in Nat
      /\ \A j \in 1..Len(Map) : Edge(Map[j]) <= Width(Map) /\ Bottom(Map[j]) <= Height(Rows, Map)
  BY <1>2 DEF Wide, Tall
<1>4. MaxRows \in Nat /\ MaxColumns \in Nat
  BY LimitsAssumption DEF Positive
<1>5. CASE error = "INVALID_TABLE_SPAN"
  BY <1>5 DEF Justified, RefusedFor
<1>6. CASE error = "TOO_MANY_ROWS"
  <2>1. PICK j \in 1..Len(Map) : Bottom(Map[j]) > MaxRows
    BY <1>6 DEF Justified
  <2>2. Height(Rows, Map) > MaxRows
    BY <1>1, <1>3, <1>4, <2>1
  <2> QED BY <1>6, <2>2 DEF RefusedFor
<1>7. CASE error = "TOO_MANY_COLUMNS"
  <2>1. PICK j \in 1..Len(Map) : Edge(Map[j]) > MaxColumns
    BY <1>7 DEF Justified
  <2>2. Width(Map) > MaxColumns
    BY <1>1, <1>3, <1>4, <2>1
  <2> QED BY <1>7, <2>2 DEF RefusedFor
<1> QED BY <1>5, <1>6, <1>7 DEF Justified

LEMMA ShapeFits ==
  ASSUME Extracting, NEW r \in 0..Len(Rows), NEW w, NEW P,
         Projects(P, Map, Done(Map, r), r), Wide(Map, Done(Map, r), w)
  PROVE  /\ Shape(r, w, P)[1] \in Nat /\ Shape(r, w, P)[2] \in Nat
         /\ Shape(r, w, P)[1] <= Height(Rows, Map)
         /\ Shape(r, w, P)[2] <= Width(Map)
         /\ r = Len(Rows) => /\ Shape(r, w, P)[1] = Height(Rows, Map)
                             /\ Shape(r, w, P)[2] = Width(Map)
<1> DEFINE i == Done(Map, r)
           n == Len(Map)
           g == Shape(r, w, P)[1]
           v == Shape(r, w, P)[2]
<1>1. /\ Rows \in RawTables /\ Map \in Seq(Rectangles) /\ n \in Nat /\ i \in 0..n
      /\ Len(Rows) \in Nat /\ r \in Nat /\ r <= Len(Rows) /\ i \in Nat
      /\ \A j \in 1..n : Map[j] \in Rectangles
      /\ r = Len(Rows) => i = n
  BY RawTable
<1>2. Wide(Map, n, Width(Map)) /\ Tall(Map, n, Len(Rows), Height(Rows, Map))
  BY <1>1, SizeIs
<1> HIDE DEF i, n, g, v
<1>3. Carries(P, Map, i, r + 1, 0) /\ Wide(Map, i, w)
  BY DEF Projects, i
<1>4. v = w /\ Tall(Map, i, r, g)
  BY <1>1, <1>3, ShapeIs DEF v, g
<1>5. v <= Width(Map) /\ (i = n => v = Width(Map)) /\ v \in Nat
  BY <1>1, <1>2, <1>3, <1>4, WidthBounds DEF Wide
<1>6. g <= Height(Rows, Map) /\ (i = n /\ r = Len(Rows) => g = Height(Rows, Map)) /\ g \in Nat
  BY <1>1, <1>2, <1>4, HeightBounds DEF Tall
<1> QED BY <1>1, <1>5, <1>6 DEF g, v

LEMMA WideNext ==
  ASSUME NEW F, NEW i \in Nat, NEW h \in Nat, i <= h, \A j \in 1..h : F[j] \in Rectangles,
         NEW q, NEW w, Wide(F, i, w), NEW c \in Nat, Reaches(F, h, c),
         \A j \in 1..h : F[j].row = q => Edge(F[j]) <= c,
         \A j \in 1..h : j \in 1..i \/ F[j].row = q
  PROVE  Wide(F, h, Largest({w, c}))
<1> DEFINE v == Largest({w, c})
<1>1. w \in Nat /\ Reaches(F, i, w) /\ \A j \in 1..i : Edge(F[j]) <= w
  BY DEF Wide
<1>2. v \in {w, c} /\ w <= v /\ c <= v
  <2> DEFINE U == {w, c}
             b == w + c
  <2>1. U \in SUBSET Nat /\ U # {} /\ b \in Nat /\ \A k \in U : k <= b
    BY <1>1
  <2>2. v = Largest(U) /\ w \in U /\ c \in U
    OBVIOUS
  <2> HIDE DEF U, b, v
  <2>3. v \in U /\ \A k \in U : k <= v
    BY <2>1, <2>2, LargestIs
  <2> QED BY <2>2, <2>3 DEF U
<1> HIDE DEF v
<1>3. \A j \in 1..i : j \in 1..h
  OBVIOUS
<1>4. Reaches(F, h, w)
  BY <1>1, <1>3 DEF Reaches
<1>5. v \in Nat /\ Reaches(F, h, v)
  BY <1>1, <1>2, <1>4
<1>6. ASSUME NEW j \in 1..h PROVE Edge(F[j]) <= v
  <2>1. Edge(F[j]) \in Nat
    BY Rectangle
  <2>2. Edge(F[j]) <= w \/ Edge(F[j]) <= c
    BY <1>1
  <2> QED BY <1>1, <1>2, <1>5, <2>1, <2>2
<1>7. Wide(F, h, v)
  BY <1>5, <1>6 DEF Wide
<1> QED BY <1>7 DEF v

LEMMA RowsAreLaid ==
  ASSUME Extracting, NEW r \in Nat, r + 1 \in 1..Len(Rows)
  PROVE  /\ Done(Map, r) \in Nat /\ Done(Map, r + 1) \in Nat
         /\ Done(Map, r) <= Done(Map, r + 1) /\ Done(Map, r + 1) <= Len(Map)
         /\ \A j \in 1..Done(Map, r + 1) :
              /\ Map[j] \in Rectangles /\ Map[j].row <= r + 1
              /\ j \in 1..Done(Map, r) \/ Map[j].row = r + 1
<1> DEFINE i == Done(Map, r)
           h == Done(Map, r + 1)
<1>1. r \in 0..Len(Rows) /\ r + 1 \in 0..Len(Rows) /\ Len(Rows) \in Nat
  BY RawTable
<1>2. /\ i \in 0..Len(Map) /\ h \in 0..Len(Map) /\ Len(Map) \in Nat
      /\ \A j \in 1..Len(Map) : /\ Map[j] \in Rectangles
                                /\ j <= i <=> Map[j].row <= r
                                /\ j <= h <=> Map[j].row <= r + 1
  BY <1>1, RawTable DEF LaidOut
<1>3. i <= h
  <2> HIDE DEF i, h
  <2>1. SUFFICES ASSUME h < i PROVE FALSE
    BY <1>2
  <2>2. i \in 1..Len(Map) /\ i <= i /\ ~(i <= h)
    BY <1>2, <2>1
  <2>3. Map[i].row \in Nat /\ Map[i].row <= r /\ ~(Map[i].row <= r + 1)
    BY <1>2, <2>2, Rectangle
  <2> QED BY <2>3
<1> HIDE DEF i, h
<1>4. ASSUME NEW j \in 1..h
      PROVE  /\ Map[j] \in Rectangles /\ Map[j].row <= r + 1
             /\ j \in 1..i \/ Map[j].row = r + 1
  <2>1. j \in 1..Len(Map) /\ j <= h
    BY <1>2
  <2>2. Map[j] \in Rectangles /\ Map[j].row <= r + 1 /\ (j <= i <=> Map[j].row <= r)
    BY <1>2, <2>1
  <2>3. Map[j].row \in Nat
    BY <2>2, Rectangle
  <2>4. j \in 1..i \/ ~(j <= i)
    BY <1>2
  <2> QED BY <2>2, <2>3, <2>4
<1> QED BY <1>2, <1>3, <1>4 DEF i, h

\* What _expand_table starts from.
Admitted ==
  /\ projected = Size
  /\ Disjoint(Map, Len(Map))
  /\ Size[1] <= MaxRows /\ Size[2] <= MaxColumns
  /\ total + Size[1] * Size[2] <= MaxTotalCells

LEMMA ProjectRowStep ==
  ASSUME Extracting, ProjectInv, ProjectRow
  PROVE  \/ /\ UNCHANGED <<raw, table, total>> /\ spans' = spans
            /\ ProjectInv'
         \/ /\ UNCHANGED <<raw, table, row, total>> /\ spans' # ""
            /\ RefusedFor(spans')
            /\ spans' \in {"INVALID_TABLE_SPAN", "TOO_MANY_ROWS", "TOO_MANY_COLUMNS",
                           "TOO_MANY_CELLS"}
<1> DEFINE n == row + 1
           t == FoldLeft(ProjectCell, RowStart(row, pending), Rows[n])
           after == ProjectRest(t)
           width == Largest({max_width, after.column})
           shape == Shape(n, width, after.pending)
           h == Done(Map, n)
<1>1. /\ row < Len(Rows)
      /\ IF after.error # "" THEN RefuseSpans(after.error)
         ELSE IF total + shape[1] * shape[2] > MaxTotalCells THEN RefuseSpans("TOO_MANY_CELLS")
         ELSE /\ row' = n /\ max_width' = width /\ pending' = after.pending
              /\ UNCHANGED <<spans, raw, table, projected, grid, total>>
  BY Zenon DEF ProjectRow, RowStart, Rows
<1>2. /\ row \in Nat /\ n \in 1..Len(Rows) /\ Len(Rows) \in Nat /\ n > 0 /\ n \in 0..Len(Rows)
      /\ Rows \in RawTables /\ LaidOut(Rows, Map)
      /\ Projects(pending, Map, Laying, row) /\ Wide(Map, Laying, max_width)
  <2>1. /\ row \in 0..Len(Rows)
        /\ Projects(pending, Map, Laying, row) /\ Wide(Map, Laying, max_width)
    BY DEF ProjectInv
  <2>2. Rows \in RawTables /\ LaidOut(Rows, Map) /\ Len(Rows) \in Nat
    BY RawTable
  <2>3. PICK m : m = Len(Rows)
    OBVIOUS
  <2>4. row < m /\ m \in Nat /\ row \in 0..m
    BY <1>1, <2>1, <2>2, <2>3
  <2>5. row \in Nat /\ n \in 1..m /\ n > 0 /\ n \in 0..m
    BY <2>4
  <2> HIDE DEF n
  <2> QED BY <2>1, <2>2, <2>3, <2>5
<1> HIDE DEF n, after, width, shape, h
<1>3. \/ after.error = "" /\ RowDone(after, Map, h, n)
      \/ after.error # "" /\ Justified(after.error, Map)
  <2>1. ProjectsWell(t, Map, h, row) \/ Refused(t, Map)
    BY <1>2, RowProjects DEF n, h, Laying
  <2>2. h \in Nat
    BY <1>2, RowsAreLaid DEF n, h
  <2> HIDE DEF t
  <2> QED BY <1>2, <2>1, <2>2, RestIs DEF after, n
<1>4. CASE after.error # ""
  <2>1. RefuseSpans(after.error) /\ Justified(after.error, Map)
    BY <1>1, <1>3, <1>4
  <2>2. RefusedFor(after.error)
    BY <2>1, JustifiedRefusal
  <2> QED BY <2>1, <2>2 DEF RefuseSpans, Justified
<1>5. CASE after.error = ""
  <2>1. /\ after.column \in Nat /\ Reaches(Map, h, after.column)
        /\ Projects(after.pending, Map, h, n)
        /\ \A j \in 1..h : Map[j].row = n => Edge(Map[j]) <= after.column
    BY <1>3, <1>5 DEF RowDone
  <2>2. /\ Laying \in Nat /\ h \in Nat /\ Laying <= h
        /\ \A j \in 1..h : Map[j] \in Rectangles /\ (j \in 1..Laying \/ Map[j].row = n)
    BY <1>2, RowsAreLaid DEF n, h, Laying
  <2>3. Wide(Map, h, width)
    BY <1>2, <2>1, <2>2, WideNext DEF width
  <2>4. /\ shape[1] \in Nat /\ shape[2] \in Nat
        /\ shape[1] <= Height(Rows, Map) /\ shape[2] <= Width(Map)
    BY <1>2, <2>1, <2>3, ShapeFits DEF shape, h
  <2>5. CASE total + shape[1] * shape[2] > MaxTotalCells
    <3>1. RefuseSpans("TOO_MANY_CELLS")
      BY <1>1, <1>5, <2>5
    <3>2. /\ Height(Rows, Map) \in Nat /\ Width(Map) \in Nat
      BY RawTable, SizeIs DEF Wide, Tall
    <3>3. PICK a, b : a = shape[1] * shape[2] /\ b = Height(Rows, Map) * Width(Map)
      OBVIOUS
    <3>4. a \in Nat /\ b \in Nat /\ a <= b
      BY <2>4, <3>2, <3>3, ProductGrows
    <3>5. total + a > MaxTotalCells /\ total \in Nat /\ MaxTotalCells \in Nat
      BY <2>5, <3>3, LimitsAssumption DEF Extracting, Positive
    <3>6. total + b > MaxTotalCells
      BY <3>4, <3>5
    <3>7. RefusedFor("TOO_MANY_CELLS")
      BY <3>3, <3>6 DEF RefusedFor
    <3> QED BY <3>1, <3>7 DEF RefuseSpans
  <2>6. CASE ~(total + shape[1] * shape[2] > MaxTotalCells)
    <3>1. /\ row' = n /\ max_width' = width /\ pending' = after.pending
          /\ UNCHANGED <<spans, raw, table, total>>
      BY <1>1, <1>5, <2>6
    <3>2. Rows' = Rows /\ Map' = Map /\ Laying' = h /\ Shaped' = shape
      BY <3>1 DEF Rows, Map, Laying, h, Shaped, shape
    <3>3. total + shape[1] * shape[2] <= MaxTotalCells
      <4>1. PICK a : a = shape[1] * shape[2]
        OBVIOUS
      <4>2. a \in Nat
        BY <2>4, <4>1, ProductGrows
      <4>3. ~(total + a > MaxTotalCells) /\ total \in Nat /\ MaxTotalCells \in Nat
        BY <2>6, <4>1, LimitsAssumption DEF Extracting, Positive
      <4> QED BY <4>1, <4>2, <4>3
    <3>4. ProjectInv'
      BY <1>2, <2>1, <2>3, <3>1, <3>2, <3>3 DEF ProjectInv
    <3> QED BY <3>1, <3>4
  <2> QED BY <2>5, <2>6
<1> QED BY <1>4, <1>5

LEMMA ProjectedStep ==
  ASSUME Extracting, ProjectInv, Projected
  PROVE  /\ UNCHANGED <<raw, table, grid, total>> /\ spans' = "expand"
         /\ row' = 0 /\ pending' = Nothing /\ max_width' = 0
         /\ Admitted'
<1>1. /\ row = Len(Rows) /\ projected' = Shaped
      /\ UNCHANGED <<raw, table, grid, total>> /\ spans' = "expand"
      /\ row' = 0 /\ pending' = Nothing /\ max_width' = 0
  BY DEF Projected, Rows, Shaped
<1>2. /\ Rows \in RawTables /\ Map \in Seq(Rectangles) /\ Len(Map) \in Nat
      /\ Len(Rows) \in Nat /\ Len(Rows) <= MaxRows /\ Laying = Len(Map)
      /\ \A j \in 1..Len(Map) : Map[j] \in Rectangles
  BY <1>1, RawTable DEF Laying
<1>3. /\ Projects(pending, Map, Laying, row) /\ Wide(Map, Laying, max_width)
      /\ row \in 0..Len(Rows)
      /\ row > 0 => total + Shaped[1] * Shaped[2] <= MaxTotalCells
  BY DEF ProjectInv
<1>4. Shaped = Size
  <2>1. Shaped[1] = Height(Rows, Map) /\ Shaped[2] = Width(Map)
    BY <1>1, <1>3, ShapeFits DEF Shaped, Laying
  <2>2. Shaped = <<Shaped[1], Shaped[2]>>
    BY DEF Shaped, Shape
  <2> QED BY <2>1, <2>2 DEF Size
<1>5. Disjoint(Map, Len(Map)) /\ Within(Map, Len(Map))
  BY <1>2, <1>3 DEF Projects
<1>6. Wide(Map, Len(Map), Width(Map)) /\ Tall(Map, Len(Map), Len(Rows), Height(Rows, Map))
  BY <1>2, SizeIs
<1>7. Size[1] = Height(Rows, Map) /\ Size[2] = Width(Map) /\ Size[1] \in Nat /\ Size[2] \in Nat
  BY <1>6 DEF Size, Wide, Tall
<1>8. MaxRows \in Nat /\ MaxColumns \in Nat /\ MaxTotalCells \in Nat
  BY LimitsAssumption DEF Positive
<1>9. Size[1] <= MaxRows
  <2>1. CASE Size[1] = Len(Rows)
    BY <1>2, <2>1
  <2>2. CASE Size[1] # Len(Rows)
    <3>1. PICK j \in 1..Len(Map) : Size[1] = Bottom(Map[j])
      BY <1>6, <1>7, <2>2 DEF Tall
    <3> QED BY <1>5, <3>1 DEF Within
  <2> QED BY <2>1, <2>2
<1>10. Size[2] <= MaxColumns
  <2>1. CASE Size[2] = 0
    BY <1>8, <2>1
  <2>2. CASE Size[2] # 0
    <3>1. PICK j \in 1..Len(Map) : Size[2] <= Edge(Map[j])
      BY <1>6, <1>7, <2>2 DEF Wide, Reaches
    <3>2. Edge(Map[j]) <= MaxColumns /\ Edge(Map[j]) \in Nat
      BY <1>2, <1>5, Rectangle DEF Within
    <3> QED BY <1>7, <1>8, <3>1, <3>2
  <2> QED BY <2>1, <2>2
<1>11. total + Size[1] * Size[2] <= MaxTotalCells
  <2>1. CASE row > 0
    BY <1>3, <1>4, <2>1
  <2>2. CASE ~(row > 0)
    <3>1. Len(Rows) = 0 /\ row = 0
      BY <1>1, <1>2, <1>3, <2>2
    <3>2. Len(Map) = 0
      <4>1. Done(Map, 0) = 0
        BY RawTable DEF LaidOut
      <4> QED BY <1>1, <1>2, <3>1, <4>1 DEF Laying
    <3>3. Size[2] = 0
      <4>1. \A j \in 1..Len(Map) : FALSE
        BY <3>2
      <4> QED BY <1>6, <1>7, <4>1 DEF Wide, Reaches
    <3>4. Size[1] * Size[2] = 0
      BY <1>7, <3>3
    <3> QED BY <1>8, <3>4 DEF Extracting
  <2> QED BY <2>1, <2>2
<1>12. Admitted'
  <2>1. Size' = Size /\ Map' = Map /\ total' = total /\ projected' = Size
    BY <1>1, <1>4 DEF Size, Map, Rows
  <2> QED BY <1>5, <1>9, <1>10, <1>11, <2>1 DEF Admitted
<1> QED BY <1>1, <1>12

-----------------------------------------------------------------------------
(* _expand_table: the same walk, carrying names as well as rows.           *)

Names == (Nat \X Nat) \cup {Blank}

Lefts(P) == [k \in DOMAIN P |-> P[k].left]

CarriesNames(P, F, i, q, c) ==
  /\ \A k \in DOMAIN P : P[k] \in [left : Int, cell : Names]
  /\ \A k \in DOMAIN P : \A j \in 1..i :
       Covers(F[j], Turn(q, c, k), k) => P[k].cell = F[j].name

LEMMA PassedLefts ==
  ASSUME NEW P, NEW c \in Nat, NEW e \in Nat,
         \A k \in DOMAIN P : P[k] \in [left : Int, cell : Names]
  PROVE  Lefts(Passed(P, c, e)) = Consume(Lefts(P), c, e)
<1> DEFINE D == {k \in DOMAIN P : k \notin c..(e - 1) \/ P[k].left > 1}
           Q == Passed(P, c, e)
           L == Lefts(P)
<1>1. /\ DOMAIN Q = D
      /\ \A k \in D : Q[k] = IF k \in c..(e - 1) THEN [P[k] EXCEPT !.left = @ - 1] ELSE P[k]
  BY DEF Passed, Columns
<1>2. DOMAIN L = DOMAIN P /\ \A k \in DOMAIN P : L[k] = P[k].left
  BY DEF Lefts
<1>3. {k \in DOMAIN L : k \notin c..(e - 1) \/ L[k] > 1} = D
  BY <1>2
<1>4. ASSUME NEW k \in D PROVE Q[k].left = IF k \in c..(e - 1) THEN L[k] - 1 ELSE L[k]
  <2>1. P[k] \in [left : Int, cell : Names] /\ L[k] = P[k].left
    BY <1>2
  <2>2. [P[k] EXCEPT !.left = @ - 1].left = P[k].left - 1
    BY <2>1
  <2> QED BY <1>1, <2>1, <2>2
<1>5. Lefts(Q) = [k \in D |-> Q[k].left]
  BY <1>1 DEF Lefts
<1>6. Consume(L, c, e) = [k \in D |-> IF k \in c..(e - 1) THEN L[k] - 1 ELSE L[k]]
  BY <1>3 DEF Consume, Columns
<1> HIDE DEF Q, L, D
<1>7. [k \in D |-> Q[k].left] = [k \in D |-> IF k \in c..(e - 1) THEN L[k] - 1 ELSE L[k]]
  BY <1>4
<1> QED BY <1>5, <1>6, <1>7 DEF Q, L

LEMMA PassedNames ==
  ASSUME NEW P, NEW F, NEW i \in Nat, NEW q \in Nat, NEW c \in Nat, NEW e \in Nat, c <= e,
         DOMAIN P \subseteq Nat, \A j \in 1..i : F[j] \in Rectangles /\ F[j].row <= q,
         CarriesNames(P, F, i, q, c)
  PROVE  CarriesNames(Passed(P, c, e), F, i, q, e)
<1> DEFINE Q == Passed(P, c, e)
<1>1. /\ DOMAIN Q = {k \in DOMAIN P : k \notin c..(e - 1) \/ P[k].left > 1}
      /\ \A k \in DOMAIN Q : Q[k] = IF k \in c..(e - 1) THEN [P[k] EXCEPT !.left = @ - 1] ELSE P[k]
  BY DEF Passed, Columns
<1>2. /\ \A k \in DOMAIN P : P[k] \in [left : Int, cell : Names]
      /\ \A k \in DOMAIN P : \A j \in 1..i :
           Covers(F[j], Turn(q, c, k), k) => P[k].cell = F[j].name
  BY DEF CarriesNames
<1> HIDE DEF Q
<1>3. ASSUME NEW k \in DOMAIN Q
      PROVE  Q[k] \in [left : Int, cell : Names] /\ Q[k].cell = P[k].cell
  <2>1. P[k] \in [left : Int, cell : Names]
    BY <1>1, <1>2
  <2>2. /\ [P[k] EXCEPT !.left = @ - 1] \in [left : Int, cell : Names]
        /\ [P[k] EXCEPT !.left = @ - 1].cell = P[k].cell
    BY <2>1
  <2> QED BY <1>1, <2>1, <2>2
<1>4. ASSUME NEW k \in DOMAIN Q, NEW j \in 1..i, Covers(F[j], Turn(q, e, k), k)
      PROVE  Q[k].cell = F[j].name
  <2>1. k \in DOMAIN P /\ k \in Nat
    BY <1>1
  <2>2. Covers(F[j], Turn(q, c, k), k)
    <3>1. CASE k \in c..(e - 1)
      <4>1. Turn(q, c, k) = q /\ Turn(q, e, k) = q + 1
        BY <2>1, <3>1 DEF Turn
      <4>2. F[j] \in Rectangles /\ F[j].row <= q /\ q + 1 \in Nat
        OBVIOUS
      <4>3. Covers(F[j], q + 1, k) => Covers(F[j], q, k)
        BY <2>1, <4>2, Rectangle
      <4> QED BY <1>4, <4>1, <4>3
    <3>2. CASE k \notin c..(e - 1)
      <4>1. Turn(q, c, k) = Turn(q, e, k)
        BY <2>1, <3>2 DEF Turn
      <4> QED BY <1>4, <4>1
    <3> QED BY <3>1, <3>2
  <2> QED BY <1>2, <1>3, <2>1, <2>2
<1>5. CarriesNames(Q, F, i, q, e)
  BY <1>3, <1>4 DEF CarriesNames
<1> QED BY <1>5 DEF Q

\* A row as long as it is built.
Shows(x, F, i, q) ==
  /\ x \in Seq(Names)
  /\ \A k \in 1..Len(x) :
       /\ \A j \in 1..i : Covers(F[j], q, k - 1) => x[k] = F[j].name
       /\ ~Taken(F, i, q, k - 1) => x[k] = Blank

Grown(x, F, i, q, c) == Shows(x, F, i, q) /\ Len(x) = c

LEMMA FilledShows ==
  ASSUME NEW P, NEW F, NEW i \in Nat, NEW q \in Nat, NEW c \in Nat, NEW e \in Nat, c <= e,
         Carries(Lefts(P), F, i, q, c), CarriesNames(P, F, i, q, c),
         NEW x, Shows(x, F, i, q), Len(x) = c
  PROVE  Grown(x \o FillRow(P, c, e), F, i, q, e)
<1> DEFINE f == FillRow(P, c, e)
           m == e - c
           y == x \o f
<1>1. /\ \A k \in Nat : k >= c => (k \in DOMAIN P <=> Taken(F, i, q, k))
      /\ \A k \in DOMAIN P : \A j \in 1..i : k >= c /\ Covers(F[j], q, k) => P[k].cell = F[j].name
      /\ \A k \in DOMAIN P : P[k].cell \in Names /\ k \in Nat
  <2>1. DOMAIN Lefts(P) = DOMAIN P
    BY DEF Lefts
  <2>2. DOMAIN P \subseteq Nat
    BY <2>1 DEF Carries
  <2>3. \A k \in Nat : k >= c => Turn(q, c, k) = q
    BY DEF Turn
  <2>4. \A k \in Nat : k >= c => (k \in DOMAIN P <=> Taken(F, i, q, k))
    BY <2>1, <2>3 DEF Carries
  <2>5. \A k \in DOMAIN P : \A j \in 1..i : k >= c /\ Covers(F[j], q, k) => P[k].cell = F[j].name
    BY <2>2, <2>3 DEF CarriesNames
  <2>6. \A k \in DOMAIN P : P[k].cell \in Names
    BY DEF CarriesNames
  <2> QED BY <2>2, <2>4, <2>5, <2>6
<1>2. Blank \in Names
  BY DEF Names
<1>3. /\ m \in Nat /\ f \in [1..m -> Names]
      /\ \A k \in 1..m : f[k] = IF c + k - 1 \in DOMAIN P THEN P[c + k - 1].cell ELSE Blank
  BY <1>1, <1>2 DEF FillRow, Columns
<1> HIDE DEF f
<1>4. f \in Seq(Names) /\ Len(f) = m
  BY <1>3, SeqOfFunction
<1>5. x \in Seq(Names) /\ Len(x) = c
  BY DEF Shows
<1>6. /\ y \in Seq(Names) /\ Len(y) = e
      /\ \A k \in 1..e : y[k] = IF k <= c THEN x[k] ELSE f[k - c]
  <2>1. /\ y \in Seq(Names) /\ Len(y) = c + m
        /\ \A k \in 1..(c + m) : y[k] = IF k <= c THEN x[k] ELSE f[k - c]
    BY <1>4, <1>5, ConcatProperties
  <2>2. c + m = e
    OBVIOUS
  <2> HIDE DEF m
  <2> QED BY <2>1, <2>2
<1> HIDE DEF y
<1>7. ASSUME NEW k \in 1..e
      PROVE  /\ \A j \in 1..i : Covers(F[j], q, k - 1) => y[k] = F[j].name
             /\ ~Taken(F, i, q, k - 1) => y[k] = Blank
  <2>1. CASE k <= c
    <3>1. k \in 1..Len(x) /\ y[k] = x[k]
      BY <1>5, <1>6, <2>1
    <3> QED BY <3>1 DEF Shows
  <2>2. CASE ~(k <= c)
    <3>1. /\ k - c \in 1..m /\ c + (k - c) - 1 = k - 1 /\ k - 1 \in Nat /\ k - 1 >= c
          /\ y[k] = f[k - c]
      BY <1>6, <2>2
    <3>2. y[k] = IF k - 1 \in DOMAIN P THEN P[k - 1].cell ELSE Blank
      BY <1>3, <3>1
    <3>3. CASE k - 1 \in DOMAIN P
      BY <1>1, <3>1, <3>2, <3>3
    <3>4. CASE k - 1 \notin DOMAIN P
      <4>1. ~Taken(F, i, q, k - 1)
        BY <1>1, <3>1, <3>4
      <4> QED BY <3>2, <3>4, <4>1 DEF Taken
    <3> QED BY <3>3, <3>4
  <2> QED BY <2>1, <2>2
<1>8. Shows(y, F, i, q)
  BY <1>6, <1>7 DEF Shows
<1> QED BY <1>6, <1>8 DEF y, f, Grown

Builds(c, P, x, F, i, q) ==
  /\ Walks(c, Lefts(P), F, i, q)
  /\ CarriesNames(P, F, i, q, c)
  /\ Shows(x, F, i, q) /\ Len(x) = c

LEMMA FreeBuilds ==
  ASSUME NEW P, NEW x, NEW F, NEW i \in Nat, NEW q \in Nat, NEW c \in Nat,
         Builds(c, P, x, F, i, q)
  PROVE  /\ FreeColumn(P, c) \in Nat
         /\ ~Taken(F, i, q, FreeColumn(P, c))
         /\ Builds(FreeColumn(P, c), Passed(P, c, FreeColumn(P, c)),
                   x \o FillRow(P, c, FreeColumn(P, c)), F, i, q)
<1> DEFINE e == FreeColumn(P, c)
           L == Lefts(P)
<1>1. DOMAIN L = DOMAIN P
  BY DEF Lefts
<1>2. FreeColumn(L, c) = e
  BY <1>1 DEF FreeColumn, Columns
<1>3. Walks(c, L, F, i, q)
  BY DEF Builds
<1> HIDE DEF e, L
<1>4. e \in Nat /\ c <= e /\ Walks(e, Consume(L, c, e), F, i, q) /\ ~Taken(F, i, q, e)
  BY <1>2, <1>3, SkipWalks
<1>5. Consume(L, c, e) = Lefts(Passed(P, c, e))
  BY <1>4, PassedLefts DEF Builds, CarriesNames, L
<1>6. /\ Carries(L, F, i, q, c) /\ DOMAIN P \subseteq Nat
      /\ \A j \in 1..i : F[j] \in Rectangles /\ F[j].row <= q
  BY <1>1, <1>3 DEF Walks, Carries
<1>7. CarriesNames(Passed(P, c, e), F, i, q, e)
  BY <1>4, <1>6, PassedNames DEF Builds
<1>8. Shows(x \o FillRow(P, c, e), F, i, q) /\ Len(x \o FillRow(P, c, e)) = e
  <2>1. Grown(x \o FillRow(P, c, e), F, i, q, e)
    BY <1>4, <1>6, FilledShows DEF Builds, L
  <2> QED BY <2>1 DEF Grown
<1> QED BY <1>4, <1>5, <1>7, <1>8 DEF Builds, e

LaidNames(P, p) ==
  [k \in Columns(P) \cup (IF p.rowspan > 1 THEN p.column..(p.column + p.colspan - 1) ELSE {}) |->
     IF p.rowspan > 1 /\ k \in p.column..(p.column + p.colspan - 1)
       THEN [left |-> p.rowspan - 1, cell |-> p.name] ELSE P[k]]

LaidRow(x, p) == x \o [k \in 1..p.colspan |-> p.name]

IsJoined(z, a, b, m, n) ==
  /\ z \in Seq(Names) /\ Len(z) = m + n
  /\ \A k \in 1..(m + n) : z[k] = IF k <= m THEN a[k] ELSE b[k - m]

LEMMA Joined ==
  ASSUME NEW m \in Nat, NEW n \in Nat, NEW a, NEW b, NEW z, z = a \o b,
         a \in Seq(Names), b \in Seq(Names), Len(a) = m, Len(b) = n
  PROVE  IsJoined(z, a, b, m, n)
BY ConcatProperties DEF IsJoined

LEMMA LaidBuilds ==
  ASSUME NEW P, NEW x, NEW F, NEW i \in Nat, NEW q \in Nat, NEW c \in Nat,
         Builds(c, P, x, F, i, q), ~Taken(F, i, q, c), Disjoint(F, i + 1),
         F[i + 1] \in Rectangles, F[i + 1].row = q, F[i + 1].column = c
  PROVE  /\ Edge(F[i + 1]) \in Nat
         /\ Builds(Edge(F[i + 1]), LaidNames(P, F[i + 1]), LaidRow(x, F[i + 1]), F, i + 1, q)
<1> DEFINE m == i + 1
           p == F[m]
           e == Edge(p)
           Q == LaidNames(P, p)
           y == LaidRow(x, p)
           taken == c..(e - 1)
<1>1. /\ p \in Rectangles /\ p.row = q /\ p.column = c /\ p.name \in Names
      /\ m \in 1..m /\ 1..i \subseteq 1..m /\ \A j \in 1..m : j \in 1..i \/ j = m
      /\ \A j \in 1..i : j # m
  BY DEF Rectangles, Names
<1> HIDE DEF m, p
<1>2. /\ e \in Nat /\ c < e /\ p.rowspan \in Nat /\ p.rowspan >= 1 /\ p.colspan \in Nat
      /\ e = c + p.colspan /\ p.column + p.colspan - 1 = e - 1
      /\ Bottom(p) = q + p.rowspan - 1 /\ Bottom(p) \in Nat
      /\ \A r, k \in Nat : Covers(p, r, k) <=> q <= r /\ r <= Bottom(p) /\ c <= k /\ k < e
  <2>1. /\ e \in Nat /\ p.column < e /\ p.rowspan \in Nat /\ p.rowspan >= 1
        /\ p.colspan \in Nat /\ Bottom(p) \in Nat
        /\ \A r, k \in Nat : Covers(p, r, k) <=> /\ p.row <= r /\ r <= Bottom(p)
                                                /\ p.column <= k /\ k < e
    BY <1>1, Rectangle
  <2>2. e = p.column + p.colspan /\ Bottom(p) = p.row + p.rowspan - 1
    BY DEF Edge, Bottom
  <2> HIDE DEF e
  <2> QED BY <1>1, <2>1, <2>2
<1>3. /\ Walks(c, Lefts(P), F, i, q) /\ CarriesNames(P, F, i, q, c)
      /\ Shows(x, F, i, q) /\ Len(x) = c
  BY DEF Builds
<1>4. DOMAIN Lefts(P) = DOMAIN P /\ \A k \in DOMAIN P : Lefts(P)[k] = P[k].left
  BY DEF Lefts
<1>5. /\ DOMAIN P \subseteq Nat
      /\ \A j \in 1..i : F[j] \in Rectangles /\ F[j].row <= q
      /\ \A k \in Nat : k >= c => (k \in DOMAIN P <=> Taken(F, i, q, k))
  <2>1. Carries(Lefts(P), F, i, q, c)
    BY <1>3 DEF Walks
  <2>2. \A k \in Nat : k >= c => Turn(q, c, k) = q
    BY DEF Turn
  <2> QED BY <1>4, <2>1, <2>2 DEF Carries
<1>6. /\ DOMAIN Q = DOMAIN P \cup (IF p.rowspan > 1 THEN taken ELSE {})
      /\ \A k \in DOMAIN Q : Q[k] = IF p.rowspan > 1 /\ k \in taken
                                      THEN [left |-> p.rowspan - 1, cell |-> p.name] ELSE P[k]
  BY <1>1, <1>2 DEF LaidNames, Columns
<1> HIDE DEF Q, y, e
<1>7. \A j \in 1..i : \A r, k \in Nat : ~(Covers(F[j], r, k) /\ Covers(p, r, k))
  BY <1>1 DEF Disjoint, m, p
<1>8. ASSUME NEW k \in Nat, c <= k, k < e
      PROVE  k \notin DOMAIN P /\ Covers(p, q, k) /\ ~Taken(F, i, q, k)
  <2>1. Covers(p, q, k)
    <3>1. q <= Bottom(p)
      BY <1>2
    <3> QED BY <1>2, <1>8, <3>1
  <2>2. ~Taken(F, i, q, k)
    BY <1>7, <2>1 DEF Taken
  <2> QED BY <1>5, <1>8, <2>1, <2>2
<1>9. Joins(p, q, c, Lefts(P), Lefts(Q))
  <2>1. \A k \in DOMAIN P : ~(c <= k /\ k < e)
    BY <1>5, <1>8
  <2>2. DOMAIN Lefts(Q) = DOMAIN Q /\ \A k \in DOMAIN Q : Lefts(Q)[k] = Q[k].left
    BY DEF Lefts
  <2>3. p.column..(p.column + p.colspan - 1) = taken
    BY <1>1, <1>2
  <2>4. ASSUME NEW k \in DOMAIN Q
        PROVE  Lefts(Q)[k] = IF k \in taken THEN p.rowspan - 1 ELSE Lefts(P)[k]
    <3>1. CASE p.rowspan > 1 /\ k \in taken
      BY <1>6, <2>2, <3>1
    <3>2. CASE ~(p.rowspan > 1 /\ k \in taken)
      <4>1. k \in DOMAIN P /\ Q[k] = P[k]
        BY <1>6, <3>2
      <4>2. k \notin taken
        BY <1>2, <1>5, <2>1, <4>1
      <4> QED BY <1>4, <2>2, <4>1, <4>2
    <3> QED BY <3>1, <3>2
  <2> HIDE DEF taken
  <2>5. Laid(Lefts(P), p, Lefts(Q))
    BY <1>4, <1>6, <2>2, <2>3, <2>4 DEF Laid
  <2> QED BY <1>1, <1>4, <2>1, <2>5 DEF Joins, e
<1>10. Walks(e, Lefts(Q), F, m, q)
  <2>1. Walks(Edge(F[i + 1]), Lefts(Q), F, i + 1, q)
    BY <1>3, <1>9, PlaceWalks DEF p, m
  <2> QED BY <2>1 DEF e, p, m
<1>11. CarriesNames(Q, F, m, q, e)
  <2>1. ASSUME NEW k \in DOMAIN Q PROVE Q[k] \in [left : Int, cell : Names]
    <3>1. CASE p.rowspan > 1 /\ k \in taken
      <4>1. p.rowspan - 1 \in Int
        BY <1>2
      <4> QED BY <1>1, <1>6, <3>1, <4>1
    <3>2. CASE ~(p.rowspan > 1 /\ k \in taken)
      <4>1. k \in DOMAIN P /\ Q[k] = P[k]
        BY <1>6, <3>2
      <4> QED BY <1>3, <4>1 DEF CarriesNames
    <3> QED BY <3>1, <3>2
  <2>2. ASSUME NEW k \in DOMAIN Q, NEW j \in 1..m, Covers(F[j], Turn(q, e, k), k)
        PROVE  Q[k].cell = F[j].name
    <3>1. k \in Nat
      BY <1>2, <1>5, <1>6
    <3>2. CASE c <= k /\ k < e
      <4>1. k \in taken /\ k \notin DOMAIN P /\ Turn(q, e, k) = q + 1 /\ q + 1 \in Nat
        BY <1>2, <1>8, <3>1, <3>2 DEF Turn
      <4>2. Q[k].cell = p.name /\ p.rowspan > 1
        BY <1>6, <4>1
      <4>3. Covers(p, q + 1, k)
        BY <1>2, <3>1, <3>2, <4>1, <4>2
      <4>4. j = m
        BY <1>1, <1>7, <2>2, <3>1, <4>1, <4>3
      <4> QED BY <4>2, <4>4 DEF p
    <3>3. CASE ~(c <= k /\ k < e)
      <4>1. k \notin taken /\ Turn(q, e, k) = Turn(q, c, k) /\ Turn(q, e, k) \in Nat
        BY <1>2, <3>1, <3>3 DEF Turn
      <4>2. k \in DOMAIN P /\ Q[k] = P[k]
        BY <1>6, <4>1
      <4>3. ~Covers(p, Turn(q, e, k), k)
        BY <1>2, <3>1, <3>3, <4>1
      <4>4. j \in 1..i
        BY <1>1, <2>2, <4>3 DEF p
      <4> QED BY <1>3, <2>2, <4>1, <4>2, <4>4 DEF CarriesNames
    <3> QED BY <3>2, <3>3
  <2> QED BY <2>1, <2>2 DEF CarriesNames
<1>12. Shows(y, F, m, q) /\ Len(y) = e
  <2> DEFINE w == p.colspan
             f == [k \in 1..w |-> p.name]
  <2>1. f \in [1..w -> Names] /\ w \in Nat /\ \A k \in 1..w : f[k] = p.name
    BY <1>1, <1>2
  <2>2. y = x \o f
    BY DEF y, LaidRow
  <2> HIDE DEF f
  <2>3. f \in Seq(Names) /\ Len(f) = w
    BY <2>1, SeqOfFunction
  <2>4. x \in Seq(Names) /\ Len(x) = c
    BY <1>3 DEF Shows
  <2>5. /\ y \in Seq(Names) /\ Len(y) = c + w
        /\ \A k \in 1..(c + w) : y[k] = IF k <= c THEN x[k] ELSE f[k - c]
    <3>1. w \in Nat
      BY <2>1
    <3>2. PICK b : b = f
      OBVIOUS
    <3>3. PICK n : n = w
      OBVIOUS
    <3>4. b \in Seq(Names) /\ Len(b) = n /\ n \in Nat /\ y = x \o b
      BY <2>2, <2>3, <3>1, <3>2, <3>3
    <3>5. /\ y \in Seq(Names) /\ Len(y) = c + n
          /\ \A k \in 1..(c + n) : y[k] = IF k <= c THEN x[k] ELSE b[k - c]
      <4>1. IsJoined(y, x, b, c, n)
        BY <2>4, <3>4, Joined
      <4> QED BY <4>1 DEF IsJoined
    <3> QED BY <3>2, <3>3, <3>5
  <2>6. c + w = e /\ e \in Nat /\ w \in Nat
    BY <1>2
  <2> HIDE DEF w
  <2>7. ASSUME NEW k \in 1..e
        PROVE  /\ \A j \in 1..m : Covers(F[j], q, k - 1) => y[k] = F[j].name
               /\ ~Taken(F, m, q, k - 1) => y[k] = Blank
    <3>1. k - 1 \in Nat /\ k - 1 < e
      BY <1>2
    <3>2. CASE k <= c
      <4>1. k \in 1..Len(x) /\ y[k] = x[k]
        BY <2>4, <2>5, <2>6, <3>2
      <4>2. ~Covers(p, q, k - 1)
        BY <1>2, <3>1, <3>2
      <4>3. /\ \A j \in 1..i : Covers(F[j], q, k - 1) => y[k] = F[j].name
            /\ ~Taken(F, i, q, k - 1) => y[k] = Blank
        BY <1>3, <4>1 DEF Shows
      <4>4. Taken(F, i, q, k - 1) => Taken(F, m, q, k - 1)
        BY <1>1 DEF Taken
      <4> QED BY <1>1, <4>2, <4>3, <4>4 DEF p
    <3>3. CASE ~(k <= c)
      <4>1. k - c \in 1..w /\ c <= k - 1
        BY <2>6, <3>3
      <4>2. y[k] = p.name
        BY <2>1, <2>5, <2>6, <3>3, <4>1
      <4>3. Covers(p, q, k - 1) /\ ~Taken(F, i, q, k - 1)
        BY <1>8, <3>1, <4>1
      <4>4. \A j \in 1..m : Covers(F[j], q, k - 1) => j = m
        BY <1>1, <4>3 DEF Taken
      <4>5. Taken(F, m, q, k - 1)
        BY <1>1, <4>3 DEF Taken, p
      <4> QED BY <4>2, <4>4, <4>5 DEF p
    <3> QED BY <3>2, <3>3
  <2>8. Shows(y, F, m, q)
    BY <2>5, <2>6, <2>7 DEF Shows
  <2> QED BY <2>5, <2>6, <2>8
<1> QED BY <1>2, <1>10, <1>11, <1>12 DEF Builds, m, p, e, Q, y

-----------------------------------------------------------------------------
(* _expand_table: one cell, one row.                                       *)

Builder(s, above, n) ==
  /\ DOMAIN s = {"above", "cell", "row", "column", "pending"}
  /\ s.above = above /\ s.cell = n /\ s.column \in Nat

Filled(s, x, P, c) == [s EXCEPT !.row = x, !.pending = P, !.column = c]

ExpandsWell(s, F, i, above, n) ==
  /\ Builder(s, above, n)
  /\ Builds(s.column, s.pending, s.row, F, i, above + 1)
  /\ ~Taken(F, i, above + 1, s.column)

LEMMA FillIs ==
  ASSUME NEW s, NEW e
  PROVE  Fill(s, e) = Filled(s, s.row \o FillRow(s.pending, s.column, e),
                             Passed(s.pending, s.column, e), e)
BY Zenon DEF Fill, Filled

LEMMA FilledBuilder ==
  ASSUME NEW s, NEW above, NEW n, Builder(s, above, n), NEW x, NEW P, NEW c \in Nat
  PROVE  /\ Builder(Filled(s, x, P, c), above, n)
         /\ Filled(s, x, P, c).row = x /\ Filled(s, x, P, c).pending = P
         /\ Filled(s, x, P, c).column = c
BY DEF Builder, Filled

LEMMA FillsToFree ==
  ASSUME NEW F, NEW i \in Nat, NEW above \in Nat, NEW n, NEW s, Builder(s, above, n),
         Builds(s.column, s.pending, s.row, F, i, above + 1)
  PROVE  ExpandsWell(FillToFree(s), F, i, above, n)
<1> DEFINE q == above + 1
           c == s.column
           P == s.pending
           x == s.row
           e == FreeColumn(P, c)
           y == x \o FillRow(P, c, e)
           Q == Passed(P, c, e)
           t == FillToFree(s)
<1>1. t = Filled(s, y, Q, e)
  <2>1. t = Fill(s, e)
    BY Zenon DEF FillToFree
  <2> HIDE DEF e
  <2> QED BY <2>1, FillIs
<1>2. q \in Nat /\ c \in Nat
  BY DEF Builder
<1> HIDE DEF q, c, P, x, t
<1>3. e \in Nat /\ ~Taken(F, i, q, e) /\ Builds(e, Q, y, F, i, q)
  BY <1>2, FreeBuilds DEF q, c, P, x
<1> HIDE DEF e, y, Q
<1>4. Builder(t, above, n) /\ t.row = y /\ t.pending = Q /\ t.column = e
  BY <1>1, <1>3, FilledBuilder
<1> QED BY <1>3, <1>4 DEF ExpandsWell, t, q

\* The record ExpandCell hands on.
Seat(s, at, cell) ==
  LET taken == at.column..(at.column + cell.colspan - 1)
      name == <<s.above + 1, s.cell + 1>>
  IN [above |-> s.above, cell |-> s.cell + 1,
      row |-> at.row \o [k \in 1..cell.colspan |-> name],
      column |-> at.column + cell.colspan,
      pending |->
        [k \in Columns(at.pending) \cup (IF cell.rowspan > 1 THEN taken ELSE {}) |->
           IF cell.rowspan > 1 /\ k \in taken
             THEN [left |-> cell.rowspan - 1, cell |-> name] ELSE at.pending[k]]]

\* What it is worth when p is the rectangle of the cell.
Seats(t, s, at, p) ==
  /\ DOMAIN t = {"above", "cell", "row", "column", "pending"}
  /\ t.above = s.above /\ t.cell = s.cell + 1 /\ t.column = Edge(p)
  /\ t.row = LaidRow(at.row, p) /\ t.pending = LaidNames(at.pending, p)

LEMMA SeatIs ==
  ASSUME NEW s, NEW at, NEW cell, NEW p,
         cell.rowspan = p.rowspan, cell.colspan = p.colspan, p.column = at.column,
         p.name = <<s.above + 1, s.cell + 1>>, NEW t, t = Seat(s, at, cell)
  PROVE  Seats(t, s, at, p)
<1>1. /\ DOMAIN t = {"above", "cell", "row", "column", "pending"}
      /\ t.above = s.above /\ t.cell = s.cell + 1 /\ t.column = at.column + cell.colspan
  BY DEF Seat
<1>2. t.row = at.row \o [k \in 1..cell.colspan |-> p.name]
  BY DEF Seat
<1>3. t.pending =
        [k \in Columns(at.pending) \cup
                 (IF cell.rowspan > 1 THEN at.column..(at.column + cell.colspan - 1) ELSE {}) |->
           IF cell.rowspan > 1 /\ k \in at.column..(at.column + cell.colspan - 1)
             THEN [left |-> cell.rowspan - 1, cell |-> p.name] ELSE at.pending[k]]
  BY DEF Seat
<1>4. t.row = LaidRow(at.row, p)
  BY <1>2 DEF LaidRow
<1>5. t.pending = LaidNames(at.pending, p)
  BY <1>3 DEF LaidNames
<1> QED BY <1>1, <1>4, <1>5 DEF Edge, Seats

LEMMA CellBuilds ==
  ASSUME NEW F \in Seq(Rectangles), NEW i \in Nat, i + 1 <= Len(F), NEW above \in Nat,
         Disjoint(F, Len(F)), F[i + 1].row = above + 1,
         Seated(F, i, above + 1, F[i + 1].column), NEW n, F[i + 1].name = <<above + 1, n + 1>>,
         NEW cell, cell.rowspan = F[i + 1].rowspan, cell.colspan = F[i + 1].colspan,
         NEW s, ExpandsWell(s, F, i, above, n)
  PROVE  ExpandsWell(ExpandCell(s, cell), F, i + 1, above, n + 1)
<1> DEFINE q == above + 1
           m == i + 1
           p == F[m]
           at == FillToFree(s)
           c == at.column
           t == Seat(s, at, cell)
<1>1. /\ q \in Nat /\ m \in Nat /\ m \in 1..Len(F) /\ p \in Rectangles
      /\ p.row = q /\ Seated(F, i, q, p.column) /\ p.name = <<q, n + 1>>
      /\ p.column \in Nat
  <2>1. m \in 1..Len(F)
    OBVIOUS
  <2>2. p \in Rectangles
    BY <2>1
  <2> QED BY <2>1, <2>2, Rectangle
<1>2. Builder(s, above, n) /\ Builds(s.column, s.pending, s.row, F, i, q)
  BY DEF ExpandsWell
<1>3. ExpandsWell(at, F, i, above, n)
  BY <1>2, FillsToFree
<1>4. /\ c \in Nat /\ Builds(c, at.pending, at.row, F, i, q) /\ ~Taken(F, i, q, c)
  BY <1>3 DEF ExpandsWell, Builder
<1>5. Walks(c, Lefts(at.pending), F, i, q)
  BY <1>4 DEF Builds
<1>6. ExpandCell(s, cell) = FillToFree(t)
  BY Zenon DEF ExpandCell, Seat
<1> HIDE DEF q, m, p, at, c, t
<1>7. p.column = c
  BY <1>1, <1>4, <1>5, SeatIsFree
<1>8. Disjoint(F, m)
  <2>1. 1..m \subseteq 1..Len(F)
    BY <1>1
  <2> QED BY <2>1 DEF Disjoint
<1>9. /\ Edge(p) \in Nat
      /\ Builds(Edge(p), LaidNames(at.pending, p), LaidRow(at.row, p), F, m, q)
  <2>1. F[i + 1] \in Rectangles /\ F[i + 1].row = q /\ F[i + 1].column = c /\ Disjoint(F, i + 1)
    BY <1>1, <1>7, <1>8 DEF p, m
  <2>2. /\ Edge(F[i + 1]) \in Nat
        /\ Builds(Edge(F[i + 1]), LaidNames(at.pending, F[i + 1]), LaidRow(at.row, F[i + 1]),
                  F, i + 1, q)
    BY <1>1, <1>4, <2>1, LaidBuilds
  <2> QED BY <2>2 DEF p, m
<1>10. s.above = above /\ s.cell = n
  BY <1>2 DEF Builder
<1>11. Seats(t, s, at, p)
  <2>1. /\ cell.rowspan = p.rowspan /\ cell.colspan = p.colspan /\ p.column = at.column
        /\ p.name = <<s.above + 1, s.cell + 1>>
    BY <1>1, <1>7, <1>10 DEF p, m, c, q
  <2>2. t = Seat(s, at, cell)
    BY DEF t
  <2> QED BY <2>1, <2>2, SeatIs
<1>12. Builder(t, above, n + 1) /\ Builds(t.column, t.pending, t.row, F, m, above + 1)
  BY <1>9, <1>10, <1>11 DEF Builder, Seats, q
<1>13. ExpandsWell(FillToFree(t), F, m, above, n + 1)
  BY <1>1, <1>12, FillsToFree
<1> QED BY <1>6, <1>13 DEF m

\* What the rows above q leave behind for row q and below.
Leaves(P, F, i, q) == Carries(Lefts(P), F, i, q, 0) /\ CarriesNames(P, F, i, q, 0)

Starter(above, P) == [above |-> above, cell |-> 0, row |-> <<>>, column |-> 0, pending |-> P]

LEMMA StarterIs ==
  ASSUME NEW above, NEW F, NEW i \in Nat, NEW q \in Nat, NEW P, Leaves(P, F, i, q),
         \A j \in 1..i : F[j].row < q, NEW s, s = Starter(above, P)
  PROVE  Builder(s, above, 0) /\ Builds(s.column, s.pending, s.row, F, i, q)
<1>1. /\ DOMAIN s = {"above", "cell", "row", "column", "pending"} /\ s.above = above
      /\ s.cell = 0 /\ s.row = <<>> /\ s.column = 0 /\ s.pending = P
  BY DEF Starter
<1>2. Carries(Lefts(P), F, i, q, 0) /\ CarriesNames(P, F, i, q, 0)
  BY DEF Leaves
<1>3. Walks(0, Lefts(P), F, i, q)
  BY <1>2, RowBegins
<1>4. Shows(<<>>, F, i, q) /\ Len(<<>>) = 0
  <2>1. <<>> \in Seq(Names) /\ Len(<<>>) = 0
    OBVIOUS
  <2> QED BY <2>1 DEF Shows
<1>5. Builds(0, P, <<>>, F, i, q)
  BY <1>2, <1>3, <1>4 DEF Builds
<1>6. 0 \in Nat
  OBVIOUS
<1> QED BY <1>1, <1>5, <1>6, Zenon DEF Builder

LEMMA RowBuilds ==
  ASSUME NEW rows \in RawTables, NEW F, LaidOut(rows, F), Disjoint(F, Len(F)),
         NEW r \in Nat, r + 1 \in 1..Len(rows),
         NEW P, Leaves(P, F, Done(F, r), r + 1),
         NEW t, t = FoldLeft(ExpandCell, FillToFree(Starter(r, P)), rows[r + 1])
  PROVE  ExpandsWell(t, F, Done(F, r + 1), r, Len(rows[r + 1]))
<1> DEFINE cells == rows[r + 1]
           m == Len(cells)
           i == Done(F, r)
           start == Starter(r, P)
           before == FillToFree(start)
<1>1. /\ m \in Nat /\ cells \in Seq(Spans) /\ DOMAIN cells = 1..m
      /\ i \in Nat /\ i <= Len(F) /\ F \in Seq(Rectangles)
      /\ Done(F, r + 1) = i + m
      /\ \A j \in 1..i : F[j] \in Rectangles /\ F[j].row <= r
  <2>1. cells \in Seq(Spans)
    BY DEF RawTables, Spans
  <2>2. r \in 0..Len(rows) /\ r = (r + 1) - 1
    OBVIOUS
  <2>3. /\ F \in Seq(Rectangles) /\ i \in 0..Len(F)
        /\ \A j \in 1..Len(F) : j <= i <=> F[j].row <= r
    BY <2>2 DEF LaidOut
  <2>4. Done(F, r + 1) = Done(F, (r + 1) - 1) + Len(rows[r + 1])
    BY DEF LaidOut
  <2>5. \A j \in 1..i : j \in 1..Len(F) /\ j <= i
    BY <2>3
  <2> HIDE DEF i, cells
  <2> QED BY <2>1, <2>2, <2>3, <2>4, <2>5 DEF i, cells
<1>2. ExpandsWell(before, F, i, r, 0)
  <2>1. \A j \in 1..i : F[j].row < r + 1
    <3> TAKE j \in 1..i
    <3>1. F[j].row \in Nat /\ F[j].row <= r
      BY <1>1, Rectangle
    <3> QED BY <3>1
  <2> DEFINE q == r + 1
  <2>2. q \in Nat
    OBVIOUS
  <2>3. Builder(start, r, 0) /\ Builds(start.column, start.pending, start.row, F, i, q)
    <3> HIDE DEF q, start, i
    <3> QED BY <1>1, <2>1, <2>2, StarterIs DEF q, start, i
  <2> HIDE DEF start, i
  <2> QED BY <1>1, <2>3, FillsToFree
<1> HIDE DEF before
<1>3. PICK g : Steps("expand", before, cells, m, g)
  <2> HIDE DEF m, cells
  <2> QED BY <1>1, FoldSteps
<1>4. /\ g[0] = before /\ t = g[m]
      /\ \A k \in 1..m : g[k] = ExpandCell(g[k - 1], cells[k])
  BY <1>3 DEF Steps, StepOf, FoldOf, before
<1> DEFINE Q == {k \in Nat : k <= m => ExpandsWell(g[k], F, i + k, r, k)}
<1>5. 0 \in Q
  BY <1>1, <1>2, <1>4
<1>6. ASSUME NEW k \in Nat, k \in Q PROVE k + 1 \in Q
  <2> SUFFICES ASSUME k + 1 <= m
               PROVE  ExpandsWell(g[k + 1], F, i + (k + 1), r, k + 1)
    OBVIOUS
  <2> DEFINE n == k + 1
             h == i + k
             s == g[k]
             cell == cells[n]
  <2>1. n \in 1..m /\ n - 1 = k /\ i + n - 1 = h /\ i + n = h + 1 /\ h \in Nat /\ k <= m
    <3> HIDE DEF i, m
    <3> QED BY <1>1
  <2>2. g[n] = ExpandCell(s, cell)
    BY <1>4, <2>1
  <2>3. ExpandsWell(s, F, h, r, k)
    BY <1>6, <2>1
  <2> HIDE DEF n, h, s, cell
  <2>4. /\ h + 1 <= Len(F) /\ OfCell(F[h + 1], rows, r + 1, n)
        /\ Seated(F, h, r + 1, F[h + 1].column)
    <3>1. /\ i + n <= Len(F) /\ OfCell(F[i + n], rows, r + 1, n)
          /\ Seated(F, i + n - 1, r + 1, F[i + n].column)
      <4> HIDE DEF i
      <4> QED BY <2>1, NextCell DEF i, m, cells
    <3> QED BY <2>1, <3>1
  <2>5. /\ F[h + 1].row = r + 1 /\ F[h + 1].name = <<r + 1, k + 1>>
        /\ cell.rowspan = F[h + 1].rowspan /\ cell.colspan = F[h + 1].colspan
    BY <2>4 DEF OfCell, cell, cells, n
  <2>6. ExpandsWell(ExpandCell(s, cell), F, h + 1, r, k + 1)
    BY <1>1, <2>1, <2>3, <2>4, <2>5, CellBuilds
  <2> QED BY <2>1, <2>2, <2>6 DEF n
<1> HIDE DEF Q
<1>7. Nat \subseteq Q
  BY <1>5, <1>6, Induction
<1>8. ExpandsWell(g[m], F, i + m, r, m)
  BY <1>1, <1>7 DEF Q
<1> QED BY <1>1, <1>4, <1>8

\* A row of the grid, and what it leaves behind.
RowBuilt(s, F, i, q) ==
  /\ Shows(s.row, F, i, q) /\ Len(s.row) \in Nat /\ Reaches(F, i, Len(s.row))
  /\ \A k \in Nat : k >= Len(s.row) => ~Taken(F, i, q, k)
  /\ \A j \in 1..i : F[j].row = q => Edge(F[j]) <= Len(s.row)
  /\ Leaves(s.pending, F, i, q + 1)

LEMMA FillsUp ==
  ASSUME NEW F, NEW i \in Nat, NEW q \in Nat, NEW s, NEW above, NEW n, Builder(s, above, n),
         Builds(s.column, s.pending, s.row, F, i, q)
  PROVE  RowBuilt(FillUp(s), F, i, q)
<1> DEFINE c == s.column
           P == s.pending
           x == s.row
           L == Lefts(P)
           e == RowEnd(c, L)
           y == x \o FillRow(P, c, e)
           Q == Passed(P, c, e)
           t == FillUp(s)
<1>1. DOMAIN L = DOMAIN P
  BY DEF Lefts
<1>2. t = Filled(s, y, Q, e)
  <2> HIDE DEF L
  <2>1. t = Fill(s, e)
    BY <1>1, Zenon DEF FillUp, RowEnd, Ends, Columns
  <2> HIDE DEF e
  <2> QED BY <2>1, FillIs
<1>3. /\ c \in Nat /\ Walks(c, L, F, i, q) /\ CarriesNames(P, F, i, q, c)
      /\ Shows(x, F, i, q) /\ Len(x) = c
  BY DEF Builder, Builds
<1> HIDE DEF c, P, x, t, L
<1>4. /\ e \in Nat /\ c <= e /\ Reaches(F, i, e)
      /\ Carries(Consume(L, c, e), F, i, q + 1, 0)
      /\ \A k \in Nat : k >= e => ~Taken(F, i, q, k)
      /\ \A j \in 1..i : F[j].row = q => Edge(F[j]) <= e
  BY <1>3, RestWalks
<1> HIDE DEF e, y, Q
<1>5. Builder(t, above, n) /\ t.row = y /\ t.pending = Q
  BY <1>2, <1>4, FilledBuilder
<1>6. /\ Carries(L, F, i, q, c) /\ DOMAIN P \subseteq Nat
      /\ \A j \in 1..i : F[j] \in Rectangles /\ F[j].row <= q
  BY <1>1, <1>3 DEF Walks, Carries
<1>7. Shows(y, F, i, q) /\ Len(y) = e
  <2>1. /\ c \in Nat /\ e \in Nat /\ c <= e /\ Carries(Lefts(P), F, i, q, c)
        /\ CarriesNames(P, F, i, q, c) /\ Shows(x, F, i, q) /\ Len(x) = c
    BY <1>3, <1>4, <1>6 DEF L
  <2>2. Grown(x \o FillRow(P, c, e), F, i, q, e)
    BY <2>1, FilledShows
  <2> QED BY <2>2 DEF y, Grown
<1>8. Lefts(Q) = Consume(L, c, e)
  BY <1>3, <1>4, PassedLefts DEF CarriesNames, L, Q
<1>9. CarriesNames(Q, F, i, q, e)
  BY <1>3, <1>4, <1>6, PassedNames DEF Q
<1>10. CarriesNames(Q, F, i, q + 1, 0)
  <2>1. Carries(Lefts(Q), F, i, q, e)
    BY <1>3, <1>4, <1>6, <1>8, ConsumeMoves
  <2>2. DOMAIN Lefts(Q) = DOMAIN Q
    BY DEF Lefts
  <2>3. ASSUME NEW k \in DOMAIN Q PROVE Turn(q, e, k) = Turn(q + 1, 0, k)
    <3>1. k \in Nat /\ Taken(F, i, Turn(q, e, k), k)
      BY <2>1, <2>2 DEF Carries
    <3>2. k < e
      <4> SUFFICES ASSUME k >= e PROVE FALSE
        BY <1>4, <3>1
      <4>1. Turn(q, e, k) = q
        BY <1>4, <3>1 DEF Turn
      <4> QED BY <1>4, <3>1, <4>1
    <3> QED BY <3>1, <3>2 DEF Turn
  <2> QED BY <1>9, <2>3 DEF CarriesNames
<1>11. Leaves(Q, F, i, q + 1)
  BY <1>4, <1>8, <1>10 DEF Leaves
<1> QED BY <1>4, <1>5, <1>7, <1>11 DEF RowBuilt, t

-----------------------------------------------------------------------------
(* _expand_table on the table being extracted.                             *)

\* Row q of the grid, not longer than w.
Drawn(x, F, q, w) ==
  /\ Shows(x, F, Len(F), q) /\ Len(x) \in Nat /\ Len(x) <= w
  /\ \A k \in Nat : k >= Len(x) => ~Taken(F, Len(F), q, k)

DrawnAll(g, F, w) ==
  /\ g \in Seq(Seq(Names))
  /\ \A q \in 1..Len(g) : Drawn(g[q], F, q, w)

\* The first r rows are all there is, or a rectangle reaches below them.
Reached(F, r, n) == n = r \/ \E j \in 1..Len(F) : n <= Bottom(F[j])

ExpandInv ==
  /\ row \in 0..Len(Rows) /\ Admitted
  /\ row <= Len(grid) /\ (row < Len(Rows) => Len(grid) = row)
  /\ DrawnAll(grid, Map, max_width)
  /\ Leaves(pending, Map, Laying, Len(grid) + 1)
  /\ Wide(Map, Laying, max_width)
  /\ Reached(Map, row, Len(grid))

LEMMA LargerOf ==
  ASSUME NEW a \in Nat, NEW b \in Nat, NEW v, v = Largest({a, b})
  PROVE  v \in Nat /\ a <= v /\ b <= v
<1> DEFINE U == {a, b}
           c == a + b
<1>1. U \in SUBSET Nat /\ U # {} /\ c \in Nat /\ \A k \in U : k <= c
  OBVIOUS
<1>2. v = Largest(U) /\ a \in U /\ b \in U
  OBVIOUS
<1> HIDE DEF U, c
<1>3. v \in Nat /\ \A k \in U : k <= v
  BY <1>1, <1>2, LargestIs
<1> QED BY <1>2, <1>3

\* Cells of later rows show in no earlier one.
LEMMA ShowsAll ==
  ASSUME NEW F \in Seq(Rectangles), NEW i \in 0..Len(F), NEW q \in Nat,
         \A j \in 1..Len(F) : j \in 1..i \/ F[j].row > q,
         NEW x, Shows(x, F, i, q), NEW w \in Nat, Len(x) \in Nat, Len(x) <= w,
         \A k \in Nat : k >= Len(x) => ~Taken(F, i, q, k)
  PROVE  Drawn(x, F, q, w)
<1> DEFINE n == Len(F)
<1>1. n \in Nat /\ 1..i \subseteq 1..n /\ \A j \in 1..n : F[j] \in Rectangles
  OBVIOUS
<1>2. \A j \in 1..n : \A k \in Nat : Covers(F[j], q, k) => j \in 1..i
  <2> TAKE j \in 1..n, k \in Nat
  <2>1. F[j].row \in Nat /\ (Covers(F[j], q, k) => F[j].row <= q)
    BY <1>1, Rectangle
  <2>2. j \in 1..i \/ F[j].row > q
    OBVIOUS
  <2> QED BY <2>1, <2>2
<1> HIDE DEF n
<1>3. \A k \in Nat : Taken(F, n, q, k) <=> Taken(F, i, q, k)
  BY <1>1, <1>2 DEF Taken
<1>4. x \in Seq(Names) /\ \A k \in 1..Len(x) : k - 1 \in Nat
  BY DEF Shows
<1>5. Shows(x, F, n, q)
  BY <1>2, <1>3, <1>4 DEF Shows
<1> QED BY <1>3, <1>5 DEF Drawn, n

Added(g, x) == Append(g, x)

LEMMA DrawnGrows ==
  ASSUME NEW g, NEW F, NEW w \in Nat, DrawnAll(g, F, w), NEW v \in Nat, w <= v,
         NEW p, p = Len(g) + 1, NEW x, Drawn(x, F, p, v), NEW h, h = Added(g, x)
  PROVE  DrawnAll(h, F, v) /\ Len(h) = p
<1>1. g \in Seq(Seq(Names)) /\ x \in Seq(Names)
  BY DEF DrawnAll, Drawn, Shows
<1>2. PICK n \in Nat : n = Len(g)
  BY <1>1
<1>3. /\ h \in Seq(Seq(Names)) /\ Len(h) = n + 1 /\ h[n + 1] = x
      /\ \A q \in 1..n : h[q] = g[q]
  BY <1>1, <1>2 DEF Added
<1>4. ASSUME NEW q \in 1..(n + 1) PROVE Drawn(h[q], F, q, v)
  <2>1. CASE q = n + 1
    BY <1>2, <1>3, <2>1
  <2>2. CASE q # n + 1
    <3>1. q \in 1..n
      BY <2>2
    <3>2. Drawn(g[q], F, q, w)
      BY <1>2, <3>1 DEF DrawnAll
    <3>3. Len(g[q]) \in Nat /\ Len(g[q]) <= w
      BY <3>2 DEF Drawn
    <3>4. Len(g[q]) <= v
      BY <3>3
    <3>5. Drawn(g[q], F, q, v)
      BY <3>2, <3>4 DEF Drawn
    <3> QED BY <1>3, <3>1, <3>5
  <2> QED BY <2>1, <2>2
<1> QED BY <1>2, <1>3, <1>4 DEF DrawnAll

\* Row q lays the cells after the i-th up to the h-th.
Between(F, i, h, q) ==
  /\ i \in Nat /\ h \in 0..Len(F) /\ i <= h
  /\ \A j \in 1..h : j \in 1..i \/ F[j].row = q
  /\ \A j \in 1..Len(F) : j \in 1..h \/ F[j].row > q

\* What AddRow makes of a row that is built.
AddsRow(g, w, s, g2, w2) == g2 = Added(g, s.row) /\ w2 = Largest({w, Len(s.row)})

Extended(g, w, P, F, h, q) ==
  DrawnAll(g, F, w) /\ Wide(F, h, w) /\ Len(g) = q /\ Leaves(P, F, h, q + 1)

LEMMA RowAdded ==
  ASSUME NEW F \in Seq(Rectangles), NEW i, NEW h, NEW q \in Nat, Between(F, i, h, q),
         NEW g, NEW w, DrawnAll(g, F, w), Wide(F, i, w), q = Len(g) + 1,
         NEW s, RowBuilt(s, F, h, q), NEW g2, NEW w2, AddsRow(g, w, s, g2, w2)
  PROVE  Extended(g2, w2, s.pending, F, h, q)
<1>0. /\ i \in Nat /\ h \in 0..Len(F) /\ i <= h
      /\ \A j \in 1..h : j \in 1..i \/ F[j].row = q
      /\ \A j \in 1..Len(F) : j \in 1..h \/ F[j].row > q
      /\ g2 = Added(g, s.row) /\ w2 = Largest({w, Len(s.row)})
  BY DEF Between, AddsRow
<1>1. w \in Nat /\ Len(s.row) \in Nat
  BY DEF Wide, RowBuilt
<1>2. w2 \in Nat /\ w <= w2 /\ Len(s.row) <= w2
  BY <1>0, <1>1, LargerOf
<1>3. \A j \in 1..h : F[j] \in Rectangles
  BY <1>0
<1>4. Wide(F, h, w2)
  <2>1. /\ Reaches(F, h, Len(s.row))
        /\ \A j \in 1..h : F[j].row = q => Edge(F[j]) <= Len(s.row)
    BY DEF RowBuilt
  <2>2. h \in Nat
    BY <1>0
  <2>3. PICK c : c = Len(s.row)
    OBVIOUS
  <2>4. Wide(F, h, Largest({w, c}))
    BY <1>0, <1>1, <1>3, <2>1, <2>2, <2>3, WideNext
  <2> QED BY <1>0, <2>3, <2>4
<1>5. Drawn(s.row, F, q, w2)
  <2>1. /\ Shows(s.row, F, h, q) /\ Len(s.row) \in Nat
        /\ \A k \in Nat : k >= Len(s.row) => ~Taken(F, h, q, k)
    BY DEF RowBuilt
  <2> QED BY <1>0, <1>2, <2>1, ShowsAll
<1>6. DrawnAll(g2, F, w2) /\ Len(g2) = q
  <2>1. PICK x : x = s.row
    OBVIOUS
  <2>2. Drawn(x, F, q, w2) /\ g2 = Added(g, x)
    BY <1>0, <1>5, <2>1
  <2> QED BY <1>1, <1>2, <2>2, DrawnGrows
<1>7. Leaves(s.pending, F, h, q + 1)
  BY DEF RowBuilt
<1> QED BY <1>4, <1>6, <1>7 DEF Extended

\* The cells of rows beyond the r-th come later and start below.
LEMMA LaterCells ==
  ASSUME Extracting, NEW r \in 0..Len(Rows)
  PROVE  /\ Done(Map, r) \in 0..Len(Map)
         /\ \A j \in 1..Len(Map) : j \in 1..Done(Map, r) \/ Map[j].row > r
         /\ \A j \in 1..Done(Map, r) : Map[j] \in Rectangles /\ Map[j].row <= r
<1> DEFINE i == Done(Map, r)
           n == Len(Map)
<1>1. /\ n \in Nat /\ i \in 0..n /\ r \in Nat
      /\ \A j \in 1..n : Map[j] \in Rectangles /\ (j <= i <=> Map[j].row <= r)
  BY RawTable DEF LaidOut
<1> HIDE DEF i, n
<1>2. ASSUME NEW j \in 1..n PROVE j \in 1..i \/ Map[j].row > r
  <2>1. Map[j].row \in Nat /\ (j <= i <=> Map[j].row <= r)
    BY <1>1, Rectangle
  <2> QED BY <1>1, <2>1
<1>3. ASSUME NEW j \in 1..i PROVE Map[j] \in Rectangles /\ Map[j].row <= r
  <2>1. j \in 1..n /\ j <= i
    BY <1>1
  <2> QED BY <1>1, <2>1
<1> QED BY <1>1, <1>2, <1>3 DEF i, n

LEMMA ExpandRowStep ==
  ASSUME Extracting, ExpandInv, ExpandRow
  PROVE  /\ UNCHANGED <<spans, raw, table, projected, total>>
         /\ row' = row + 1 /\ ExpandInv'
<1> DEFINE n == row + 1
           i == Done(Map, row)
           h == Done(Map, n)
           t == FoldLeft(ExpandCell, FillToFree(Starter(row, pending)), Rows[n])
           s == FillUp(t)
<1>1. /\ row < Len(Rows) /\ AddRow(s) /\ row' = n
      /\ UNCHANGED <<spans, raw, table, projected, total>>
  BY Zenon DEF ExpandRow, NewRow, Starter, Rows
<1>2. /\ Rows \in RawTables /\ LaidOut(Rows, Map) /\ Len(Rows) \in Nat
      /\ Map \in Seq(Rectangles)
  BY RawTable
<1>3. /\ row \in 0..Len(Rows) /\ Admitted /\ Disjoint(Map, Len(Map))
      /\ Len(grid) = row /\ DrawnAll(grid, Map, max_width)
      /\ Leaves(pending, Map, i, Len(grid) + 1) /\ Wide(Map, i, max_width)
  BY <1>1 DEF ExpandInv, Admitted, Laying
<1>4. row \in Nat /\ n \in Nat /\ n \in 1..Len(Rows) /\ n \in 0..Len(Rows) /\ n = Len(grid) + 1
  <2>1. PICK m : m = Len(Rows)
    OBVIOUS
  <2>2. m \in Nat /\ row \in 0..m /\ row < m
    BY <1>1, <1>2, <1>3, <2>1
  <2>3. row \in Nat /\ n \in Nat /\ n \in 1..m /\ n \in 0..m
    BY <2>2
  <2> QED BY <1>3, <2>1, <2>3
<1>5. /\ i \in Nat /\ h \in Nat /\ i <= h /\ h \in 0..Len(Map)
      /\ Between(Map, i, h, n)
  BY <1>4, RowsAreLaid, LaterCells DEF Between
<1> HIDE DEF s, h, i
<1>6. ExpandsWell(t, Map, h, row, Len(Rows[n]))
  <2>1. Leaves(pending, Map, i, n)
    BY <1>3, <1>4
  <2> QED BY <1>2, <1>3, <1>4, <2>1, RowBuilds DEF h, i
<1> HIDE DEF n, t
<1>7. RowBuilt(s, Map, h, n)
  <2>1. Builder(t, row, Len(Rows[n])) /\ Builds(t.column, t.pending, t.row, Map, h, n)
    BY <1>6 DEF ExpandsWell, n
  <2> QED BY <1>4, <1>5, <2>1, FillsUp DEF s
<1>8. AddsRow(grid, max_width, s, grid', max_width') /\ pending' = s.pending
  BY <1>1 DEF AddRow, Added, AddsRow
<1>9. Extended(grid', max_width', s.pending, Map, h, n)
  BY <1>2, <1>3, <1>4, <1>5, <1>7, <1>8, RowAdded
<1>10. /\ Rows' = Rows /\ Map' = Map /\ Laying' = h /\ Admitted'
  BY <1>1, <1>3 DEF Rows, Map, Laying, h, Admitted, Size
<1>11. n <= Len(grid') /\ Reached(Map, n, Len(grid'))
  BY <1>4, <1>9 DEF Reached, Extended
<1>12. ExpandInv'
  BY <1>1, <1>4, <1>8, <1>9, <1>10, <1>11 DEF ExpandInv, Extended
<1> QED BY <1>1, <1>12 DEF n

LEMMA ExpandTrailingStep ==
  ASSUME Extracting, ExpandInv, ExpandTrailing
  PROVE  UNCHANGED <<spans, raw, table, row, projected, total>> /\ ExpandInv'
<1> DEFINE q == Len(grid) + 1
           h == Len(Map)
           t == Starter(row, pending)
           s == FillUp(t)
<1>1. /\ row = Len(Rows) /\ AddRow(s) /\ DOMAIN pending # {}
      /\ UNCHANGED <<spans, raw, table, row, projected, total>>
  BY Zenon DEF ExpandTrailing, NewRow, Starter, Rows, Columns
<1>2. /\ Rows \in RawTables /\ Len(Rows) \in Nat /\ Map \in Seq(Rectangles) /\ h \in Nat
      /\ Laying = h
  BY <1>1, RawTable DEF Laying
<1>3. /\ Admitted /\ Disjoint(Map, h) /\ row <= Len(grid) /\ row \in 0..Len(Rows)
      /\ DrawnAll(grid, Map, max_width) /\ Wide(Map, h, max_width)
      /\ Leaves(pending, Map, h, q)
  BY <1>2 DEF ExpandInv, Admitted
<1>4. Len(grid) \in Nat /\ q \in Nat /\ row < q /\ row \in Nat
  <2>1. Len(grid) \in Nat /\ row \in Nat
    BY <1>1, <1>2, <1>3 DEF DrawnAll
  <2> QED BY <1>3, <2>1
<1>5. /\ \A j \in 1..h : Map[j] \in Rectangles /\ Map[j].row <= row
  BY <1>1, <1>2, <1>3, LaterCells DEF Laying
<1>6. \A j \in 1..h : Map[j].row < q
  <2> TAKE j \in 1..h
  <2>1. Map[j].row \in Nat /\ Map[j].row <= row
    BY <1>5, Rectangle
  <2> QED BY <1>4, <2>1
<1> HIDE DEF q, h, s, t
<1>7. RowBuilt(s, Map, h, q)
  <2>1. Builder(t, row, 0) /\ Builds(t.column, t.pending, t.row, Map, h, q)
    BY <1>2, <1>3, <1>4, <1>6, StarterIs DEF t
  <2> QED BY <1>2, <1>4, <2>1, FillsUp DEF s
<1>8. AddsRow(grid, max_width, s, grid', max_width') /\ pending' = s.pending
  BY <1>1 DEF AddRow, Added, AddsRow
<1>9. Extended(grid', max_width', s.pending, Map, h, q)
  <2>1. /\ h \in Nat /\ h \in 0..Len(Map) /\ h <= h
        /\ \A j \in 1..Len(Map) : j \in 1..h
    BY <1>2 DEF h
  <2>2. Between(Map, h, h, q)
    BY <2>1 DEF Between
  <2>3. q = Len(grid) + 1
    BY DEF q
  <2> QED BY <1>2, <1>3, <1>4, <1>7, <1>8, <2>2, <2>3, RowAdded
<1>10. /\ Rows' = Rows /\ Map' = Map /\ Laying' = h /\ Admitted'
  <2>1. Rows' = Rows /\ Map' = Map /\ Laying' = Laying
    BY <1>1 DEF Rows, Map, Laying
  <2>2. Admitted'
    BY <1>1, <1>3, <2>1 DEF Admitted, Size
  <2> QED BY <1>2, <2>1, <2>2
<1>11. Reached(Map, row, q)
  <2>1. PICK k : k \in DOMAIN pending
    BY <1>1
  <2>2. k \in Nat /\ Taken(Map, h, Turn(q, 0, k), k)
    <3>1. Carries(Lefts(pending), Map, h, q, 0)
      BY <1>3 DEF Leaves
    <3>2. DOMAIN Lefts(pending) = DOMAIN pending
      BY DEF Lefts
    <3> QED BY <2>1, <3>1, <3>2 DEF Carries
  <2>3. Turn(q, 0, k) = q
    BY <2>2 DEF Turn
  <2>4. PICK j \in 1..h : Covers(Map[j], q, k)
    BY <2>2, <2>3 DEF Taken
  <2>5. q <= Bottom(Map[j])
    BY <1>4, <1>5, <2>2, <2>4, Rectangle
  <2> QED BY <2>5 DEF Reached, h
<1>12. row <= q /\ ~(row < Len(Rows))
  BY <1>1, <1>4
<1>13. ExpandInv'
  BY <1>1, <1>3, <1>8, <1>9, <1>10, <1>11, <1>12 DEF ExpandInv, Extended
<1> QED BY <1>1, <1>13

Padded(x, w) == x \o [k \in 1..(w - Len(x)) |-> Blank]

LEMMA PaddedRow ==
  ASSUME NEW F \in Seq(Rectangles), NEW q \in Nat, NEW w \in Nat, NEW x, Drawn(x, F, q, w)
  PROVE  Padded(x, w) = [k \in 1..w |-> At(F, q, k - 1)]
<1> DEFINE n == Len(x)
           d == w - n
           b == [k \in 1..d |-> Blank]
           y == Padded(x, w)
           z == [k \in 1..w |-> At(F, q, k - 1)]
<1>1. /\ x \in Seq(Names) /\ n \in Nat /\ n <= w /\ Blank \in Names
      /\ \A k \in 1..n : /\ \A j \in 1..Len(F) : Covers(F[j], q, k - 1) => x[k] = F[j].name
                         /\ ~Taken(F, Len(F), q, k - 1) => x[k] = Blank
      /\ \A k \in Nat : k >= n => ~Taken(F, Len(F), q, k)
  BY DEF Drawn, Shows, Names
<1> HIDE DEF n
<1>2. d \in Nat /\ n + d = w
  BY <1>1
<1> HIDE DEF d
<1>3. b \in [1..d -> Names] /\ \A k \in 1..d : b[k] = Blank
  BY <1>1
<1> HIDE DEF b
<1>4. b \in Seq(Names) /\ Len(b) = d
  BY <1>2, <1>3, SeqOfFunction
<1>5. y = x \o b
  BY DEF y, Padded, b, d, n
<1>6. IsJoined(y, x, b, n, d)
  <2>1. Len(x) = n
    BY DEF n
  <2> HIDE DEF y
  <2> QED BY <1>1, <1>2, <1>4, <1>5, <2>1, Joined
<1> HIDE DEF y
<1>7. /\ y \in Seq(Names) /\ Len(y) = w
      /\ \A k \in 1..w : y[k] = IF k <= n THEN x[k] ELSE b[k - n]
  BY <1>2, <1>6 DEF IsJoined
<1>8. ASSUME NEW k \in 1..w PROVE y[k] = At(F, q, k - 1)
  <2>1. k - 1 \in Nat /\ k \in Nat
    OBVIOUS
  <2>2. CASE \E p \in Range(F) : Covers(p, q, k - 1)
    <3>1. PICK p \in Range(F) :
            /\ Covers(p, q, k - 1)
            /\ p = CHOOSE o \in Range(F) : Covers(o, q, k - 1)
      BY <2>2
    <3>2. PICK j \in 1..Len(F) : p = F[j]
      BY <3>1 DEF Range
    <3>3. Taken(F, Len(F), q, k - 1)
      BY <3>1, <3>2 DEF Taken
    <3>4. k <= n
      BY <1>1, <2>1, <3>3
    <3>5. k \in 1..n /\ y[k] = x[k]
      BY <1>1, <1>7, <3>4
    <3>6. x[k] = p.name
      BY <1>1, <3>1, <3>2, <3>5
    <3>7. At(F, q, k - 1) = p.name
      BY <2>2, <3>1 DEF At
    <3> QED BY <3>5, <3>6, <3>7
  <2>3. CASE ~(\E p \in Range(F) : Covers(p, q, k - 1))
    <3>1. ~Taken(F, Len(F), q, k - 1)
      BY <2>3 DEF Taken, Range
    <3>2. At(F, q, k - 1) = Blank
      BY <2>3 DEF At
    <3>3. CASE k <= n
      BY <1>1, <1>7, <3>1, <3>2, <3>3
    <3>4. CASE ~(k <= n)
      <4>1. k - n \in 1..d /\ y[k] = b[k - n]
        BY <1>1, <1>2, <1>7, <3>4
      <4> QED BY <1>3, <3>2, <4>1
    <3> QED BY <3>3, <3>4
  <2> QED BY <2>2, <2>3
<1>9. z \in Seq(Names) /\ Len(z) = w /\ \A k \in 1..w : z[k] = At(F, q, k - 1)
  <2>1. \A k \in 1..w : y[k] \in Names
    BY <1>7
  <2>2. z \in [1..w -> Names] /\ \A k \in 1..w : z[k] = At(F, q, k - 1)
    BY <1>8, <2>1
  <2> HIDE DEF z
  <2> QED BY <2>2, SeqOfFunction
<1> HIDE DEF z
<1>10. y = z
  BY <1>7, <1>8, <1>9, SeqEqual
<1> QED BY <1>10 DEF y, z

LEMMA FinishGridStep ==
  ASSUME Extracting, ExpandInv, FinishGrid
  PROVE  /\ UNCHANGED <<raw, table>> /\ spans' = "table"
         /\ Extracting' /\ GridExact'
<1> DEFINE g == Len(grid)
           n == Len(Map)
           w == max_width
<1>1. /\ row = Len(Rows) /\ DOMAIN pending = {} /\ UNCHANGED <<raw, table>>
      /\ grid' = [r \in DOMAIN grid |-> Padded(grid[r], w)]
      /\ IF <<g, w>> # projected THEN spans' = "INVALID_TABLE_SPAN" /\ UNCHANGED total
         ELSE spans' = "table" /\ total' = total + g * w
  BY DEF FinishGrid, Rows, Columns, Padded
<1>2. /\ Rows \in RawTables /\ Len(Rows) \in Nat /\ Map \in Seq(Rectangles) /\ n \in Nat
      /\ Laying = n /\ \A j \in 1..n : Map[j] \in Rectangles
  BY <1>1, RawTable DEF Laying
<1>3. /\ Admitted /\ row <= g /\ row \in 0..Len(Rows)
      /\ DrawnAll(grid, Map, w) /\ Wide(Map, n, w)
      /\ Leaves(pending, Map, n, g + 1) /\ Reached(Map, row, g)
  BY <1>2 DEF ExpandInv
<1>4. g \in Nat /\ row \in Nat /\ w \in Nat /\ DOMAIN grid = 1..g
  BY <1>1, <1>2, <1>3 DEF DrawnAll, Wide
<1>5. \A j \in 1..n : Map[j].row <= row
  BY <1>1, <1>2, LaterCells DEF Laying
<1> HIDE DEF g, n, w
<1>6. \A k \in Nat : ~Taken(Map, n, g + 1, k)
  <2>1. Carries(Lefts(pending), Map, n, g + 1, 0)
    BY <1>3 DEF Leaves
  <2>2. DOMAIN Lefts(pending) = {}
    BY <1>1 DEF Lefts
  <2>3. \A k \in Nat : Turn(g + 1, 0, k) = g + 1
    BY DEF Turn
  <2> QED BY <2>1, <2>2, <2>3 DEF Carries
<1>7. ASSUME NEW j \in 1..n PROVE Bottom(Map[j]) \in Nat /\ Bottom(Map[j]) <= g
  <2>1. /\ Map[j].row \in Nat /\ Map[j].row <= row /\ Map[j].column \in Nat
        /\ Map[j].column < Edge(Map[j]) /\ Bottom(Map[j]) \in Nat /\ g + 1 \in Nat
        /\ \A r, k \in Nat :
              Covers(Map[j], r, k) <=> /\ Map[j].row <= r /\ r <= Bottom(Map[j])
                                       /\ Map[j].column <= k /\ k < Edge(Map[j])
    <3>1. PICK p : p = Map[j]
      OBVIOUS
    <3>2. p \in Rectangles /\ p.row <= row
      BY <1>2, <1>5, <3>1
    <3>3. /\ p.row \in Nat /\ p.column \in Nat
          /\ p.column < Edge(p) /\ Bottom(p) \in Nat
          /\ \A r, k \in Nat :
                Covers(p, r, k) <=> /\ p.row <= r /\ r <= Bottom(p)
                                    /\ p.column <= k /\ k < Edge(p)
      BY <3>2, Rectangle
    <3>4. g + 1 \in Nat
      BY <1>4
    <3> QED BY <3>1, <3>2, <3>3, <3>4
  <2>2. ~Covers(Map[j], g + 1, Map[j].column)
    BY <1>6, <2>1 DEF Taken
  <2>3. ~(Map[j].row <= g + 1 /\ g + 1 <= Bottom(Map[j]))
    BY <2>1, <2>2
  <2> QED BY <1>3, <1>4, <2>1, <2>3
<1>8. Tall(Map, n, Len(Rows), g)
  <2>1. g = row \/ \E j \in 1..n : g = Bottom(Map[j])
    <3>1. CASE g = row
      BY <3>1
    <3>2. CASE \E j \in 1..n : g <= Bottom(Map[j])
      <4>1. PICK j \in 1..n : g <= Bottom(Map[j])
        BY <3>2
      <4>2. g = Bottom(Map[j])
        BY <1>4, <1>7, <4>1
      <4> QED BY <4>2
    <3> QED BY <1>3, <3>1, <3>2 DEF Reached, n
  <2> QED BY <1>1, <1>3, <1>4, <1>7, <2>1 DEF Tall
<1>9. Wide(Map, n, Width(Map)) /\ Tall(Map, n, Len(Rows), Height(Rows, Map))
  BY <1>2, SizeIs DEF n
<1>10. w = Width(Map)
  BY <1>2, <1>3, <1>9, WidthBounds
<1>11. g = Height(Rows, Map)
  BY <1>2, <1>8, <1>9, HeightBounds
<1>12. <<g, w>> = projected /\ Size[1] = g /\ Size[2] = w
  BY <1>3, <1>10, <1>11 DEF Admitted, Size
<1>13. spans' = "table" /\ total' = total + g * w
  BY <1>1, <1>12
<1>14. Extracting'
  <2>1. PICK a : a = g * w
    OBVIOUS
  <2>2. a \in Nat
    BY <1>4, <2>1, ProductGrows
  <2>3. total \in Nat /\ total + a <= MaxTotalCells
    BY <1>3, <1>12, <2>1 DEF Admitted, Extracting
  <2>4. total' \in Nat /\ total' <= MaxTotalCells
    BY <1>13, <2>1, <2>2, <2>3
  <2> QED BY <1>1, <2>4 DEF Extracting
<1>15. /\ DOMAIN grid' = 1..g
       /\ \A q \in 1..g : grid'[q] = [k \in 1..w |-> At(Map, q, k - 1)]
  <2>1. ASSUME NEW q \in 1..g PROVE Padded(grid[q], w) = [k \in 1..w |-> At(Map, q, k - 1)]
    <3>1. Drawn(grid[q], Map, q, w) /\ q \in Nat
      BY <1>3 DEF DrawnAll, g
    <3> QED BY <1>2, <1>4, <3>1, PaddedRow
  <2>2. DOMAIN grid' = 1..g /\ \A q \in 1..g : grid'[q] = Padded(grid[q], w)
    BY <1>1, <1>4
  <2> QED BY <2>1, <2>2
<1>16. Len(grid') = g
  <2>1. grid' \in [1..g -> {grid'[q] : q \in 1..g}]
    BY <1>1, <1>4
  <2> QED BY <1>4, <2>1, SeqOfFunction
<1>17. GridExact'
  <2>1. raw' = raw /\ table' = table
    BY <1>1
  <2>2. Layout(raw[table]) = Map /\ raw[table] = Rows
    BY DEF Map, Rows
  <2>3. (Layout(raw[table]))' = Map /\ (raw[table])' = Rows
    BY <2>1, <2>2
  <2>4. /\ Len(grid') = Height(Rows, Map)
        /\ \A r \in DOMAIN grid' : grid'[r] = [k \in 1..Width(Map) |-> At(Map, r, k - 1)]
    BY <1>10, <1>11, <1>15, <1>16
  <2> QED BY <2>3, <2>4 DEF GridExact
<1> QED BY <1>1, <1>13, <1>14, <1>17

-----------------------------------------------------------------------------
(* extract_tables: every table in turn.                                    *)

SpanInv ==
  /\ spans \in {"project", "expand", "table"} => Extracting
  /\ spans = "project" => ProjectInv /\ grid = <<>>
  /\ spans = "expand" => ExpandInv
  /\ RefusedFor(spans) /\ GridExact

LEMMA NothingLaid ==
  ASSUME NEW F
  PROVE  /\ Carries(Nothing, F, 0, 1, 0) /\ Leaves(Nothing, F, 0, 1)
         /\ Disjoint(F, 0) /\ Within(F, 0) /\ Wide(F, 0, 0)
<1>1. DOMAIN Nothing = {} /\ DOMAIN Lefts(Nothing) = {}
  BY DEF Nothing, Lefts
<1>2. \A P : DOMAIN P = {} => Carries(P, F, 0, 1, 0)
  BY DEF Carries, Taken
<1>3. CarriesNames(Nothing, F, 0, 1, 0)
  BY <1>1 DEF CarriesNames
<1>4. Disjoint(F, 0) /\ Within(F, 0) /\ Wide(F, 0, 0)
  BY DEF Disjoint, Within, Wide, Reaches
<1> QED BY <1>1, <1>2, <1>3, <1>4 DEF Leaves

LEMMA SpansInitially == SpansIdle => SpanInv
  BY DEF SpansIdle, SpanInv, RefusedFor, GridExact

LEMMA SpansForgotten == ForgetTables => SpanInv'
  BY DEF ForgetTables, SpanInv, RefusedFor, GridExact

LEMMA SpansUndisturbed == SpanInv /\ UNCHANGED spanVars => SpanInv'
<1> SUFFICES ASSUME SpanInv, UNCHANGED spanVars PROVE SpanInv'
  OBVIOUS
<1>1. /\ spans' = spans /\ raw' = raw /\ table' = table /\ row' = row /\ pending' = pending
      /\ max_width' = max_width /\ projected' = projected /\ grid' = grid /\ total' = total
  BY DEF spanVars
<1>2. Rows' = Rows /\ Map' = Map
  BY <1>1 DEF Rows, Map
<1>3. Laying' = Laying
  BY <1>1, <1>2 DEF Laying
<1>4. Shaped' = Shaped /\ Size' = Size
  BY <1>1, <1>2 DEF Shaped, Size
<1>5. Extracting' = Extracting
  BY <1>1 DEF Extracting
<1>6. ProjectInv => ProjectInv'
  BY <1>1, <1>2, <1>3, <1>4 DEF ProjectInv
<1>7. Admitted => Admitted'
  BY <1>1, <1>2, <1>4 DEF Admitted
<1>8. ExpandInv => ExpandInv'
  BY <1>1, <1>2, <1>3, <1>7 DEF ExpandInv
<1>9. RefusedFor(spans) => RefusedFor(spans)'
  BY <1>1, <1>2 DEF RefusedFor
<1>10. GridExact => GridExact'
  BY <1>1 DEF GridExact
<1> QED BY <1>1, <1>5, <1>6, <1>8, <1>9, <1>10 DEF SpanInv

LEMMA TableStarted ==
  ASSUME raw' \in RawDocuments, total' \in Nat, total' <= MaxTotalCells,
         NEW t \in 1..Len(raw'), StartTable(t)
  PROVE  SpanInv'
<1>1. /\ table' = t /\ row' = 0 /\ pending' = Nothing /\ max_width' = 0 /\ grid' = <<>>
      /\ spans' = "project"
  BY DEF StartTable
<1>2. Extracting'
  BY <1>1 DEF Extracting
<1>3. raw'[t] \in RawTables
  BY RawAssumption
<1>4. LaidOut(raw'[t], Layout(raw'[t]))
  BY <1>3, LayoutIs
<1>5. Map' = Layout(raw'[t]) /\ Rows' = raw'[t]
  BY <1>1 DEF Map, Rows
<1>6. Laying' = 0
  BY <1>1, <1>4, <1>5 DEF Laying, LaidOut
<1>7. Carries(Nothing, Map', 0, 1, 0) /\ Disjoint(Map', 0) /\ Within(Map', 0) /\ Wide(Map', 0, 0)
  BY NothingLaid
<1>8. Projects(pending', Map', 0, 0)
  BY <1>1, <1>7 DEF Projects
<1>9. 0 \in 0..Len(raw'[t])
  BY <1>3 DEF RawTables
<1>10. ProjectInv'
  BY <1>1, <1>5, <1>6, <1>7, <1>8, <1>9 DEF ProjectInv
<1> QED BY <1>1, <1>2, <1>10 DEF SpanInv, RefusedFor, GridExact

LEMMA TablesOpened ==
  ASSUME NEW document \in RawDocuments, OpenTables(document), SpanInv
  PROVE  SpanInv'
<1>1. raw' = document /\ total' = 0
  BY DEF OpenTables
<1>2. CASE document = <<>>
  <2>1. spans' = "tables"
    BY <1>2 DEF OpenTables
  <2> QED BY <2>1 DEF SpanInv, RefusedFor, GridExact
<1>3. CASE document # <<>>
  <2>1. StartTable(1)
    BY <1>3 DEF OpenTables
  <2>2. document \in Seq(RawTables)
    BY RawAssumption
  <2>3. 1 \in 1..Len(document)
    BY <1>3, <2>2
  <2>4. 0 \in Nat /\ 0 <= MaxTotalCells
    BY LimitsAssumption DEF Positive
  <2> QED BY <1>1, <2>1, <2>3, <2>4, TableStarted
<1> QED BY <1>2, <1>3

LEMMA SpansStep == SpanInv /\ SpansNext => SpanInv'
<1> SUFFICES ASSUME SpanInv, SpansNext PROVE SpanInv'
  OBVIOUS
<1>1. CASE ProjectRow
  <2>1. spans = "project" /\ Extracting /\ ProjectInv /\ grid = <<>>
    BY <1>1 DEF ProjectRow, SpanInv
  <2>2. grid' = grid
    BY <1>1 DEF ProjectRow, RefuseSpans
  <2>3. \/ /\ UNCHANGED <<raw, table, total>> /\ spans' = spans
           /\ ProjectInv'
        \/ /\ UNCHANGED <<raw, table, row, total>> /\ spans' # ""
           /\ RefusedFor(spans')
           /\ spans' \in {"INVALID_TABLE_SPAN", "TOO_MANY_ROWS", "TOO_MANY_COLUMNS",
                          "TOO_MANY_CELLS"}
    BY <1>1, <2>1, ProjectRowStep
  <2>4. CASE UNCHANGED <<raw, table, total>> /\ spans' = spans /\ ProjectInv'
    <3>1. Extracting'
      BY <2>1, <2>4 DEF Extracting
    <3> QED BY <2>1, <2>2, <2>4, <3>1 DEF SpanInv, RefusedFor, GridExact
  <2>5. CASE /\ UNCHANGED <<raw, table, row, total>> /\ RefusedFor(spans')
             /\ spans' \in {"INVALID_TABLE_SPAN", "TOO_MANY_ROWS", "TOO_MANY_COLUMNS",
                            "TOO_MANY_CELLS"}
    <3>1. Map' = Map /\ Rows' = Rows /\ total' = total
      BY <2>5 DEF Map, Rows
    <3>2. RefusedFor(spans)'
      BY <2>5, <3>1 DEF RefusedFor
    <3> QED BY <2>5, <3>2 DEF SpanInv, GridExact
  <2> QED BY <2>3, <2>4, <2>5
<1>2. CASE Projected
  <2>1. spans = "project" /\ Extracting /\ ProjectInv /\ grid = <<>>
    BY <1>2 DEF Projected, SpanInv
  <2>2. /\ UNCHANGED <<raw, table, grid, total>> /\ spans' = "expand"
        /\ row' = 0 /\ pending' = Nothing /\ max_width' = 0
        /\ Admitted'
    BY <1>2, <2>1, ProjectedStep
  <2>3. Extracting'
    BY <2>1, <2>2 DEF Extracting
  <2>4. Rows' = Rows /\ Map' = Map
    BY <2>2 DEF Rows, Map
  <2>5. Laying' = 0 /\ 0 \in 0..Len(Rows)
    <3>1. Len(Rows) \in Nat /\ Done(Map, 0) = 0
      BY <2>1, RawTable DEF LaidOut
    <3> QED BY <2>2, <2>4, <3>1 DEF Laying
  <2>6. grid' = <<>> /\ Len(grid') = 0 /\ grid' \in Seq(Seq(Names))
    BY <2>1, <2>2
  <2>7. DrawnAll(grid', Map, 0)
    BY <2>6 DEF DrawnAll
  <2>8. Leaves(Nothing, Map, 0, 1) /\ Wide(Map, 0, 0)
    BY NothingLaid
  <2>9. Reached(Map, 0, Len(grid')) /\ 0 <= Len(grid') /\ Leaves(pending', Map, 0, Len(grid') + 1)
    BY <2>2, <2>6, <2>8 DEF Reached
  <2>10. ExpandInv'
    BY <2>2, <2>4, <2>5, <2>6, <2>7, <2>8, <2>9 DEF ExpandInv
  <2> QED BY <2>2, <2>3, <2>10 DEF SpanInv, RefusedFor, GridExact
<1>3. CASE ExpandRow \/ ExpandTrailing
  <2>1. spans = "expand" /\ Extracting /\ ExpandInv
    BY <1>3 DEF ExpandRow, ExpandTrailing, SpanInv
  <2>2. UNCHANGED <<spans, raw, table, total>> /\ ExpandInv'
    BY <1>3, <2>1, ExpandRowStep, ExpandTrailingStep
  <2>3. Extracting'
    BY <2>1, <2>2 DEF Extracting
  <2> QED BY <2>1, <2>2, <2>3 DEF SpanInv, RefusedFor, GridExact
<1>4. CASE FinishGrid
  <2>1. Extracting /\ ExpandInv
    BY <1>4 DEF FinishGrid, SpanInv
  <2>2. spans' = "table" /\ Extracting' /\ GridExact'
    BY <1>4, <2>1, FinishGridStep
  <2> QED BY <2>2 DEF SpanInv, RefusedFor
<1>5. CASE NextTable
  <2>1. Extracting /\ UNCHANGED <<raw, total>>
    BY <1>5 DEF NextTable, SpanInv
  <2>2. CASE table = Len(raw)
    <3>1. spans' = "tables"
      BY <1>5, <2>2 DEF NextTable
    <3> QED BY <3>1 DEF SpanInv, RefusedFor, GridExact
  <2>3. CASE table # Len(raw)
    <3>1. StartTable(table + 1)
      BY <1>5, <2>3 DEF NextTable
    <3>2. raw \in Seq(RawTables)
      BY <2>1, RawAssumption DEF Extracting
    <3>3. table + 1 \in 1..Len(raw)
      BY <2>1, <2>3, <3>2 DEF Extracting
    <3>4. raw' \in RawDocuments /\ total' \in Nat /\ total' <= MaxTotalCells
      BY <2>1 DEF Extracting
    <3>5. table + 1 \in 1..Len(raw')
      BY <2>1, <3>3
    <3> QED BY <3>1, <3>4, <3>5, TableStarted
  <2> QED BY <2>2, <2>3
<1> QED BY <1>1, <1>2, <1>3, <1>4, <1>5 DEF SpansNext

\* What is built never exceeds the size of the layout.
LEMMA GridWithinSize ==
  ASSUME Extracting, ExpandInv
  PROVE  Len(grid) <= Size[1] /\ \A r \in DOMAIN grid : Len(grid[r]) <= Size[2]
<1> DEFINE g == Len(grid)
           n == Len(Map)
           w == max_width
<1>1. /\ Rows \in RawTables /\ Len(Rows) \in Nat /\ Map \in Seq(Rectangles) /\ n \in Nat
      /\ \A j \in 1..n : Map[j] \in Rectangles
  BY RawTable
<1>2. /\ row \in 0..Len(Rows) /\ DrawnAll(grid, Map, w) /\ Wide(Map, Laying, w)
      /\ Reached(Map, row, g)
  BY DEF ExpandInv
<1>3. Laying \in 0..n
  BY <1>2, RawTable DEF Laying
<1>4. Wide(Map, n, Width(Map)) /\ Tall(Map, n, Len(Rows), Height(Rows, Map))
  BY <1>1, SizeIs
<1>5. Size[1] = Height(Rows, Map) /\ Size[2] = Width(Map)
  BY DEF Size
<1>6. g \in Nat /\ DOMAIN grid = 1..g
  BY <1>2 DEF DrawnAll
<1> HIDE DEF g, n, w
<1>7. w <= Width(Map)
  BY <1>1, <1>2, <1>3, <1>4, WidthBounds
<1>8. g <= Height(Rows, Map)
  <2>1. /\ Height(Rows, Map) \in Nat /\ Len(Rows) <= Height(Rows, Map)
        /\ \A j \in 1..n : Bottom(Map[j]) <= Height(Rows, Map)
    BY <1>4 DEF Tall
  <2>2. CASE g = row
    BY <1>1, <1>2, <2>1, <2>2
  <2>3. CASE \E j \in 1..n : g <= Bottom(Map[j])
    <3>1. PICK j \in 1..n : g <= Bottom(Map[j])
      BY <2>3
    <3>2. Bottom(Map[j]) \in Nat
      BY <1>1, Rectangle
    <3> QED BY <1>6, <2>1, <3>1, <3>2
  <2> QED BY <1>2, <2>2, <2>3 DEF Reached, n
<1>9. ASSUME NEW r \in DOMAIN grid PROVE Len(grid[r]) <= Width(Map)
  <2>1. Len(grid[r]) \in Nat /\ Len(grid[r]) <= w
    BY <1>2, <1>6 DEF DrawnAll, Drawn, g
  <2>2. w \in Nat /\ Width(Map) \in Nat
    BY <1>2, <1>4 DEF Wide
  <2> QED BY <1>7, <2>1, <2>2
<1> QED BY <1>5, <1>8, <1>9 DEF g

LEMMA SpansExact == SpanInv => ProjectionExact /\ GridExact
<1> SUFFICES ASSUME SpanInv PROVE ProjectionExact /\ GridExact
  OBVIOUS
<1>1. /\ Layout(raw[table]) = Map /\ raw[table] = Rows
      /\ <<Height(Rows, Map), Width(Map)>> = Size
      /\ Size[1] = Height(Rows, Map) /\ Size[2] = Width(Map)
  BY DEF Map, Rows, Size
<1>2. RefusedFor(spans)
  BY DEF SpanInv
<1>3. ASSUME spans = "expand"
      PROVE  /\ projected = Size /\ ~Overlapping(Map)
             /\ Size[1] <= MaxRows /\ Size[2] <= MaxColumns
             /\ total + Size[1] * Size[2] <= MaxTotalCells
             /\ Len(grid) <= Size[1] /\ \A r \in DOMAIN grid : Len(grid[r]) <= Size[2]
  <2>1. Extracting /\ ExpandInv /\ Admitted
    BY <1>3 DEF SpanInv, ExpandInv
  <2>2. ~Overlapping(Map)
    BY <2>1, RawTable, NoOverlap DEF Admitted
  <2>3. Len(grid) <= Size[1] /\ \A r \in DOMAIN grid : Len(grid[r]) <= Size[2]
    BY <2>1, GridWithinSize
  <2> QED BY <2>1, <2>2, <2>3 DEF Admitted
<1>4. ProjectionExact
  BY <1>1, <1>2, <1>3 DEF ProjectionExact, RefusedFor
<1> QED BY <1>4 DEF SpanInv
=============================================================================
