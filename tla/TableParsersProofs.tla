------------------------- MODULE TableParsersProofs -------------------------
(***************************************************************************)
(* Proofs about the two parsers, for any document, any set of containers   *)
(* and any limits.  Inspection shows no text of a suppressed container:    *)
(* while the parser has not given up, its stack holds at least as many     *)
(* copies of a container as are unclosed (StackInv), so a text that is     *)
(* read with an empty stack is inside none.  Each text has one place, in   *)
(* the order of the document (InspectionOrdered, LoadingOrdered), and a    *)
(* loaded value has as many columns as its cell spans (SpansInv).  In a    *)
(* regular document both parsers are where the open elements say           *)
(* (AlikeInv), so they agree and a proposal describes what is loaded.      *)
(***************************************************************************)
EXTENDS TableParsers, PlaceLemmas, TLAPS, FiniteSetTheorems, SequenceTheorems

Positions(s, c) == {i \in DOMAIN s : s[i] = c}
Copies(s, c) == Cardinality(Positions(s, c))

TablesOver(S) == Seq(Seq(Seq([colspan : Int, text : Seq(S)])))
Shown == (1..texts) \ inert

StackInv ==
  /\ suppression_stack \in Seq(Containers)
  /\ unclosed \in [Containers -> Nat]
  /\ \A c \in Containers : unclosed[c] <= Copies(suppression_stack, c)

Inv ==
  /\ texts \in Nat /\ inert \subseteq 1..texts
  /\ unclosed \in [Containers -> Nat]
  /\ tables \in TablesOver(Shown)
  /\ rejected \/ StackInv

-----------------------------------------------------------------------------
\* Sequences.

LEMMA PositionsFinite ==
  ASSUME NEW S, NEW s \in Seq(S), NEW c
  PROVE  IsFiniteSet(Positions(s, c)) /\ Copies(s, c) \in Nat
<1>1. Len(s) \in Nat /\ DOMAIN s = 1..Len(s)
  OBVIOUS
<1>2. IsFiniteSet(1..Len(s))
  BY <1>1, FS_Interval
<1>3. Positions(s, c) \subseteq 1..Len(s)
  BY <1>1 DEF Positions
<1>4. IsFiniteSet(Positions(s, c))
  BY <1>2, <1>3, FS_Subset
<1> QED BY <1>4, FS_CardinalityType DEF Copies

\* A longer stack has one copy more of what was pushed.
LEMMA CopiesAppend ==
  ASSUME NEW S, NEW s \in Seq(S), NEW d \in S, NEW c
  PROVE  Copies(Append(s, d), c) = IF c = d THEN Copies(s, c) + 1 ELSE Copies(s, c)
<1> DEFINE n == Len(s) + 1
           t == Append(s, d)
<1>1. DOMAIN t = 1..n /\ DOMAIN s = 1..Len(s) /\ Len(s) \in Nat
  OBVIOUS
<1>2. t[n] = d /\ \A i \in DOMAIN s : t[i] = s[i]
  OBVIOUS
<1>3. Positions(t, c) =
        IF c = d THEN Positions(s, c) \cup {n} ELSE Positions(s, c)
  <2> HIDE DEF t
  <2>1. DOMAIN t = DOMAIN s \cup {n} /\ n \notin DOMAIN s
    BY <1>1
  <2> HIDE DEF n
  <2> QED BY <2>1, <1>2 DEF Positions
<1>4. n \notin Positions(s, c)
  BY <1>1 DEF Positions
<1>5. IsFiniteSet(Positions(s, c))
  BY PositionsFinite
<1> HIDE DEF n, t
<1>6. c = d => Cardinality(Positions(s, c) \cup {n}) = Cardinality(Positions(s, c)) + 1
  BY <1>4, <1>5, FS_AddElement
<1>7. Copies(t, c) = IF c = d THEN Copies(s, c) + 1 ELSE Copies(s, c)
  BY <1>3, <1>6 DEF Copies
<1> QED BY <1>7 DEF t

\* A stack without its last element has one copy less of that.
LEMMA CopiesFront ==
  ASSUME NEW S, NEW s \in Seq(S), s # <<>>, NEW c
  PROVE  /\ Front(s) \in Seq(S) /\ Last(s) \in S
         /\ Copies(s, c) = IF c = Last(s) THEN Copies(Front(s), c) + 1
                                          ELSE Copies(Front(s), c)
<1>1. Front(s) \in Seq(S) /\ Last(s) \in S /\ s = Append(Front(s), Last(s))
  <2>1. Len(s) \in Nat /\ Len(s) > 0
    OBVIOUS
  <2>2. /\ Front(s) \in Seq(S) /\ Len(Front(s)) = Len(s) - 1
        /\ \A i \in 1..(Len(s) - 1) : Front(s)[i] = s[i]
    <3> DEFINE m == Len(s) - 1
    <3>1. /\ m \in 0..Len(s) /\ 1 \in 1..(Len(s) + 1)
          /\ \A i \in 1..m : s[i] \in S /\ s[1 + i - 1] = s[i]
          /\ m - 1 + 1 = m
      BY <2>1
    <3>2. Front(s) = SubSeq(s, 1, m)
      BY DEF Front
    <3> HIDE DEF m
    <3>3. SubSeq(s, 1, m) = [i \in 1..m |-> s[i]]
      BY <3>1, SubSeqRestrict
    <3>4. m \in Nat /\ [i \in 1..m |-> s[i]] \in Seq(S)
      BY <3>1, <2>1
    <3>5. Len([i \in 1..m |-> s[i]]) = m
      BY <3>4
    <3> QED BY <3>2, <3>3, <3>4, <3>5 DEF m
  <2>4. Last(s) \in S
    BY <2>1 DEF Last
  <2>5. Append(Front(s), Last(s)) \in Seq(S)
    BY <2>2, <2>4
  <2>6. Len(Append(Front(s), Last(s))) = Len(s)
    BY <2>1, <2>2
  <2>7. \A i \in 1..Len(s) : Append(Front(s), Last(s))[i] = s[i]
    BY <2>1, <2>2 DEF Last
  <2> QED BY <2>2, <2>4, <2>5, <2>6, <2>7
<1>2. Copies(Append(Front(s), Last(s)), c) =
        IF c = Last(s) THEN Copies(Front(s), c) + 1 ELSE Copies(Front(s), c)
  BY <1>1, CopiesAppend
<1> QED BY <1>1, <1>2

\* Replacing an element keeps a sequence one over the same set.
LEMMA UpdateSeq ==
  ASSUME NEW X, NEW s \in Seq(X), NEW k, NEW y, k \in DOMAIN s => y \in X
  PROVE  [s EXCEPT ![k] = y] \in Seq(X)
<1>1. CASE k \in DOMAIN s
  <2>1. k \in 1..Len(s) /\ y \in X
    BY <1>1
  <2> QED BY <2>1, ExceptSeq
<1>2. CASE k \notin DOMAIN s
  <2>1. s = [i \in DOMAIN s |-> s[i]]
    BY LenProperties
  <2>2. [s EXCEPT ![k] = y] = [i \in DOMAIN s |-> s[i]]
    BY <1>2
  <2> QED BY <2>1, <2>2
<1> QED BY <1>1, <1>2

LEMMA AppendToLastSeq ==
  ASSUME NEW X, NEW rows \in Seq(Seq(X)), NEW x \in X
  PROVE  AppendToLast(rows, x) \in Seq(Seq(X))
<1> DEFINE y == Append(rows[Len(rows)], x)
<1>1. Len(rows) \in DOMAIN rows => y \in Seq(X)
  OBVIOUS
<1>2. AppendToLast(rows, x) = [rows EXCEPT ![Len(rows)] = y]
  BY DEF AppendToLast
<1> HIDE DEF y
<1>3. [rows EXCEPT ![Len(rows)] = y] \in Seq(Seq(X))
  BY <1>1, UpdateSeq
<1> QED BY <1>2, <1>3

LEMMA TablesMonotone ==
  ASSUME NEW S, NEW T, S \subseteq T
  PROVE  TablesOver(S) \subseteq TablesOver(T)
<1> DEFINE C(U) == [colspan : Int, text : Seq(U)]
<1>1. Seq(S) \subseteq Seq(T)
  BY SeqMonotonic
<1>2. C(S) \subseteq C(T)
  BY <1>1
<1>3. TablesOver(S) = Seq(Seq(Seq(C(S)))) /\ TablesOver(T) = Seq(Seq(Seq(C(T))))
  BY DEF TablesOver
<1> HIDE DEF C
<1>4. Seq(C(S)) \subseteq Seq(C(T))
  BY <1>2, SeqMonotonic
<1>5. Seq(Seq(C(S))) \subseteq Seq(Seq(C(T)))
  BY <1>4, SeqMonotonic
<1>6. Seq(Seq(Seq(C(S)))) \subseteq Seq(Seq(Seq(C(T))))
  BY <1>5, SeqMonotonic
<1> QED BY <1>3, <1>6

-----------------------------------------------------------------------------
\* What one token does to the tables: a text is added only with an empty
\* stack.
LEMMA InspectTables ==
  ASSUME NEW t \in Tokens, NEW n, NEW S, tables \in TablesOver(S),
         Inspect(t, n), (t.kind = "data" /\ ~rejected /\ ~Suppressing) => n \in S,
         TokensAssumption
  PROVE  tables' \in TablesOver(S)
<1> DEFINE C == [colspan : Int, text : Seq(S)]
<1>0. tables \in Seq(Seq(Seq(C)))
  BY DEF TablesOver
<1>1. CASE UNCHANGED tables
  BY <1>1
<1>2. ASSUME StartTable PROVE tables' \in Seq(Seq(Seq(C)))
  <2>1. tables' = tables \/ tables' = Append(tables, <<>>)
    BY <1>2 DEF StartTable, Reject, structure
  <2> HIDE DEF C
  <2>2. <<>> \in Seq(Seq(C))
    BY EmptySeq
  <2>3. Append(tables, <<>>) \in Seq(Seq(Seq(C)))
    BY <2>2, <1>0, AppendProperties
  <2> QED BY <2>1, <2>3, <1>0
<1>3. ASSUME StartRow PROVE tables' \in Seq(Seq(Seq(C)))
  <2>1. tables' = tables \/ tables' = AppendToLast(tables, <<>>)
    BY <1>3 DEF StartRow, Reject, structure
  <2> HIDE DEF C
  <2>2. <<>> \in Seq(C)
    BY EmptySeq
  <2>3. AppendToLast(tables, <<>>) \in Seq(Seq(Seq(C)))
    BY <2>2, <1>0, AppendToLastSeq
  <2> QED BY <2>1, <2>3, <1>0
<1>4. ASSUME NEW colspan \in Int, StartCell(colspan)
      PROVE  tables' \in Seq(Seq(Seq(C)))
  <2> DEFINE cell == [colspan |-> colspan, text |-> <<>>]
             rows == AppendToLast(tables[Len(tables)], cell)
  <2>1. tables' = tables \/ tables' = [tables EXCEPT ![Len(tables)] = rows]
    BY <1>4 DEF StartCell, Reject, structure
  <2>2. cell \in C
    OBVIOUS
  <2> HIDE DEF C, cell
  <2>3. Len(tables) \in DOMAIN tables => tables[Len(tables)] \in Seq(Seq(C))
    BY <1>0
  <2>4. Len(tables) \in DOMAIN tables => rows \in Seq(Seq(C))
    BY <2>2, <2>3, AppendToLastSeq
  <2> HIDE DEF rows
  <2>5. [tables EXCEPT ![Len(tables)] = rows] \in Seq(Seq(Seq(C)))
    BY <2>4, <1>0, UpdateSeq
  <2> QED BY <2>1, <2>5, <1>0
<1>5. ASSUME AddText(n), n \in S PROVE tables' \in Seq(Seq(Seq(C)))
  <2> DEFINE k == Len(tables)
             r == current_cell[1]
             i == current_cell[2]
             cell == [tables[k][r][i] EXCEPT !.text = Append(@, n)]
             row == [tables[k][r] EXCEPT ![i] = cell]
             rows == [tables[k] EXCEPT ![r] = row]
  <2>1. tables' = tables \/ tables' = [tables EXCEPT ![k] = rows]
    BY <1>5 DEF AddText, Reject, structure
  <2>2. ASSUME k \in DOMAIN tables PROVE rows \in Seq(Seq(C))
    <3>1. tables[k] \in Seq(Seq(C))
      <4> HIDE DEF C, k
      <4> QED BY <1>0, <2>2
    <3>2. ASSUME r \in DOMAIN tables[k] PROVE row \in Seq(C)
      <4>1. tables[k][r] \in Seq(C)
        <5> HIDE DEF C, k, r
        <5> QED BY <3>1, <3>2
      <4>2. ASSUME i \in DOMAIN tables[k][r] PROVE cell \in C
        <5>1. tables[k][r][i] \in C
          <6> HIDE DEF C, k, r, i
          <6> QED BY <4>1, <4>2
        <5>2. tables[k][r][i].text \in Seq(S)
          BY <5>1
        <5>3. Append(tables[k][r][i].text, n) \in Seq(S)
          BY <5>2, <1>5
        <5> HIDE DEF k, r, i
        <5> QED BY <5>1, <5>3
      <4> HIDE DEF C, k, r, i, cell
      <4>3. [tables[k][r] EXCEPT ![i] = cell] \in Seq(C)
        BY <4>1, <4>2, UpdateSeq
      <4> QED BY <4>3
    <3> HIDE DEF C, k, r, row
    <3>3. [tables[k] EXCEPT ![r] = row] \in Seq(Seq(C))
      BY <3>1, <3>2, UpdateSeq
    <3> QED BY <3>3
  <2> HIDE DEF C, k, rows
  <2>3. [tables EXCEPT ![k] = rows] \in Seq(Seq(Seq(C)))
    BY <2>2, <1>0, UpdateSeq
  <2> QED BY <2>1, <2>3, <1>0
<1>6. tables' \in Seq(Seq(Seq(C)))
  <2> HIDE DEF C
  <2>1. CASE rejected \/ t.kind = "empty"
    <3>1. UNCHANGED inspected
      <4>1. CASE rejected
        BY <4>1 DEF Inspect, Ignore
      <4>2. CASE ~rejected /\ t.kind = "empty"
        BY <4>2 DEF Inspect, Ignore
      <4> QED BY <2>1, <4>1, <4>2
    <3> QED BY <3>1, <1>0 DEF inspected
  <2>2. CASE ~rejected /\ t.kind = "start"
    <3>1. t.tag = "td" => t.colspan \in Int
      BY <2>2, TokensAssumption
         DEF Tokens, Cell, EmptyCellTag, TdTag, Start, Empty, End, Plain, Data, NotANumber, Tags
    <3>2. InspectStart(t)
      BY <2>2 DEF Inspect
    <3> QED BY <3>1, <3>2, <1>0, <1>2, <1>3, <1>4
            DEF InspectStart, Suppress, Ignore, inspected, structure
  <2>3. CASE ~rejected /\ t.kind = "end"
    BY <2>3, <1>0 DEF Inspect, InspectEnd, Release, EndTable, EndCell, EndRow,
                      Ignore, inspected, structure
  <2>4. CASE ~rejected /\ t.kind = "data"
    <3>1. InspectData(n)
      BY <2>4 DEF Inspect
    <3> QED BY <2>4, <3>1, <1>0, <1>5 DEF InspectData, Ignore, inspected
  <2>5. t.kind \in {"start", "end", "empty", "data"}
    BY DEF Tokens, Start, Cell, EmptyCellTag, TdTag, End, Empty, Data, Plain
  <2> QED BY <2>1, <2>2, <2>3, <2>4, <2>5
<1> QED BY <1>6 DEF TablesOver
-----------------------------------------------------------------------------
\* What one token does to the stack, unless the parser gives up.
LEMMA InspectStack ==
  ASSUME NEW t \in Tokens, NEW n, Inspect(t, n), ~rejected, TokensAssumption
  PROVE  \/ rejected'
         \/ /\ t.kind = "start" /\ t.tag \in Containers
            /\ suppression_stack' = Append(suppression_stack, t.tag)
         \/ /\ t.kind = "end" /\ suppression_stack # <<>>
            /\ t.tag = Last(suppression_stack)
            /\ suppression_stack' = Front(suppression_stack)
         \/ /\ t.kind \in {"start", "end"} => t.tag \notin Containers
            /\ UNCHANGED suppression_stack
         \/ /\ t.kind = "end"
            /\ UNCHANGED suppression_stack
         \/ /\ t.kind \notin {"start", "end"}
            /\ UNCHANGED suppression_stack
<1>1. CASE t.kind = "start"
  <2>1. InspectStart(t)
    BY <1>1 DEF Inspect
  <2>2. CASE t.tag \in Containers
    BY <1>1, <2>1, <2>2 DEF InspectStart, Suppress
  <2>3. CASE t.tag \notin Containers
    <3>1. UNCHANGED suppression_stack \/ rejected'
      BY <2>1, <2>3 DEF InspectStart, StartTable, StartRow, StartCell, Reject,
                        Ignore, inspected
    <3> QED BY <3>1, <2>3
  <2> QED BY <2>2, <2>3
<1>2. CASE t.kind = "end"
  <2>1. InspectEnd(t)
    BY <1>2 DEF Inspect
  <2>2. CASE Suppressing
    BY <1>2, <2>1, <2>2 DEF InspectEnd, Release, Ignore, inspected, Suppressing
  <2>3. CASE ~Suppressing
    BY <1>2, <2>1, <2>3 DEF InspectEnd, EndTable, EndCell, EndRow, Ignore, inspected
  <2> QED BY <2>2, <2>3
<1>3. CASE t.kind = "empty"
  BY <1>3 DEF Inspect, Ignore, inspected
<1>4. CASE t.kind = "data"
  <2>1. InspectData(n)
    BY <1>4 DEF Inspect
  <2>2. UNCHANGED suppression_stack \/ rejected'
    BY <2>1 DEF InspectData, AddText, Reject, Ignore, inspected
  <2> QED BY <2>2, <1>4
<1>5. t.kind \in {"start", "end", "empty", "data"}
  BY DEF Tokens, Start, Cell, EmptyCellTag, TdTag, End, Empty, Data, Plain
<1> QED BY <1>1, <1>2, <1>3, <1>4, <1>5

\* rejected is for good.
LEMMA InspectRejected ==
  ASSUME NEW t, NEW n, Inspect(t, n), rejected
  PROVE  rejected'
BY DEF Inspect, Ignore, inspected

LEMMA UnclosedTyped ==
  ASSUME NEW t, unclosed \in [Containers -> Nat]
  PROVE  Unclosed(t) \in [Containers -> Nat]
BY DEF Unclosed

\* The stack keeps up with the unclosed containers.
LEMMA TokenStack ==
  ASSUME NEW t \in Tokens, Token(t), ~rejected, StackInv, TokensAssumption
  PROVE  rejected' \/ StackInv'
<1> DEFINE s == suppression_stack
<1>0. /\ Inspect(t, texts + 1) /\ unclosed' = Unclosed(t)
      /\ s \in Seq(Containers) /\ unclosed \in [Containers -> Nat]
      /\ unclosed' \in [Containers -> Nat]
      /\ \A c \in Containers : unclosed[c] <= Copies(s, c)
  BY UnclosedTyped DEF Token, StackInv
<1>1. ASSUME t.kind = "start", t.tag \in Containers, s' = Append(s, t.tag)
      PROVE  StackInv'
  <2>1. s' \in Seq(Containers)
    BY <1>0, <1>1
  <2>2. ASSUME NEW c \in Containers PROVE unclosed'[c] <= Copies(s', c)
    <3>1. Copies(s', c) = IF c = t.tag THEN Copies(s, c) + 1 ELSE Copies(s, c)
      BY <1>0, <1>1, CopiesAppend
    <3>2. unclosed'[c] = IF c = t.tag THEN unclosed[c] + 1 ELSE unclosed[c]
      BY <1>0, <1>1 DEF Unclosed
    <3>3. unclosed[c] <= Copies(s, c) /\ unclosed[c] \in Nat /\ Copies(s, c) \in Nat
      BY <1>0, PositionsFinite
    <3> HIDE DEF s
    <3> QED BY <3>1, <3>2, <3>3
  <2> QED BY <1>0, <2>1, <2>2 DEF StackInv
<1>2. ASSUME t.kind = "end", s # <<>>, t.tag = Last(s), s' = Front(s)
      PROVE  StackInv'
  <2>1. Last(s) \in Containers /\ s' \in Seq(Containers)
    BY <1>0, <1>2, CopiesFront
  <2>2. ASSUME NEW c \in Containers PROVE unclosed'[c] <= Copies(s', c)
    <3>1. Copies(s, c) = IF c = t.tag THEN Copies(s', c) + 1 ELSE Copies(s', c)
      <4>1. Copies(s, c) = IF c = Last(s) THEN Copies(Front(s), c) + 1
                                          ELSE Copies(Front(s), c)
        BY <1>0, <1>2, CopiesFront
      <4>2. Copies(s', c) = Copies(Front(s), c)
        BY <1>2
      <4> HIDE DEF s
      <4> QED BY <4>1, <4>2, <1>2
    <3>2. unclosed'[c] = IF c = t.tag
                           THEN (IF unclosed[c] > 0 THEN unclosed[c] - 1 ELSE 0)
                           ELSE unclosed[c]
      BY <1>0, <1>2, <2>1 DEF Unclosed
    <3>3. /\ unclosed[c] <= Copies(s, c) /\ unclosed[c] \in Nat
          /\ Copies(s, c) \in Nat /\ Copies(s', c) \in Nat
      BY <1>0, <2>1, PositionsFinite
    <3> HIDE DEF s
    <3> QED BY <3>1, <3>2, <3>3
  <2> QED BY <1>0, <2>1, <2>2 DEF StackInv
<1>3. ASSUME UNCHANGED s, t.kind = "start" => t.tag \notin Containers
      PROVE  StackInv'
  <2>1. ASSUME NEW c \in Containers PROVE unclosed'[c] <= unclosed[c]
    BY <1>0, <1>3 DEF Unclosed
  <2>2. ASSUME NEW c \in Containers PROVE unclosed'[c] <= Copies(s', c)
    <3>1. s' = s
      BY <1>3
    <3>2. /\ unclosed'[c] <= unclosed[c] /\ unclosed[c] <= Copies(s, c)
          /\ unclosed[c] \in Nat /\ unclosed'[c] \in Nat /\ Copies(s, c) \in Nat
      BY <1>0, <2>1, PositionsFinite
    <3> HIDE DEF s
    <3> QED BY <3>1, <3>2
  <2> QED BY <1>0, <1>3, <2>2 DEF StackInv
<1> QED BY <1>0, <1>1, <1>2, <1>3, InspectStack

\* An empty stack means that no container is unclosed.
LEMMA EmptyStack ==
  ASSUME StackInv, ~Suppressing
  PROVE  \A c \in Containers : ~(unclosed[c] > 0)
<1>1. suppression_stack = <<>>
  BY DEF Suppressing
<1>2. ASSUME NEW c \in Containers PROVE ~(unclosed[c] > 0)
  <2>1. Positions(suppression_stack, c) = {}
    BY <1>1 DEF Positions
  <2>2. Copies(suppression_stack, c) = 0
    BY <2>1, FS_EmptySet DEF Copies
  <2>3. unclosed[c] <= 0 /\ unclosed[c] \in Nat
    BY <2>2 DEF StackInv
  <2> QED BY <2>3
<1> QED BY <1>2

-----------------------------------------------------------------------------
LEMMA InitInv ==
  ASSUME Init PROVE Inv
<1>1. /\ texts \in Nat /\ unclosed \in [Containers -> Nat] /\ tables = <<>>
      /\ inert = {}
      /\ suppression_stack = <<>> /\ \A c \in Containers : unclosed[c] = 0
  BY DEF Init, InspectionInit
<1>2. tables \in TablesOver(Shown)
  BY <1>1, EmptySeq DEF TablesOver
<1>3. ASSUME NEW c \in Containers PROVE unclosed[c] <= Copies(suppression_stack, c)
  <2>1. Positions(suppression_stack, c) = {}
    BY <1>1 DEF Positions
  <2>2. Copies(suppression_stack, c) = 0
    BY <2>1, FS_EmptySet DEF Copies
  <2> QED BY <1>1, <2>2
<1>4. suppression_stack \in Seq(Containers)
  BY <1>1, EmptySeq
<1> QED BY <1>1, <1>2, <1>3, <1>4 DEF Inv, StackInv

\* Every token, in documents of any kind.
LEMMA TokenInv ==
  ASSUME NEW t \in Tokens, Token(t), Inv, TokensAssumption
  PROVE  Inv'
<1>0. /\ texts \in Nat /\ unclosed \in [Containers -> Nat]
      /\ inert \subseteq 1..texts
      /\ tables \in TablesOver(Shown) /\ (rejected \/ StackInv)
      /\ Inspect(t, texts + 1)
      /\ texts' = IF HasText(t) THEN texts + 1 ELSE texts
      /\ inert' = IF t.kind = "data" /\ \E c \in Containers : unclosed[c] > 0
                    THEN inert \cup {texts + 1} ELSE inert
      /\ unclosed' = Unclosed(t)
  BY DEF Inv, Token
<1>1. texts' \in Nat /\ unclosed' \in [Containers -> Nat]
  BY <1>0, UnclosedTyped
<1>2. /\ \A x \in 1..texts : x # texts + 1 /\ x \in 1..texts'
      /\ texts + 1 \notin inert
      /\ t.kind = "data" => texts + 1 \in 1..texts'
  BY <1>0 DEF HasText
<1>3. inert' \subseteq 1..texts' /\ Shown \subseteq Shown'
  BY <1>0, <1>2 DEF Shown
<1>4. ASSUME t.kind = "data", ~rejected, ~Suppressing
      PROVE  texts + 1 \in Shown'
  <2>1. \A c \in Containers : ~(unclosed[c] > 0)
    BY <1>0, <1>4, EmptyStack
  <2>2. inert' = inert
    BY <1>0, <2>1
  <2> QED BY <1>2, <1>4, <2>2 DEF Shown
<1>5. rejected' \/ StackInv'
  BY <1>0, TokenStack, InspectRejected
<1>6. tables \in TablesOver(Shown')
  BY <1>0, <1>3, TablesMonotone
<1>7. tables' \in TablesOver(Shown')
  BY <1>0, <1>4, <1>6, InspectTables
<1> QED BY <1>1, <1>3, <1>5, <1>7 DEF Inv

LEMMA StutterInv ==
  ASSUME Inv, UNCHANGED vars PROVE Inv'
BY DEF Inv, StackInv, Shown, vars, inspected, document

LEMMA InvInert ==
  ASSUME Inv PROVE InertNotInspected
<1> SUFFICES ASSUME NEW k \in DOMAIN tables, NEW r \in DOMAIN tables[k],
                    NEW i \in DOMAIN tables[k][r]
             PROVE  Range(tables[k][r][i].text) \cap inert = {}
  BY DEF InertNotInspected
<1> DEFINE C == [colspan : Int, text : Seq(Shown)]
<1>1. tables \in Seq(Seq(Seq(C)))
  BY DEF Inv, TablesOver
<1>2. tables[k][r][i] \in C
  <2> HIDE DEF C
  <2>1. tables[k] \in Seq(Seq(C))
    BY <1>1
  <2>2. tables[k][r] \in Seq(C)
    BY <2>1
  <2> QED BY <2>2
<1>3. tables[k][r][i].text \in Seq(Shown)
  BY <1>2
<1>4. \A j \in DOMAIN tables[k][r][i].text : tables[k][r][i].text[j] \in Shown
  BY <1>3
<1> QED BY <1>4 DEF Range, Shown

\* No text of a suppressed container is inspected: the nesting stack of
\* _TableParser is exact, for any document and any limits.
THEOREM InertCorrect == Spec => []InertNotInspected
<1>1. Init => Inv
  BY InitInv
<1>2. Inv /\ [Next]_vars => Inv'
  <2>1. ASSUME NEW t \in Alphabet, Inv, Token(t) PROVE Inv'
    BY <2>1, TokenInv, TokensAssumption, ParsersAssumption
  <2> QED BY <2>1, StutterInv DEF Next
<1>3. Inv => InertNotInspected
  BY InvInert
<1> QED BY <1>1, <1>2, <1>3, PTL DEF Spec

-----------------------------------------------------------------------------
(* The order of the texts.                                                 *)

Less(A, B) == \A x \in A, y \in B : x < y
AllOf(ss) == UNION {Range(ss[i]) : i \in DOMAIN ss}

LEMMA ConcatIncreasing ==
  ASSUME NEW s \in Seq(Nat), NEW t \in Seq(Nat), Increasing(s), Increasing(t),
         Less(Range(s), Range(t))
  PROVE  /\ s \o t \in Seq(Nat) /\ Increasing(s \o t)
         /\ Range(s \o t) \subseteq Range(s) \cup Range(t)
<1> DEFINE u == s \o t
<1>1. /\ u \in Seq(Nat) /\ Len(u) = Len(s) + Len(t) /\ Len(s) \in Nat /\ Len(t) \in Nat
      /\ \A k \in 1..(Len(s) + Len(t)) :
           u[k] = IF k <= Len(s) THEN s[k] ELSE t[k - Len(s)]
  BY ConcatProperties
<1> HIDE DEF u
<1>2. DOMAIN u = 1..(Len(s) + Len(t)) /\ DOMAIN s = 1..Len(s) /\ DOMAIN t = 1..Len(t)
  BY <1>1
<1>3. \A k \in DOMAIN u : \/ k \in DOMAIN s /\ u[k] = s[k]
                          \/ k > Len(s) /\ k - Len(s) \in DOMAIN t /\ u[k] = t[k - Len(s)]
  BY <1>1, <1>2
<1>4. Range(u) \subseteq Range(s) \cup Range(t)
  BY <1>3 DEF Range
<1>5. Increasing(u)
  <2> SUFFICES ASSUME NEW j \in DOMAIN u, NEW k \in DOMAIN u, j < k PROVE u[j] < u[k]
    BY DEF Increasing
  <2>1. CASE k \in DOMAIN s
    <3>1. j \in DOMAIN s /\ u[j] = s[j] /\ u[k] = s[k]
      BY <1>1, <1>2, <1>3, <2>1
    <3> QED
      BY <2>1, <3>1 DEF Increasing
  <2>2. CASE k \notin DOMAIN s /\ j \in DOMAIN s
    <3>1. u[j] = s[j] /\ k - Len(s) \in DOMAIN t /\ u[k] = t[k - Len(s)]
      BY <1>1, <1>2, <1>3, <2>2
    <3> QED
      BY <2>2, <3>1 DEF Less, Range
  <2>3. CASE k \notin DOMAIN s /\ j \notin DOMAIN s
    <3>1. /\ j - Len(s) \in DOMAIN t /\ u[j] = t[j - Len(s)]
          /\ k - Len(s) \in DOMAIN t /\ u[k] = t[k - Len(s)]
          /\ j - Len(s) < k - Len(s)
      BY <1>1, <1>2, <1>3, <2>3
    <3> QED
      BY <3>1 DEF Increasing
  <2> QED
    BY <2>1, <2>2, <2>3
<1> QED
  BY <1>1, <1>4, <1>5 DEF u

\* Sequences that increase, each above those before it, are one that does.
LEMMA FlattenIncreasing ==
  ASSUME NEW ss \in Seq(Seq(Nat)),
         \A a \in DOMAIN ss : Increasing(ss[a]),
         \A a, b \in DOMAIN ss : a < b => Less(Range(ss[a]), Range(ss[b]))
  PROVE  /\ FlattenSeq(ss) \in Seq(Nat) /\ Increasing(FlattenSeq(ss))
         /\ Range(FlattenSeq(ss)) \subseteq AllOf(ss)
<1> DEFINE n == Len(ss)
<1>1. n \in Nat /\ DOMAIN ss = 1..n /\ \A a \in 1..n : ss[a] \in Seq(Nat)
  OBVIOUS
<1>2. PICK f \in [0..n -> Seq(Nat)] :
        /\ f[0] = <<>> /\ FlattenSeq(ss) = f[n]
        /\ \A i \in 1..n : f[i] = f[i - 1] \o ss[i]
  BY FlattenSteps
<1> HIDE DEF n
<1> DEFINE Upto(i) == UNION {Range(ss[a]) : a \in 1..i}
           P == {i \in Nat : i <= n => Increasing(f[i]) /\ Range(f[i]) \subseteq Upto(i)}
<1>3. 0 \in P
  BY <1>2 DEF Increasing, Range
<1>4. ASSUME NEW i \in Nat, i \in P PROVE i + 1 \in P
  <2> SUFFICES ASSUME i + 1 <= n
               PROVE  Increasing(f[i + 1]) /\ Range(f[i + 1]) \subseteq Upto(i + 1)
    OBVIOUS
  <2>1. /\ i \in 0..n /\ i + 1 \in 1..n /\ (i + 1) - 1 = i
        /\ Increasing(f[i]) /\ Range(f[i]) \subseteq Upto(i)
    BY <1>1, <1>4
  <2> DEFINE s == f[i]
             t == ss[i + 1]
             u == f[i + 1]
  <2>2. u = s \o t /\ s \in Seq(Nat) /\ t \in Seq(Nat) /\ Increasing(s) /\ Increasing(t)
    BY <1>1, <1>2, <2>1
  <2>3. Less(Range(s), Range(t))
    <3> SUFFICES ASSUME NEW x \in Range(s), NEW y \in Range(t) PROVE x < y
      BY DEF Less
    <3>1. PICK a \in 1..i : x \in Range(ss[a])
      BY <2>1
    <3>2. a \in 1..n /\ a < i + 1
      BY <1>1, <2>1
    <3>3. Less(Range(ss[a]), Range(ss[i + 1]))
      BY <1>1, <2>1, <3>2
    <3> QED
      BY <3>1, <3>3 DEF Less
  <2> HIDE DEF s, t, u
  <2>4. Increasing(u) /\ Range(u) \subseteq Range(s) \cup Range(t)
    BY <2>2, <2>3, ConcatIncreasing
  <2>5. Range(s) \cup Range(t) \subseteq Upto(i + 1)
    <3>1. \A a \in 1..i : a \in 1..(i + 1)
      OBVIOUS
    <3>2. i + 1 \in 1..(i + 1)
      OBVIOUS
    <3>3. Upto(i) \subseteq Upto(i + 1)
      BY <3>1
    <3>4. Range(t) \subseteq Upto(i + 1)
      BY <3>2 DEF t
    <3> QED
      BY <2>1, <3>3, <3>4 DEF s
  <2> QED
    BY <2>4, <2>5 DEF u
<1> HIDE DEF P
<1>5. n \in P
  BY <1>1, <1>3, <1>4, Induction
<1>6. Increasing(f[n]) /\ Range(f[n]) \subseteq Upto(n)
  BY <1>1, <1>5 DEF P
<1>7. Upto(n) = AllOf(ss)
  BY <1>1 DEF AllOf
<1>8. f[n] \in Seq(Nat)
  BY <1>1, <1>2
<1> QED
  BY <1>2, <1>6, <1>7, <1>8


\* F[1], F[2], ... are sets of numbers, each above those before it.
Chain(F) == \A a, b \in DOMAIN F : a < b => Less(F[a], F[b])
Total(F) == UNION {F[a] : a \in DOMAIN F}

\* Numbers above all others are added to a set with only empty ones after it.
LEMMA ChainReplaced ==
  ASSUME NEW F, Chain(F), NEW G, DOMAIN G = DOMAIN F, NEW r \in DOMAIN F,
         DOMAIN F \subseteq Int, NEW N,
         \A q \in DOMAIN F : q # r => G[q] = F[q], G[r] \subseteq F[r] \cup N,
         Less(Total(F), N), N = {} \/ \A q \in DOMAIN F : q > r => F[q] = {}
  PROVE  Chain(G) /\ Total(G) \subseteq Total(F) \cup N
<1>1. ASSUME NEW a \in DOMAIN F, NEW b \in DOMAIN F, a < b PROVE Less(G[a], G[b])
  <2>1. Less(F[a], F[b])
    BY <1>1 DEF Chain
  <2>2. CASE a = r
    <3>1. G[b] = F[b] /\ (N = {} \/ G[b] = {})
      BY <1>1, <2>2
    <3> QED
      BY <2>1, <2>2, <3>1 DEF Less
  <2>3. CASE b = r
    <3>1. G[a] = F[a] /\ Less(F[a], N)
      BY <1>1, <2>3 DEF Less, Total
    <3> QED
      BY <2>1, <2>3, <3>1 DEF Less
  <2>4. CASE a # r /\ b # r
    BY <2>1, <2>4
  <2> QED
    BY <2>2, <2>3, <2>4
<1>2. \A q \in DOMAIN F : G[q] \subseteq F[q] \cup N
  OBVIOUS
<1> QED
  BY <1>1, <1>2 DEF Chain, Total

\* A set above all others is appended.
LEMMA ChainAdded ==
  ASSUME NEW n \in Nat, NEW F, Chain(F), DOMAIN F = 1..n,
         NEW G, DOMAIN G = 1..(n + 1), \A q \in 1..n : G[q] = F[q],
         Less(Total(F), G[n + 1])
  PROVE  Chain(G) /\ Total(G) \subseteq Total(F) \cup G[n + 1]
<1>1. \A q \in 1..(n + 1) : q = n + 1 \/ q \in 1..n
  OBVIOUS
<1>2. ASSUME NEW a \in 1..(n + 1), NEW b \in 1..(n + 1), a < b PROVE Less(G[a], G[b])
  <2>1. a \in 1..n
    BY <1>2
  <2>2. CASE b \in 1..n
    BY <1>2, <2>1, <2>2 DEF Chain
  <2>3. CASE b = n + 1
    BY <2>1, <2>3 DEF Less, Total
  <2> QED
    BY <1>1, <2>2, <2>3
<1> QED
  BY <1>1, <1>2 DEF Chain, Total

-----------------------------------------------------------------------------
(* The texts that inspection shows.                                        *)

CellSets(row) == [i \in DOMAIN row |-> Range(row[i].text)]
RowSets(rows) == [r \in DOMAIN rows |-> Total(CellSets(rows[r]))]
TableSets(ts) == [k \in DOMAIN ts |-> Total(RowSets(ts[k]))]

CellsOrdered(row) == (\A i \in DOMAIN row : Increasing(row[i].text)) /\ Chain(CellSets(row))
RowsOrdered(rows) == (\A r \in DOMAIN rows : CellsOrdered(rows[r])) /\ Chain(RowSets(rows))
TablesOrdered(ts) == (\A k \in DOMAIN ts : RowsOrdered(ts[k])) /\ Chain(TableSets(ts))

LEMMA SequenceOf ==
  ASSUME NEW X, NEW n \in Nat, NEW f \in [1..n -> X]
  PROVE  f \in Seq(X) /\ Len(f) = n /\ DOMAIN f = 1..n
OBVIOUS

\* In order part by part, the texts are in order one after another.
LEMMA OrderedParts ==
  ASSUME NEW n \in Nat, NEW ss \in [1..n -> Seq(Nat)], NEW F, DOMAIN F = 1..n, Chain(F),
         \A a \in 1..n : Increasing(ss[a]) /\ Range(ss[a]) \subseteq F[a]
  PROVE  /\ FlattenSeq(ss) \in Seq(Nat) /\ Increasing(FlattenSeq(ss))
         /\ Range(FlattenSeq(ss)) \subseteq Total(F)
<1>1. ss \in Seq(Seq(Nat)) /\ DOMAIN ss = 1..n
  BY SequenceOf
<1>2. \A a, b \in DOMAIN ss : a < b => Less(Range(ss[a]), Range(ss[b]))
  BY <1>1 DEF Chain, Less
<1>3. /\ FlattenSeq(ss) \in Seq(Nat) /\ Increasing(FlattenSeq(ss))
      /\ Range(FlattenSeq(ss)) \subseteq AllOf(ss)
  BY <1>1, <1>2, FlattenIncreasing
<1>4. AllOf(ss) \subseteq Total(F)
  BY <1>1 DEF AllOf, Total
<1> QED
  BY <1>3, <1>4

Cells == [colspan : Int, text : Seq(Nat)]
CellSeqs(row) == [i \in DOMAIN row |-> row[i].text]
RowSeqs(rows) == [r \in DOMAIN rows |-> FlattenSeq(CellSeqs(rows[r]))]

LEMMA OrderedRow ==
  ASSUME NEW row \in Seq(Cells), CellsOrdered(row)
  PROVE  /\ FlattenSeq(CellSeqs(row)) \in Seq(Nat) /\ Increasing(FlattenSeq(CellSeqs(row)))
         /\ Range(FlattenSeq(CellSeqs(row))) \subseteq Total(CellSets(row))
<1> DEFINE n == Len(row)
           ss == CellSeqs(row)
           F == CellSets(row)
<1>1. n \in Nat /\ DOMAIN row = 1..n /\ \A i \in 1..n : row[i] \in Cells
  OBVIOUS
<1>2. \A i \in 1..n : row[i].text \in Seq(Nat)
  BY <1>1 DEF Cells
<1> HIDE DEF n
<1>3. ss \in [1..n -> Seq(Nat)] /\ \A i \in 1..n : ss[i] = row[i].text
  BY <1>1, <1>2 DEF CellSeqs
<1>4. DOMAIN F = 1..n /\ Chain(F) /\ \A i \in 1..n : F[i] = Range(row[i].text)
  BY <1>1 DEF CellSets, CellsOrdered
<1>5. \A i \in 1..n : Increasing(ss[i]) /\ Range(ss[i]) \subseteq F[i]
  BY <1>1, <1>3, <1>4 DEF CellsOrdered
<1> HIDE DEF ss, F
<1>6. /\ FlattenSeq(ss) \in Seq(Nat) /\ Increasing(FlattenSeq(ss))
      /\ Range(FlattenSeq(ss)) \subseteq Total(F)
  BY <1>1, <1>3, <1>4, <1>5, OrderedParts
<1> QED
  BY <1>6 DEF ss, F

LEMMA OrderedRows ==
  ASSUME NEW rows \in Seq(Seq(Cells)), RowsOrdered(rows)
  PROVE  /\ FlattenSeq(RowSeqs(rows)) \in Seq(Nat) /\ Increasing(FlattenSeq(RowSeqs(rows)))
         /\ Range(FlattenSeq(RowSeqs(rows))) \subseteq Total(RowSets(rows))
<1> DEFINE n == Len(rows)
           ss == RowSeqs(rows)
           F == RowSets(rows)
<1>1. n \in Nat /\ DOMAIN rows = 1..n /\ \A r \in 1..n : rows[r] \in Seq(Cells)
  OBVIOUS
<1> HIDE DEF n
<1>2. \A r \in 1..n : CellsOrdered(rows[r])
  BY <1>1 DEF RowsOrdered
<1>3. \A r \in 1..n : ss[r] = FlattenSeq(CellSeqs(rows[r]))
  BY <1>1 DEF RowSeqs
<1>4. DOMAIN F = 1..n /\ Chain(F) /\ \A r \in 1..n : F[r] = Total(CellSets(rows[r]))
  BY <1>1 DEF RowSets, RowsOrdered
<1>5. \A r \in 1..n : ss[r] \in Seq(Nat) /\ Increasing(ss[r]) /\ Range(ss[r]) \subseteq F[r]
  BY <1>1, <1>2, <1>3, <1>4, OrderedRow
<1>6. ss \in [1..n -> Seq(Nat)]
  BY <1>1, <1>5 DEF RowSeqs
<1> HIDE DEF ss, F
<1>7. /\ FlattenSeq(ss) \in Seq(Nat) /\ Increasing(FlattenSeq(ss))
      /\ Range(FlattenSeq(ss)) \subseteq Total(F)
  BY <1>1, <1>4, <1>5, <1>6, OrderedParts
<1> QED
  BY <1>7 DEF ss, F

LEMMA OrderedTexts ==
  ASSUME NEW ts \in Seq(Seq(Seq(Cells))), TablesOrdered(ts)
  PROVE  Increasing(FlattenSeq([k \in DOMAIN ts |-> CellTexts(ts[k])]))
<1> DEFINE n == Len(ts)
           ss == [k \in DOMAIN ts |-> FlattenSeq(RowSeqs(ts[k]))]
           F == TableSets(ts)
<1>1. n \in Nat /\ DOMAIN ts = 1..n /\ \A k \in 1..n : ts[k] \in Seq(Seq(Cells))
  OBVIOUS
<1> HIDE DEF n
<1>2. \A k \in 1..n : RowsOrdered(ts[k])
  BY <1>1 DEF TablesOrdered
<1>3. \A k \in 1..n : ss[k] = FlattenSeq(RowSeqs(ts[k]))
  BY <1>1
<1>4. DOMAIN F = 1..n /\ Chain(F) /\ \A k \in 1..n : F[k] = Total(RowSets(ts[k]))
  BY <1>1 DEF TableSets, TablesOrdered
<1>5. \A k \in 1..n : ss[k] \in Seq(Nat) /\ Increasing(ss[k]) /\ Range(ss[k]) \subseteq F[k]
  BY <1>1, <1>2, <1>3, <1>4, OrderedRows
<1>6. ss \in [1..n -> Seq(Nat)]
  BY <1>1, <1>5
<1>7. ss = [k \in DOMAIN ts |-> CellTexts(ts[k])]
  BY DEF CellTexts, RowSeqs, CellSeqs
<1> HIDE DEF ss, F
<1>8. Increasing(FlattenSeq(ss))
  BY <1>1, <1>4, <1>5, <1>6, OrderedParts
<1> QED
  BY <1>7, <1>8

-----------------------------------------------------------------------------
\* A table, a row or a cell is replaced: its texts are the old ones and some
\* above all others.
LEMMA TableReplaced ==
  ASSUME NEW ts \in Seq(Seq(Seq(Cells))), TablesOrdered(ts), ts # <<>>,
         NEW rows, RowsOrdered(rows), NEW N, Less(Total(TableSets(ts)), N),
         Total(RowSets(rows)) \subseteq Total(RowSets(ts[Len(ts)])) \cup N
  PROVE  LET us == [ts EXCEPT ![Len(ts)] = rows] IN
         TablesOrdered(us) /\ Total(TableSets(us)) \subseteq Total(TableSets(ts)) \cup N
<1> DEFINE r == Len(ts)
           us == [ts EXCEPT ![r] = rows]
           F == TableSets(ts)
           G == TableSets(us)
<1>1. r \in Nat /\ DOMAIN ts = 1..r /\ r \in DOMAIN ts /\ DOMAIN us = 1..r
  OBVIOUS
<1> HIDE DEF r
<1>2. us[r] = rows /\ \A k \in DOMAIN ts : k # r => us[k] = ts[k]
  BY <1>1
<1> HIDE DEF us
<1>3. /\ Chain(F) /\ DOMAIN F = 1..r /\ DOMAIN G = DOMAIN F /\ r \in DOMAIN F
      /\ DOMAIN F \subseteq Int /\ \A q \in DOMAIN F : ~(q > r)
  BY <1>1 DEF TablesOrdered, TableSets
<1>4. \A q \in DOMAIN F : q # r => G[q] = F[q]
  BY <1>1, <1>2 DEF TableSets
<1>5. G[r] \subseteq F[r] \cup N
  BY <1>1, <1>2 DEF TableSets, r
<1>6. \A k \in DOMAIN us : RowsOrdered(us[k])
  BY <1>1, <1>2 DEF TablesOrdered
<1>7. Less(Total(F), N)
  OBVIOUS
<1> HIDE DEF F, G
<1>8. Chain(G) /\ Total(G) \subseteq Total(F) \cup N
  BY <1>3, <1>4, <1>5, <1>7, ChainReplaced
<1> QED
  BY <1>6, <1>8 DEF TablesOrdered, F, G, us, r

LEMMA RowReplaced ==
  ASSUME NEW rows \in Seq(Seq(Cells)), RowsOrdered(rows), NEW r \in DOMAIN rows,
         NEW row, CellsOrdered(row), NEW N, Less(Total(RowSets(rows)), N),
         Total(CellSets(row)) \subseteq Total(CellSets(rows[r])) \cup N,
         \A q \in DOMAIN rows : q > r => rows[q] = <<>>
  PROVE  LET us == [rows EXCEPT ![r] = row] IN
         RowsOrdered(us) /\ Total(RowSets(us)) \subseteq Total(RowSets(rows)) \cup N
<1> DEFINE us == [rows EXCEPT ![r] = row]
           F == RowSets(rows)
           G == RowSets(us)
<1>1. DOMAIN rows \subseteq Int /\ DOMAIN us = DOMAIN rows
  OBVIOUS
<1>2. us[r] = row /\ \A k \in DOMAIN rows : k # r => us[k] = rows[k]
  BY <1>1
<1> HIDE DEF us
<1>3. /\ Chain(F) /\ DOMAIN F = DOMAIN rows /\ DOMAIN G = DOMAIN F /\ r \in DOMAIN F
      /\ DOMAIN F \subseteq Int
  BY <1>1 DEF RowsOrdered, RowSets
<1>4. \A q \in DOMAIN F : q # r => G[q] = F[q]
  BY <1>1, <1>2 DEF RowSets
<1>5. G[r] \subseteq F[r] \cup N
  BY <1>1, <1>2 DEF RowSets
<1>6. \A k \in DOMAIN us : CellsOrdered(us[k])
  BY <1>1, <1>2 DEF RowsOrdered
<1>7. Total(CellSets(<<>>)) = {}
  BY DEF Total, CellSets
<1>8. \A q \in DOMAIN F : q > r => F[q] = {}
  BY <1>7 DEF RowSets
<1>9. Less(Total(F), N)
  OBVIOUS
<1> HIDE DEF F, G
<1>10. Chain(G) /\ Total(G) \subseteq Total(F) \cup N
  BY <1>3, <1>4, <1>5, <1>8, <1>9, ChainReplaced
<1> QED
  BY <1>6, <1>10 DEF RowsOrdered, F, G, us

LEMMA CellReplaced ==
  ASSUME NEW row \in Seq(Cells), CellsOrdered(row), row # <<>>,
         NEW cell, Increasing(cell.text), NEW N, Less(Total(CellSets(row)), N),
         Range(cell.text) \subseteq Range(row[Len(row)].text) \cup N
  PROVE  LET us == [row EXCEPT ![Len(row)] = cell] IN
         CellsOrdered(us) /\ Total(CellSets(us)) \subseteq Total(CellSets(row)) \cup N
<1> DEFINE r == Len(row)
           us == [row EXCEPT ![r] = cell]
           F == CellSets(row)
           G == CellSets(us)
<1>1. r \in Nat /\ DOMAIN row = 1..r /\ r \in DOMAIN row /\ DOMAIN us = 1..r
  OBVIOUS
<1> HIDE DEF r
<1>2. us[r] = cell /\ \A k \in DOMAIN row : k # r => us[k] = row[k]
  BY <1>1
<1> HIDE DEF us
<1>3. /\ Chain(F) /\ DOMAIN F = 1..r /\ DOMAIN G = DOMAIN F /\ r \in DOMAIN F
      /\ DOMAIN F \subseteq Int /\ \A q \in DOMAIN F : ~(q > r)
  BY <1>1 DEF CellsOrdered, CellSets
<1>4. \A q \in DOMAIN F : q # r => G[q] = F[q]
  BY <1>1, <1>2 DEF CellSets
<1>5. G[r] \subseteq F[r] \cup N
  BY <1>1, <1>2 DEF CellSets, r
<1>6. \A k \in DOMAIN us : Increasing(us[k].text)
  BY <1>1, <1>2 DEF CellsOrdered
<1>7. Less(Total(F), N)
  OBVIOUS
<1> HIDE DEF F, G
<1>8. Chain(G) /\ Total(G) \subseteq Total(F) \cup N
  BY <1>3, <1>4, <1>5, <1>7, ChainReplaced
<1> QED
  BY <1>6, <1>8 DEF CellsOrdered, F, G, us, r

\* A table, a row or a cell is added, with no text yet.
LEMMA TableAdded ==
  ASSUME NEW ts \in Seq(Seq(Seq(Cells))), TablesOrdered(ts)
  PROVE  LET us == Append(ts, <<>>) IN
         TablesOrdered(us) /\ Total(TableSets(us)) \subseteq Total(TableSets(ts))
<1> DEFINE n == Len(ts)
           us == Append(ts, <<>>)
           F == TableSets(ts)
           G == TableSets(us)
<1>1. /\ n \in Nat /\ DOMAIN ts = 1..n /\ DOMAIN us = 1..(n + 1)
      /\ us[n + 1] = <<>> /\ \A k \in 1..n : us[k] = ts[k]
  OBVIOUS
<1> HIDE DEF n, us
<1>2. \A k \in 1..(n + 1) : k \in 1..n \/ k = n + 1
  BY <1>1
<1>3. RowsOrdered(<<>>) /\ Total(RowSets(<<>>)) = {}
  BY DEF RowsOrdered, RowSets, Chain, Total
<1>4. /\ Chain(F) /\ DOMAIN F = 1..n /\ DOMAIN G = 1..(n + 1)
      /\ \A q \in 1..n : G[q] = F[q]
  BY <1>1 DEF TablesOrdered, TableSets
<1>5. n + 1 \in DOMAIN us
  BY <1>1
<1>6. G[n + 1] = {}
  BY <1>1, <1>3, <1>5 DEF TableSets
<1>7. \A k \in DOMAIN us : RowsOrdered(us[k])
  BY <1>1, <1>2, <1>3 DEF TablesOrdered
<1>8. Less(Total(F), G[n + 1])
  BY <1>6 DEF Less
<1> HIDE DEF F, G
<1>9. Chain(G) /\ Total(G) \subseteq Total(F) \cup G[n + 1]
  BY <1>1, <1>4, <1>8, ChainAdded
<1> QED
  BY <1>6, <1>7, <1>9 DEF TablesOrdered, F, G, us

LEMMA RowAdded ==
  ASSUME NEW rows \in Seq(Seq(Cells)), RowsOrdered(rows)
  PROVE  LET us == Append(rows, <<>>) IN
         RowsOrdered(us) /\ Total(RowSets(us)) \subseteq Total(RowSets(rows))
<1> DEFINE n == Len(rows)
           us == Append(rows, <<>>)
           F == RowSets(rows)
           G == RowSets(us)
<1>1. /\ n \in Nat /\ DOMAIN rows = 1..n /\ DOMAIN us = 1..(n + 1)
      /\ us[n + 1] = <<>> /\ \A k \in 1..n : us[k] = rows[k]
  OBVIOUS
<1> HIDE DEF n, us
<1>2. \A k \in 1..(n + 1) : k \in 1..n \/ k = n + 1
  BY <1>1
<1>3. CellsOrdered(<<>>) /\ Total(CellSets(<<>>)) = {}
  BY DEF CellsOrdered, CellSets, Chain, Total
<1>4. /\ Chain(F) /\ DOMAIN F = 1..n /\ DOMAIN G = 1..(n + 1)
      /\ \A q \in 1..n : G[q] = F[q]
  BY <1>1 DEF RowsOrdered, RowSets
<1>5. n + 1 \in DOMAIN us
  BY <1>1
<1>6. G[n + 1] = {}
  BY <1>1, <1>3, <1>5 DEF RowSets
<1>7. \A k \in DOMAIN us : CellsOrdered(us[k])
  BY <1>1, <1>2, <1>3 DEF RowsOrdered
<1>8. Less(Total(F), G[n + 1])
  BY <1>6 DEF Less
<1> HIDE DEF F, G
<1>9. Chain(G) /\ Total(G) \subseteq Total(F) \cup G[n + 1]
  BY <1>1, <1>4, <1>8, ChainAdded
<1> QED
  BY <1>6, <1>7, <1>9 DEF RowsOrdered, F, G, us

LEMMA CellAdded ==
  ASSUME NEW row \in Seq(Cells), CellsOrdered(row), NEW cell, cell.text = <<>>
  PROVE  LET us == Append(row, cell) IN
         CellsOrdered(us) /\ Total(CellSets(us)) \subseteq Total(CellSets(row))
<1> DEFINE n == Len(row)
           us == Append(row, cell)
           F == CellSets(row)
           G == CellSets(us)
<1>1. /\ n \in Nat /\ DOMAIN row = 1..n /\ DOMAIN us = 1..(n + 1)
      /\ us[n + 1] = cell /\ \A k \in 1..n : us[k] = row[k]
  OBVIOUS
<1> HIDE DEF n, us
<1>2. \A k \in 1..(n + 1) : k \in 1..n \/ k = n + 1
  BY <1>1
<1>3. Increasing(<<>>) /\ Range(<<>>) = {}
  BY DEF Increasing, Range
<1>4. /\ Chain(F) /\ DOMAIN F = 1..n /\ DOMAIN G = 1..(n + 1)
      /\ \A q \in 1..n : G[q] = F[q]
  BY <1>1 DEF CellsOrdered, CellSets
<1>5. n + 1 \in DOMAIN us
  BY <1>1
<1>6. G[n + 1] = {}
  BY <1>1, <1>3, <1>5 DEF CellSets
<1>7. \A k \in DOMAIN us : Increasing(us[k].text)
  BY <1>1, <1>2, <1>3 DEF CellsOrdered
<1>8. Less(Total(F), G[n + 1])
  BY <1>6 DEF Less
<1> HIDE DEF F, G
<1>9. Chain(G) /\ Total(G) \subseteq Total(F) \cup G[n + 1]
  BY <1>1, <1>4, <1>8, ChainAdded
<1> QED
  BY <1>6, <1>7, <1>9 DEF CellsOrdered, F, G, us

-----------------------------------------------------------------------------
\* Tables whose texts are in order, all among the first n.
OrderedUpTo(ts, n) ==
  /\ ts \in Seq(Seq(Seq(Cells))) /\ TablesOrdered(ts)
  /\ Total(TableSets(ts)) \subseteq 1..n

\* The open row is the last of the last table; the open cell is the last of
\* its row, and rows after it have no cells.
PlacedIn(ts, row, cell, depth) ==
  LET rows == ts[Len(ts)] IN
  /\ depth = 0 => cell = <<>> /\ ~row
  /\ depth # 0 => ts # <<>>
  /\ row => rows # <<>>
  /\ cell # <<>> =>
       \E r \in DOMAIN rows :
         /\ cell = <<r, Len(rows[r])>> /\ rows[r] # <<>>
         /\ \A q \in DOMAIN rows : q > r => rows[q] = <<>>

LEMMA UpToMonotone ==
  ASSUME NEW n \in Nat, NEW m \in Nat, n <= m, NEW ts, OrderedUpTo(ts, n)
  PROVE  OrderedUpTo(ts, m)
BY DEF OrderedUpTo

LEMMA OrderedStartTable ==
  ASSUME NEW n \in Nat, NEW ts, OrderedUpTo(ts, n)
  PROVE  /\ OrderedUpTo(Append(ts, <<>>), n) /\ PlacedIn(Append(ts, <<>>), FALSE, <<>>, 1)
<1>1. ts \in Seq(Seq(Seq(Cells))) /\ TablesOrdered(ts) /\ <<>> \in Seq(Seq(Cells))
  BY DEF OrderedUpTo
<1> DEFINE us == Append(ts, <<>>)
<1>2. us \in Seq(Seq(Seq(Cells))) /\ us # <<>>
  <2>1. us \in Seq(Seq(Seq(Cells))) /\ Len(us) = Len(ts) + 1 /\ Len(ts) \in Nat
    BY <1>1, AppendProperties
  <2> HIDE DEF us
  <2>2. Len(us) # 0
    BY <2>1
  <2> QED BY <2>1, <2>2
<1>3. TablesOrdered(us) /\ Total(TableSets(us)) \subseteq Total(TableSets(ts))
  BY <1>1, TableAdded
<1> HIDE DEF us
<1>4. PlacedIn(us, FALSE, <<>>, 1)
  BY <1>2 DEF PlacedIn
<1> QED
  BY <1>2, <1>3, <1>4 DEF OrderedUpTo, us

LEMMA OrderedStartRow ==
  ASSUME NEW n \in Nat, NEW ts, OrderedUpTo(ts, n), ts # <<>>,
         NEW row, NEW cell, PlacedIn(ts, row, cell, 1)
  PROVE  LET us == AppendToLast(ts, <<>>) IN
         OrderedUpTo(us, n) /\ PlacedIn(us, TRUE, cell, 1)
<1> DEFINE k == Len(ts)
           rows == Append(ts[k], <<>>)
           us == [ts EXCEPT ![k] = rows]
<1>1. ts \in Seq(Seq(Seq(Cells))) /\ TablesOrdered(ts) /\ k \in DOMAIN ts
  BY DEF OrderedUpTo
<1>2. ts[k] \in Seq(Seq(Cells)) /\ RowsOrdered(ts[k])
  BY <1>1 DEF TablesOrdered
<1>3. /\ rows \in Seq(Seq(Cells)) /\ rows # <<>>
      /\ DOMAIN rows = DOMAIN ts[k] \cup {Len(ts[k]) + 1}
      /\ rows[Len(ts[k]) + 1] = <<>>
      /\ \A r \in DOMAIN ts[k] : rows[r] = ts[k][r] /\ r < Len(ts[k]) + 1
  <2> DEFINE old == ts[k]
  <2>1. old \in Seq(Seq(Cells)) /\ <<>> \in Seq(Cells)
    BY <1>2
  <2> HIDE DEF old
  <2>2. /\ Append(old, <<>>) \in Seq(Seq(Cells)) /\ Len(Append(old, <<>>)) = Len(old) + 1
        /\ Len(old) \in Nat /\ DOMAIN old = 1..Len(old)
        /\ DOMAIN Append(old, <<>>) = 1..(Len(old) + 1)
        /\ Append(old, <<>>)[Len(old) + 1] = <<>>
        /\ \A r \in 1..Len(old) : Append(old, <<>>)[r] = old[r]
    BY <2>1, AppendProperties
  <2>3. rows = Append(old, <<>>)
    BY DEF old
  <2> HIDE DEF rows
  <2>4. Len(rows) # 0
    BY <2>2, <2>3
  <2>5. DOMAIN rows = DOMAIN old \cup {Len(old) + 1}
    BY <2>2, <2>3
  <2> QED BY <2>2, <2>3, <2>4, <2>5 DEF old
<1>4. RowsOrdered(rows) /\ Total(RowSets(rows)) \subseteq Total(RowSets(ts[k])) \cup {}
  BY <1>2, RowAdded
<1> HIDE DEF rows
<1>5. Less(Total(TableSets(ts)), {})
  BY DEF Less
<1>6. TablesOrdered(us) /\ Total(TableSets(us)) \subseteq Total(TableSets(ts)) \cup {}
  BY <1>1, <1>4, <1>5, TableReplaced
<1>7. us \in Seq(Seq(Seq(Cells))) /\ Len(us) = k /\ us[k] = rows /\ us # <<>>
  BY <1>1, <1>3
<1>8. us = AppendToLast(ts, <<>>)
  BY DEF AppendToLast, rows
<1> HIDE DEF us, k
<1>9. OrderedUpTo(us, n)
  BY <1>6, <1>7 DEF OrderedUpTo
<1>10. ASSUME cell # <<>>
       PROVE  \E r \in DOMAIN rows :
                /\ cell = <<r, Len(rows[r])>> /\ rows[r] # <<>>
                /\ \A q \in DOMAIN rows : q > r => rows[q] = <<>>
  <2>1. PICK r \in DOMAIN ts[k] :
          /\ cell = <<r, Len(ts[k][r])>> /\ ts[k][r] # <<>>
          /\ \A q \in DOMAIN ts[k] : q > r => ts[k][q] = <<>>
    BY <1>10 DEF PlacedIn, k
  <2> QED
    BY <2>1, <1>3
<1>11. PlacedIn(us, TRUE, cell, 1)
  BY <1>3, <1>7, <1>10 DEF PlacedIn
<1> QED
  BY <1>8, <1>9, <1>11

LEMMA OrderedStartCell ==
  ASSUME NEW n \in Nat, NEW ts, OrderedUpTo(ts, n), ts # <<>>, NEW colspan \in Int,
         NEW cell, PlacedIn(ts, TRUE, cell, 1)
  PROVE  LET rows == ts[Len(ts)]
             us == [ts EXCEPT ![Len(ts)] =
                      AppendToLast(@, [colspan |-> colspan, text |-> <<>>])]
         IN /\ OrderedUpTo(us, n)
            /\ PlacedIn(us, TRUE, <<Len(rows), Len(rows[Len(rows)]) + 1>>, 1)
<1> DEFINE k == Len(ts)
           r == Len(ts[k])
           new == [colspan |-> colspan, text |-> <<>>]
           row == Append(ts[k][r], new)
           rows == [ts[k] EXCEPT ![r] = row]
           us == [ts EXCEPT ![k] = rows]
<1>1. ts \in Seq(Seq(Seq(Cells))) /\ TablesOrdered(ts) /\ k \in DOMAIN ts
  BY DEF OrderedUpTo
<1>2. ts[k] \in Seq(Seq(Cells)) /\ RowsOrdered(ts[k]) /\ ts[k] # <<>>
  BY <1>1 DEF TablesOrdered, PlacedIn
<1> DEFINE old == ts[k]
<1>3. r = Len(old)
  OBVIOUS
<1> HIDE DEF old, k, r
<1>4. old \in Seq(Seq(Cells)) /\ RowsOrdered(old) /\ old # <<>> /\ ts[k] = old
  BY <1>2 DEF old
<1>5. r \in DOMAIN old /\ old[r] \in Seq(Cells) /\ \A q \in DOMAIN old : ~(q > r)
  BY <1>3, <1>4
<1>6. new \in Cells /\ new.text = <<>>
  BY DEF Cells
<1>7. CellsOrdered(old[r])
  BY <1>4, <1>5 DEF RowsOrdered
<1> HIDE DEF new
<1>8. /\ row \in Seq(Cells) /\ row # <<>> /\ Len(row) = Len(old[r]) + 1
      /\ CellsOrdered(row) /\ Total(CellSets(row)) \subseteq Total(CellSets(old[r])) \cup {}
  <2> DEFINE one == old[r]
             two == Append(one, new)
  <2>1. one \in Seq(Cells) /\ CellsOrdered(one)
    BY <1>5, <1>7
  <2>2. row = two
    BY <1>4
  <2> HIDE DEF one, row
  <2>3. two \in Seq(Cells) /\ Len(two) = Len(one) + 1 /\ Len(one) \in Nat
    BY <2>1, <1>6, AppendProperties
  <2>4. CellsOrdered(two) /\ Total(CellSets(two)) \subseteq Total(CellSets(one))
    BY <2>1, <1>6, CellAdded
  <2> HIDE DEF two
  <2>5. two # <<>>
    BY <2>3
  <2> QED BY <2>2, <2>3, <2>4, <2>5 DEF one
<1> HIDE DEF row
<1>9. Less(Total(RowSets(old)), {}) /\ Less(Total(TableSets(ts)), {})
  BY DEF Less
<1>10. rows = [old EXCEPT ![r] = row]
  BY <1>4
<1> HIDE DEF rows
<1>11. RowsOrdered(rows) /\ Total(RowSets(rows)) \subseteq Total(RowSets(old)) \cup {}
  BY <1>4, <1>5, <1>8, <1>9, <1>10, RowReplaced
<1>12. /\ rows \in Seq(Seq(Cells)) /\ DOMAIN rows = DOMAIN old /\ rows[r] = row
       /\ rows # <<>>
  BY <1>4, <1>5, <1>8, <1>10
<1>13. TablesOrdered(us) /\ Total(TableSets(us)) \subseteq Total(TableSets(ts)) \cup {}
  BY <1>1, <1>4, <1>9, <1>11, TableReplaced DEF k
<1>14. us \in Seq(Seq(Seq(Cells))) /\ Len(us) = k /\ us[k] = rows /\ us # <<>>
  BY <1>1, <1>12 DEF k
<1>15. us = [ts EXCEPT ![k] = AppendToLast(@, new)]
  BY <1>1, <1>3, <1>4, <1>10 DEF AppendToLast, row
<1> HIDE DEF us
<1>16. OrderedUpTo(us, n)
  BY <1>13, <1>14 DEF OrderedUpTo
<1>17. PlacedIn(us, TRUE, <<r, Len(old[r]) + 1>>, 1)
  BY <1>5, <1>8, <1>12, <1>14 DEF PlacedIn
<1> QED
  BY <1>3, <1>4, <1>15, <1>16, <1>17 DEF k, new

LEMMA OrderedAddText ==
  ASSUME NEW n \in Nat, NEW ts, OrderedUpTo(ts, n), NEW r, NEW i,
         NEW row, NEW depth, PlacedIn(ts, row, <<r, i>>, depth)
  PROVE  LET us == [ts EXCEPT ![Len(ts)][r][i].text = Append(@, n + 1)]
         IN OrderedUpTo(us, n + 1) /\ PlacedIn(us, row, <<r, i>>, depth)
<1> DEFINE k == Len(ts)
           old == ts[k]
           cell == [old[r][i] EXCEPT !.text = Append(@, n + 1)]
           cells == [old[r] EXCEPT ![i] = cell]
           rows == [old EXCEPT ![r] = cells]
           us == [ts EXCEPT ![k] = rows]
<1>1. /\ depth # 0 /\ ts # <<>> /\ r \in DOMAIN old /\ i = Len(old[r]) /\ old[r] # <<>>
      /\ \A q \in DOMAIN old : q > r => old[q] = <<>>
  BY DEF PlacedIn
<1>2. ts \in Seq(Seq(Seq(Cells))) /\ TablesOrdered(ts) /\ k \in DOMAIN ts
  BY <1>1 DEF OrderedUpTo
<1>3. old \in Seq(Seq(Cells)) /\ RowsOrdered(old) /\ ts[k] = old
  BY <1>2 DEF TablesOrdered
<1>4. us = [ts EXCEPT ![Len(ts)][r][i].text = Append(@, n + 1)]
  BY <1>1, <1>2
<1>5. Total(TableSets(ts)) \subseteq 1..n
  BY DEF OrderedUpTo
<1>6. Total(RowSets(old)) \subseteq 1..n
  BY <1>2, <1>5 DEF Total, TableSets
<1> HIDE DEF old, k
<1>7. old[r] \in Seq(Cells) /\ CellsOrdered(old[r]) /\ i \in DOMAIN old[r]
  BY <1>1, <1>3 DEF RowsOrdered
<1>8. Total(CellSets(old[r])) \subseteq 1..n
  BY <1>1, <1>6 DEF Total, RowSets
<1>9. old[r][i] \in Cells /\ Increasing(old[r][i].text) /\ Range(old[r][i].text) \subseteq 1..n
  BY <1>7, <1>8 DEF Total, CellSets, CellsOrdered
<1> DEFINE text == old[r][i].text
           N == {n + 1}
<1>10. text \in Seq(Nat) /\ cell \in Cells /\ cell.text = Append(text, n + 1)
  <2> DEFINE one == old[r][i]
  <2>1. one \in Cells
    BY <1>9
  <2> HIDE DEF one
  <2>2. one.text \in Seq(Nat) /\ [one EXCEPT !.text = Append(@, n + 1)].text = Append(one.text, n + 1)
    BY <2>1 DEF Cells
  <2>3. Append(one.text, n + 1) \in Seq(Nat)
    BY <2>2
  <2>4. [one EXCEPT !.text = Append(@, n + 1)] \in Cells
    BY <2>1, <2>3 DEF Cells
  <2> QED BY <2>2, <2>4 DEF one
<1> HIDE DEF text, cell
<1>11. Increasing(text) /\ Range(text) \subseteq 1..n
  BY <1>9 DEF text
<1>12. Increasing(cell.text) /\ Range(cell.text) \subseteq Range(text) \cup N
  <2>1. /\ DOMAIN cell.text = 1..(Len(text) + 1) /\ cell.text[Len(text) + 1] = n + 1
        /\ \A j \in 1..Len(text) : cell.text[j] = text[j]
        /\ DOMAIN text = 1..Len(text) /\ Len(text) \in Nat
    BY <1>10
  <2>2. \A j \in 1..Len(text) : text[j] \in 1..n
    BY <1>11, <2>1 DEF Range
  <2>3. Range(cell.text) \subseteq Range(text) \cup N
    BY <2>1 DEF Range
  <2>4. ASSUME NEW a \in 1..(Len(text) + 1), NEW b \in 1..(Len(text) + 1), a < b
        PROVE  cell.text[a] < cell.text[b]
    <3>1. a \in 1..Len(text) /\ (b \in 1..Len(text) \/ b = Len(text) + 1)
      BY <2>1, <2>4
    <3>2. CASE b \in 1..Len(text)
      BY <2>1, <2>4, <3>1, <3>2, <1>11 DEF Increasing
    <3>3. CASE b = Len(text) + 1
      BY <2>1, <2>2, <3>1, <3>3
    <3> QED
      BY <3>1, <3>2, <3>3
  <2> QED
    BY <2>1, <2>3, <2>4 DEF Increasing
<1>13. /\ Less(Total(CellSets(old[r])), N) /\ Less(Total(RowSets(old)), N)
       /\ Less(Total(TableSets(ts)), N)
  BY <1>5, <1>6, <1>8 DEF Less
<1> HIDE DEF N
<1>14. CellsOrdered(cells) /\ Total(CellSets(cells)) \subseteq Total(CellSets(old[r])) \cup N
  BY <1>1, <1>7, <1>12, <1>13, CellReplaced DEF text
<1>15. cells \in Seq(Cells) /\ cells # <<>> /\ Len(cells) = Len(old[r])
  BY <1>1, <1>7, <1>10
<1> HIDE DEF cells
<1>16. RowsOrdered(rows) /\ Total(RowSets(rows)) \subseteq Total(RowSets(old)) \cup N
  BY <1>1, <1>3, <1>13, <1>14, RowReplaced
<1>17. /\ rows \in Seq(Seq(Cells)) /\ DOMAIN rows = DOMAIN old /\ rows[r] = cells
       /\ rows # <<>> /\ \A q \in DOMAIN old : q # r => rows[q] = old[q]
  BY <1>1, <1>3, <1>15
<1> HIDE DEF rows
<1>18. TablesOrdered(us) /\ Total(TableSets(us)) \subseteq Total(TableSets(ts)) \cup N
  BY <1>1, <1>2, <1>3, <1>13, <1>16, TableReplaced DEF k
<1>19. us \in Seq(Seq(Seq(Cells))) /\ Len(us) = k /\ us[k] = rows /\ us # <<>>
  BY <1>2, <1>17 DEF k
<1> HIDE DEF us
<1>20. OrderedUpTo(us, n + 1)
  <2>1. 1..n \cup N \subseteq 1..(n + 1)
    BY DEF N
  <2> QED BY <1>5, <1>18, <1>19, <2>1 DEF OrderedUpTo
<1>21. DOMAIN old \subseteq Int
  BY <1>3
<1>22. PlacedIn(us, row, <<r, i>>, depth)
  BY <1>1, <1>15, <1>17, <1>19, <1>21 DEF PlacedIn
<1> QED
  BY <1>4, <1>20, <1>22

-----------------------------------------------------------------------------
\* What is inspected, one token after the other.
InspectionOrdered ==
  /\ texts \in Nat /\ OrderedUpTo(tables, texts)
  /\ table_depth \in {0, 1}
  /\ rejected \/ PlacedIn(tables, current_row, current_cell, table_depth)

LEMMA InitInspectionOrdered ==
  ASSUME Init PROVE InspectionOrdered
<1>1. /\ texts = 0 /\ tables = <<>> /\ table_depth = 0 /\ current_cell = <<>>
      /\ current_row = FALSE
  BY DEF Init, InspectionInit
<1>2. TablesOrdered(<<>>) /\ Total(TableSets(<<>>)) = {}
  BY DEF TablesOrdered, TableSets, Chain, Total
<1>3. <<>> \in Seq(Seq(Seq(Cells)))
  OBVIOUS
<1>4. OrderedUpTo(tables, texts)
  BY <1>1, <1>2, <1>3 DEF OrderedUpTo
<1>5. PlacedIn(tables, current_row, current_cell, table_depth)
  BY <1>1 DEF PlacedIn
<1> QED
  BY <1>1, <1>4, <1>5 DEF InspectionOrdered

LEMMA InspectOrdered ==
  ASSUME NEW t \in Tokens, NEW n \in Nat, Inspect(t, n + 1), TokensAssumption,
         OrderedUpTo(tables, n), table_depth \in {0, 1},
         rejected \/ PlacedIn(tables, current_row, current_cell, table_depth)
  PROVE  /\ OrderedUpTo(tables', n) \/ (t.kind = "data" /\ OrderedUpTo(tables', n + 1))
         /\ table_depth' \in {0, 1}
         /\ rejected' \/ PlacedIn(tables', current_row', current_cell', table_depth')
<1> DEFINE Still == /\ OrderedUpTo(tables', n) /\ table_depth' \in {0, 1}
                    /\ rejected' \/ PlacedIn(tables', current_row', current_cell', table_depth')
<1>1. ASSUME UNCHANGED structure, rejected' \/ UNCHANGED rejected PROVE Still
  BY <1>1 DEF structure
<1>2. CASE rejected \/ t.kind = "empty"
  <2>1. UNCHANGED inspected
    <3>1. CASE rejected
      BY <3>1 DEF Inspect, Ignore
    <3>2. CASE ~rejected /\ t.kind = "empty"
      BY <3>2 DEF Inspect, Ignore
    <3> QED BY <1>2, <3>1, <3>2
  <2> QED BY <2>1, <1>1 DEF inspected, structure
<1>3. CASE ~rejected /\ t.kind = "start"
  <2> DEFINE placed == PlacedIn(tables, current_row, current_cell, table_depth)
  <2>1. InspectStart(t) /\ placed /\ (t.tag = "td" => t.colspan \in Int)
    BY <1>3, TokensAssumption
       DEF Inspect, Tokens, Cell, EmptyCellTag, TdTag, Start, Empty, End, Plain, Data, NotANumber, Tags
  <2>2. CASE t.tag \in Containers
    BY <2>1, <2>2, <1>1 DEF InspectStart, Suppress, structure
  <2>3. CASE t.tag \notin Containers /\ UNCHANGED inspected
    BY <2>3, <1>1 DEF inspected, structure
  <2>4. CASE Reject
    BY <2>4, <1>1 DEF Reject
  <2>5. ASSUME StartTable, ~Reject PROVE Still
    <3>1. /\ table_depth = 0 /\ table_depth' = 1 /\ tables' = Append(tables, <<>>)
          /\ current_row' = current_row /\ current_cell' = current_cell
      BY <2>5 DEF StartTable
    <3>2. current_row' = FALSE /\ current_cell' = <<>>
      <4>1. current_cell = <<>> /\ ~current_row
        BY <2>1, <3>1 DEF PlacedIn
      <4>2. OrderedUpTo(Append(tables, <<>>), n)
        BY OrderedStartTable
      <4> QED BY <4>1, <3>1
    <3> QED BY <3>1, <3>2, OrderedStartTable
  <2>6. ASSUME StartRow, ~Reject, table_depth = 1 PROVE Still
    <3>1. /\ table_depth' = 1 /\ tables' = AppendToLast(tables, <<>>)
          /\ current_row' = TRUE /\ current_cell' = current_cell
      BY <2>6 DEF StartRow
    <3>2. tables # <<>>
      BY <2>1, <2>6 DEF PlacedIn
    <3> QED BY <2>1, <2>6, <3>1, <3>2, OrderedStartRow
  <2>7. ASSUME StartCell(t.colspan), ~Reject, table_depth = 1, current_row, t.tag = "td"
        PROVE  Still
    <3>1. /\ table_depth' = 1
          /\ tables' = [tables EXCEPT ![Len(tables)] =
                          AppendToLast(@, [colspan |-> t.colspan, text |-> <<>>])]
          /\ current_row' = current_row
          /\ current_cell' = <<Len(Rows), Len(Rows[Len(Rows)]) + 1>>
      BY <2>7 DEF StartCell
    <3>2. tables # <<>> /\ t.colspan \in Int
      BY <2>1, <2>7 DEF PlacedIn
    <3> QED BY <2>1, <2>7, <3>1, <3>2, OrderedStartCell DEF Rows
  <2> QED
    BY <2>1, <2>2, <2>3, <2>4, <2>5, <2>6, <2>7 DEF InspectStart, Ignore
<1>4. CASE ~rejected /\ t.kind = "end"
  <2>1. InspectEnd(t) /\ PlacedIn(tables, current_row, current_cell, table_depth)
    BY <1>4 DEF Inspect
  <2>2. CASE UNCHANGED inspected
    BY <2>2, <1>1 DEF inspected, structure
  <2>3. CASE UNCHANGED <<structure, rejected>>
    BY <2>3, <1>1
  <2>4. ASSUME EndTable PROVE Still
    <3>1. /\ table_depth' = 0 /\ current_row' = FALSE /\ current_cell' = <<>>
          /\ tables' = tables
      BY <2>4 DEF EndTable
    <3> QED BY <3>1 DEF PlacedIn
  <2>5. ASSUME EndCell PROVE Still
    <3>1. /\ table_depth' = table_depth /\ current_row' = current_row
          /\ current_cell' = <<>> /\ tables' = tables
      BY <2>5 DEF EndCell
    <3> QED BY <2>1, <3>1 DEF PlacedIn
  <2>6. ASSUME EndRow PROVE Still
    <3>1. /\ table_depth' = table_depth /\ current_row' = FALSE
          /\ current_cell' = current_cell /\ tables' = tables
      BY <2>6 DEF EndRow
    <3> QED BY <2>1, <3>1 DEF PlacedIn
  <2> QED
    BY <2>1, <2>2, <2>3, <2>4, <2>5, <2>6 DEF InspectEnd, Release, Ignore
<1>5. CASE ~rejected /\ t.kind = "data"
  <2>1. InspectData(n + 1) /\ PlacedIn(tables, current_row, current_cell, table_depth)
    BY <1>5 DEF Inspect
  <2>2. CASE UNCHANGED inspected
    BY <2>2, <1>1 DEF inspected, structure
  <2>3. CASE Reject
    BY <2>3, <1>1 DEF Reject
  <2>4. ASSUME AddText(n + 1), ~Reject, current_cell # <<>>
        PROVE  /\ OrderedUpTo(tables', n + 1) /\ table_depth' \in {0, 1}
               /\ PlacedIn(tables', current_row', current_cell', table_depth')
    <3>1. PICK r, i : current_cell = <<r, i>>
      BY <2>1, <2>4 DEF PlacedIn
    <3>2. /\ table_depth' = table_depth /\ current_row' = current_row
          /\ current_cell' = current_cell
          /\ tables' = [tables EXCEPT ![Len(tables)][r][i].text = Append(@, n + 1)]
      BY <2>4, <3>1 DEF AddText
    <3> QED BY <2>1, <3>1, <3>2, OrderedAddText
  <2> QED
    BY <1>5, <2>1, <2>2, <2>3, <2>4 DEF InspectData, Ignore
<1>6. t.kind \in {"start", "end", "empty", "data"}
  BY DEF Tokens, Start, Cell, EmptyCellTag, TdTag, End, Empty, Data, Plain
<1> QED BY <1>2, <1>3, <1>4, <1>5, <1>6

LEMMA TokenInspectionOrdered ==
  ASSUME NEW t \in Tokens, Token(t), InspectionOrdered, TokensAssumption
  PROVE  InspectionOrdered'
<1>1. /\ texts \in Nat /\ Inspect(t, texts + 1) /\ texts' \in Nat /\ texts <= texts'
      /\ t.kind = "data" => texts' = texts + 1
  BY DEF Token, HasText, InspectionOrdered
<1>2. /\ \/ OrderedUpTo(tables', texts)
         \/ (t.kind = "data" /\ OrderedUpTo(tables', texts + 1))
      /\ table_depth' \in {0, 1}
      /\ rejected' \/ PlacedIn(tables', current_row', current_cell', table_depth')
  BY <1>1, InspectOrdered DEF InspectionOrdered
<1>3. OrderedUpTo(tables', texts')
  BY <1>1, <1>2, UpToMonotone
<1> QED
  BY <1>1, <1>2, <1>3 DEF InspectionOrdered

LEMMA InspectedInOrder ==
  ASSUME InspectionOrdered PROVE Increasing(InspectedTexts)
BY OrderedTexts DEF InspectionOrdered, OrderedUpTo, InspectedTexts

-----------------------------------------------------------------------------
(* The texts that are loaded.  A value that repeats the one before it adds *)
(* nothing: it is the same cell, over another column.                      *)

PieceSets(row) ==
  [i \in DOMAIN row |-> IF i > 1 /\ row[i] = row[i - 1] THEN {} ELSE Range(row[i])]
RecordSets(rows) == [r \in DOMAIN rows |-> Total(PieceSets(rows[r]))]
LoadSets(ts) == [k \in DOMAIN ts |-> Total(RecordSets(ts[k]))]

ValuesOrdered(row) == (\A i \in DOMAIN row : Increasing(row[i])) /\ Chain(PieceSets(row))
RecordsOrdered(rows) == (\A r \in DOMAIN rows : ValuesOrdered(rows[r])) /\ Chain(RecordSets(rows))
LoadsOrdered(ts) == (\A k \in DOMAIN ts : RecordsOrdered(ts[k])) /\ Chain(LoadSets(ts))

LEMMA OrderedValues ==
  ASSUME NEW row \in Seq(Seq(Nat)), ValuesOrdered(row)
  PROVE  /\ RowTexts(row) \in Seq(Nat) /\ Increasing(RowTexts(row))
         /\ Range(RowTexts(row)) \subseteq Total(PieceSets(row))
<1> DEFINE n == Len(row)
           ss == [i \in DOMAIN row |->
                    IF i > 1 /\ row[i] = row[i - 1] THEN <<>> ELSE row[i]]
           F == PieceSets(row)
<1>1. n \in Nat /\ DOMAIN row = 1..n /\ \A i \in 1..n : row[i] \in Seq(Nat)
  OBVIOUS
<1> HIDE DEF n
<1>2. \A i \in 1..n : ss[i] = IF i > 1 /\ row[i] = row[i - 1] THEN <<>> ELSE row[i]
  BY <1>1
<1>3. /\ DOMAIN F = 1..n /\ Chain(F)
      /\ \A i \in 1..n : F[i] = IF i > 1 /\ row[i] = row[i - 1] THEN {} ELSE Range(row[i])
  BY <1>1 DEF PieceSets, ValuesOrdered
<1>4. <<>> \in Seq(Nat) /\ Increasing(<<>>) /\ Range(<<>>) = {}
  BY DEF Increasing, Range
<1>5. \A i \in 1..n : ss[i] \in Seq(Nat)
  BY <1>1, <1>2, <1>4
<1>6. ss \in [1..n -> Seq(Nat)]
  BY <1>1, <1>5
<1>7. RowTexts(row) = FlattenSeq(ss)
  BY DEF RowTexts
<1> HIDE DEF ss
<1>8. \A i \in 1..n : Increasing(row[i])
  BY <1>1 DEF ValuesOrdered
<1> HIDE DEF F
<1>9. \A i \in 1..n : Increasing(ss[i]) /\ Range(ss[i]) \subseteq F[i]
  BY <1>2, <1>3, <1>4, <1>8
<1>10. /\ FlattenSeq(ss) \in Seq(Nat) /\ Increasing(FlattenSeq(ss))
      /\ Range(FlattenSeq(ss)) \subseteq Total(F)
  BY <1>1, <1>3, <1>6, <1>9, OrderedParts
<1> QED
  BY <1>7, <1>10 DEF F

LEMMA OrderedRecords ==
  ASSUME NEW rows \in Seq(Seq(Seq(Nat))), RecordsOrdered(rows)
  PROVE  /\ TableTexts(rows) \in Seq(Nat) /\ Increasing(TableTexts(rows))
         /\ Range(TableTexts(rows)) \subseteq Total(RecordSets(rows))
<1> DEFINE n == Len(rows)
           ss == [r \in DOMAIN rows |-> RowTexts(rows[r])]
           F == RecordSets(rows)
<1>1. n \in Nat /\ DOMAIN rows = 1..n /\ \A r \in 1..n : rows[r] \in Seq(Seq(Nat))
  OBVIOUS
<1> HIDE DEF n
<1>2. \A r \in 1..n : ValuesOrdered(rows[r])
  BY <1>1 DEF RecordsOrdered
<1>3. \A r \in 1..n : ss[r] = RowTexts(rows[r])
  BY <1>1
<1>4. DOMAIN F = 1..n /\ Chain(F) /\ \A r \in 1..n : F[r] = Total(PieceSets(rows[r]))
  BY <1>1 DEF RecordSets, RecordsOrdered
<1>5. \A r \in 1..n : ss[r] \in Seq(Nat) /\ Increasing(ss[r]) /\ Range(ss[r]) \subseteq F[r]
  BY <1>1, <1>2, <1>3, <1>4, OrderedValues
<1>6. ss \in [1..n -> Seq(Nat)]
  BY <1>1, <1>5
<1>7. TableTexts(rows) = FlattenSeq(ss)
  BY DEF TableTexts
<1> HIDE DEF ss, F
<1>8. /\ FlattenSeq(ss) \in Seq(Nat) /\ Increasing(FlattenSeq(ss))
      /\ Range(FlattenSeq(ss)) \subseteq Total(F)
  BY <1>1, <1>4, <1>5, <1>6, OrderedParts
<1> QED
  BY <1>7, <1>8 DEF F

LEMMA OrderedLoads ==
  ASSUME NEW ts \in Seq(Seq(Seq(Seq(Nat)))), LoadsOrdered(ts)
  PROVE  LET s == FlattenSeq([k \in DOMAIN ts |-> TableTexts(ts[k])]) IN
         s \in Seq(Nat) /\ Increasing(s) /\ Range(s) \subseteq Total(LoadSets(ts))
<1> DEFINE n == Len(ts)
           ss == [k \in DOMAIN ts |-> TableTexts(ts[k])]
           F == LoadSets(ts)
<1>1. n \in Nat /\ DOMAIN ts = 1..n /\ \A k \in 1..n : ts[k] \in Seq(Seq(Seq(Nat)))
  OBVIOUS
<1> HIDE DEF n
<1>2. \A k \in 1..n : RecordsOrdered(ts[k])
  BY <1>1 DEF LoadsOrdered
<1>3. \A k \in 1..n : ss[k] = TableTexts(ts[k])
  BY <1>1
<1>4. DOMAIN F = 1..n /\ Chain(F) /\ \A k \in 1..n : F[k] = Total(RecordSets(ts[k]))
  BY <1>1 DEF LoadSets, LoadsOrdered
<1>5. \A k \in 1..n : ss[k] \in Seq(Nat) /\ Increasing(ss[k]) /\ Range(ss[k]) \subseteq F[k]
  BY <1>1, <1>2, <1>3, <1>4, OrderedRecords
<1>6. ss \in [1..n -> Seq(Nat)]
  BY <1>1, <1>5
<1> HIDE DEF ss, F
<1>7. /\ FlattenSeq(ss) \in Seq(Nat) /\ Increasing(FlattenSeq(ss))
      /\ Range(FlattenSeq(ss)) \subseteq Total(F)
  BY <1>1, <1>4, <1>5, <1>6, OrderedParts
<1> QED
  BY <1>7 DEF ss, F

-----------------------------------------------------------------------------
\* A finished cell, row or table is appended.
LEMMA ValuesAdded ==
  ASSUME NEW row \in Seq(Seq(Nat)), ValuesOrdered(row), NEW value \in Seq(Nat),
         Increasing(value), NEW w \in Nat, w > 0,
         Less(Total(PieceSets(row)), Range(value))
  PROVE  LET us == row \o [i \in 1..w |-> value] IN
         /\ us \in Seq(Seq(Nat)) /\ ValuesOrdered(us)
         /\ Total(PieceSets(us)) \subseteq Total(PieceSets(row)) \cup Range(value)
<1> DEFINE n == Len(row)
           new == [i \in 1..w |-> value]
           us == row \o new
           F == PieceSets(row)
           G == PieceSets(us)
<1>1. new \in Seq(Seq(Nat)) /\ Len(new) = w /\ \A i \in 1..w : new[i] = value
  OBVIOUS
<1> HIDE DEF new
<1>2. /\ us \in Seq(Seq(Nat)) /\ n \in Nat /\ DOMAIN row = 1..n /\ Len(us) = n + w
      /\ DOMAIN us = 1..(n + w)
      /\ \A i \in 1..(n + w) : us[i] = IF i <= n THEN row[i] ELSE new[i - n]
  <2>1. /\ us \in Seq(Seq(Nat)) /\ Len(us) = Len(row) + Len(new)
        /\ \A i \in 1..(Len(row) + Len(new)) :
             us[i] = IF i <= Len(row) THEN row[i] ELSE new[i - Len(row)]
    BY <1>1, ConcatProperties
  <2>2. Len(row) \in Nat /\ DOMAIN row = 1..Len(row)
    OBVIOUS
  <2> HIDE DEF us
  <2>3. DOMAIN us = 1..Len(us)
    BY <2>1
  <2> QED BY <1>1, <2>1, <2>2, <2>3
<1> HIDE DEF us, n
<1>3. \A i \in 1..(n + w) : /\ i <= n => i \in 1..n /\ us[i] = row[i]
                            /\ i > n => us[i] = value
  <2> TAKE i \in 1..(n + w)
  <2>1. i <= n => i \in 1..n
    BY <1>2
  <2>2. i > n => i - n \in 1..w
    BY <1>2
  <2> QED BY <1>1, <1>2, <2>1, <2>2
<1>4. /\ DOMAIN F = 1..n /\ Chain(F) /\ DOMAIN G = 1..(n + w)
      /\ \A i \in 1..n : F[i] = IF i > 1 /\ row[i] = row[i - 1] THEN {} ELSE Range(row[i])
      /\ \A i \in 1..(n + w) :
           G[i] = IF i > 1 /\ us[i] = us[i - 1] THEN {} ELSE Range(us[i])
  BY <1>2 DEF PieceSets, ValuesOrdered
<1>5. \A i \in 1..n : G[i] = F[i]
  <2> TAKE i \in 1..n
  <2>1. i \in 1..(n + w) /\ us[i] = row[i]
    BY <1>2, <1>3
  <2>2. i > 1 => us[i - 1] = row[i - 1]
    <3>1. i > 1 => i - 1 \in 1..(n + w) /\ i - 1 <= n
      BY <1>2
    <3> QED BY <3>1, <1>3
  <2> QED BY <1>4, <2>1, <2>2
<1>6. \A i \in 1..(n + w) : i > n + 1 => G[i] = {}
  <2> SUFFICES ASSUME NEW i \in 1..(n + w), i > n + 1 PROVE G[i] = {}
    OBVIOUS
  <2>1. i - 1 \in 1..(n + w) /\ i - 1 > n /\ i > n /\ i > 1
    BY <1>2
  <2> QED BY <1>3, <1>4, <2>1
<1>7. \A i \in 1..(n + w) : i > n => G[i] \subseteq Range(value)
  BY <1>3, <1>4
<1>8. \A i \in DOMAIN us : Increasing(us[i])
  <2>1. \A i \in 1..n : Increasing(row[i])
    BY <1>2 DEF ValuesOrdered
  <2>2. \A i \in 1..(n + w) : i <= n \/ i > n
    BY <1>2
  <2> QED BY <1>2, <1>3, <2>1, <2>2
<1>9. Less(Total(F), Range(value))
  OBVIOUS
<1> HIDE DEF F, G
<1>10. Total(G) \subseteq Total(F) \cup Range(value)
  <2>1. \A i \in 1..(n + w) : i \in 1..n \/ i > n
    BY <1>2
  <2> QED BY <1>4, <1>5, <1>7, <2>1 DEF Total
<1>11. ASSUME NEW a \in 1..(n + w), NEW b \in 1..(n + w), a < b PROVE Less(G[a], G[b])
  <2>1. CASE b > n + 1
    BY <1>6, <2>1 DEF Less
  <2>2. CASE b = n + 1
    <3>1. a \in 1..n /\ b > n
      BY <1>2, <1>11, <2>2
    <3>2. G[a] \subseteq Total(F) /\ G[b] \subseteq Range(value)
      BY <1>4, <1>5, <1>7, <3>1 DEF Total
    <3> QED BY <1>9, <3>2 DEF Less
  <2>3. CASE b < n + 1
    <3>1. a \in 1..n /\ b \in 1..n
      BY <1>2, <1>11, <2>3
    <3> QED BY <1>4, <1>5, <1>11, <3>1 DEF Chain
  <2> QED BY <1>2, <2>1, <2>2, <2>3
<1>12. Chain(G)
  BY <1>4, <1>11 DEF Chain
<1> QED
  BY <1>2, <1>8, <1>10, <1>12 DEF ValuesOrdered, F, G, us, new

LEMMA RecordAdded ==
  ASSUME NEW rows \in Seq(Seq(Seq(Nat))), RecordsOrdered(rows),
         NEW row \in Seq(Seq(Nat)), ValuesOrdered(row),
         Less(Total(RecordSets(rows)), Total(PieceSets(row)))
  PROVE  LET us == Append(rows, row) IN
         /\ us \in Seq(Seq(Seq(Nat))) /\ RecordsOrdered(us)
         /\ Total(RecordSets(us)) \subseteq Total(RecordSets(rows)) \cup Total(PieceSets(row))
<1> DEFINE n == Len(rows)
           us == Append(rows, row)
           F == RecordSets(rows)
           G == RecordSets(us)
<1>1. /\ n \in Nat /\ DOMAIN rows = 1..n /\ DOMAIN us = 1..(n + 1)
      /\ us[n + 1] = row /\ \A k \in 1..n : us[k] = rows[k]
      /\ us \in Seq(Seq(Seq(Nat)))
  BY AppendProperties
<1> HIDE DEF n, us
<1>2. \A k \in 1..(n + 1) : k \in 1..n \/ k = n + 1
  BY <1>1
<1>3. /\ Chain(F) /\ DOMAIN F = 1..n /\ DOMAIN G = 1..(n + 1)
      /\ \A q \in 1..n : G[q] = F[q]
  BY <1>1 DEF RecordsOrdered, RecordSets
<1>4. n + 1 \in DOMAIN us
  BY <1>1
<1>5. G[n + 1] = Total(PieceSets(row))
  BY <1>1, <1>4 DEF RecordSets
<1>6. \A k \in DOMAIN us : ValuesOrdered(us[k])
  BY <1>1, <1>2 DEF RecordsOrdered
<1>7. Less(Total(F), G[n + 1])
  BY <1>5
<1> HIDE DEF F, G
<1>8. Chain(G) /\ Total(G) \subseteq Total(F) \cup G[n + 1]
  BY <1>1, <1>3, <1>7, ChainAdded
<1> QED
  BY <1>1, <1>5, <1>6, <1>8 DEF RecordsOrdered, F, G, us

LEMMA LoadAdded ==
  ASSUME NEW ts \in Seq(Seq(Seq(Seq(Nat)))), LoadsOrdered(ts),
         NEW rows \in Seq(Seq(Seq(Nat))), RecordsOrdered(rows),
         Less(Total(LoadSets(ts)), Total(RecordSets(rows)))
  PROVE  LET us == Append(ts, rows) IN
         /\ us \in Seq(Seq(Seq(Seq(Nat)))) /\ LoadsOrdered(us)
         /\ Total(LoadSets(us)) \subseteq Total(LoadSets(ts)) \cup Total(RecordSets(rows))
<1> DEFINE n == Len(ts)
           us == Append(ts, rows)
           F == LoadSets(ts)
           G == LoadSets(us)
<1>1. /\ n \in Nat /\ DOMAIN ts = 1..n /\ DOMAIN us = 1..(n + 1)
      /\ us[n + 1] = rows /\ \A k \in 1..n : us[k] = ts[k]
      /\ us \in Seq(Seq(Seq(Seq(Nat))))
  BY AppendProperties
<1> HIDE DEF n, us
<1>2. \A k \in 1..(n + 1) : k \in 1..n \/ k = n + 1
  BY <1>1
<1>3. /\ Chain(F) /\ DOMAIN F = 1..n /\ DOMAIN G = 1..(n + 1)
      /\ \A q \in 1..n : G[q] = F[q]
  BY <1>1 DEF LoadsOrdered, LoadSets
<1>4. n + 1 \in DOMAIN us
  BY <1>1
<1>5. G[n + 1] = Total(RecordSets(rows))
  BY <1>1, <1>4 DEF LoadSets
<1>6. \A k \in DOMAIN us : RecordsOrdered(us[k])
  BY <1>1, <1>2 DEF LoadsOrdered
<1>7. Less(Total(F), G[n + 1])
  BY <1>5
<1> HIDE DEF F, G
<1>8. Chain(G) /\ Total(G) \subseteq Total(F) \cup G[n + 1]
  BY <1>1, <1>3, <1>7, ChainAdded
<1> QED
  BY <1>1, <1>5, <1>6, <1>8 DEF LoadsOrdered, F, G, us

-----------------------------------------------------------------------------
\* The texts of L, T, R and C follow one another, all among the first n.
Ascending(L, T, R, C, n) ==
  /\ Less(L, T) /\ Less(L, R) /\ Less(L, C)
  /\ Less(T, R) /\ Less(T, C) /\ Less(R, C)
  /\ L \subseteq 1..n /\ T \subseteq 1..n /\ R \subseteq 1..n /\ C \subseteq 1..n

LEMMA AscendingParts ==
  ASSUME NEW n \in Nat, NEW L, NEW T, NEW R, NEW C, Ascending(L, T, R, C, n),
         NEW LL, NEW TT, NEW RR, NEW CC
  PROVE  /\ LL \subseteq L /\ TT \subseteq T /\ RR \subseteq R /\ CC \subseteq C
              => Ascending(LL, TT, RR, CC, n)
         /\ LL \subseteq L \cup T => Ascending(LL, {}, R, C, n)
         /\ TT \subseteq T \cup R => Ascending(L, TT, {}, C, n)
         /\ RR \subseteq R \cup C => Ascending(L, T, RR, {}, n)
BY DEF Ascending, Less

LEMMA AscendingMore ==
  ASSUME NEW n \in Nat, NEW L, NEW T, NEW R, NEW C, Ascending(L, T, R, C, n)
  PROVE  /\ \A m \in Nat : n <= m => Ascending(L, T, R, C, m)
         /\ \A CC : CC \subseteq C \cup {n + 1} => Ascending(L, T, R, CC, n + 1)
<1>1. ASSUME NEW m \in Nat, n <= m PROVE 1..n \subseteq 1..m
  BY <1>1
<1>2. 1..n \cup {n + 1} \subseteq 1..(n + 1)
  OBVIOUS
<1>3. Less(L, {n + 1}) /\ Less(T, {n + 1}) /\ Less(R, {n + 1})
  BY DEF Ascending, Less
<1>4. ASSUME NEW CC, CC \subseteq C \cup {n + 1} PROVE Ascending(L, T, R, CC, n + 1)
  <2>1. Less(L, CC) /\ Less(T, CC) /\ Less(R, CC)
    BY <1>3, <1>4 DEF Ascending, Less
  <2>2. L \subseteq 1..(n + 1) /\ T \subseteq 1..(n + 1) /\ R \subseteq 1..(n + 1)
    BY <1>2 DEF Ascending
  <2>3. CC \subseteq 1..(n + 1)
    BY <1>2, <1>4 DEF Ascending
  <2> QED BY <2>1, <2>2, <2>3 DEF Ascending
<1> QED
  BY <1>1, <1>4 DEF Ascending

\* What the loading parser holds: the texts of finished tables, of finished
\* rows of the open table, of finished cells of the open row and of the open
\* cell follow one another.
LoadingState(ts, rows, row, cell, a, td, n) ==
  LET L == Total(LoadSets(ts))
      T == Total(RecordSets(rows))
      R == Total(PieceSets(row))
  IN /\ ts \in Seq(Seq(Seq(Seq(Nat)))) /\ LoadsOrdered(ts)
     /\ rows \in Seq(Seq(Seq(Nat))) /\ RecordsOrdered(rows)
     /\ row \in Seq(Seq(Nat)) /\ ValuesOrdered(row)
     /\ cell \in Seq(Nat) /\ Increasing(cell)
     /\ a \in [colspan : Int, x_str : Seq(Nat)] /\ Increasing(a.x_str)
     /\ Ascending(L, T, R, Range(cell), n)
     /\ td => Ascending(L, T, R, Range(a.x_str), n)

LoadingOrdered ==
  /\ texts \in Nat /\ in_td \in BOOLEAN
  /\ LoadingState(loaded, cur_table, cur_row, cur_cell, attrs, in_td, texts)

LEMMA NothingYet ==
  /\ LoadsOrdered(<<>>) /\ Total(LoadSets(<<>>)) = {}
  /\ RecordsOrdered(<<>>) /\ Total(RecordSets(<<>>)) = {}
  /\ ValuesOrdered(<<>>) /\ Total(PieceSets(<<>>)) = {}
  /\ Increasing(<<>>) /\ Range(<<>>) = {}
  /\ \A X : <<>> \in Seq(X)
<1>1. LoadsOrdered(<<>>) /\ Total(LoadSets(<<>>)) = {}
  BY DEF LoadsOrdered, LoadSets, Chain, Total
<1>2. RecordsOrdered(<<>>) /\ Total(RecordSets(<<>>)) = {}
  BY DEF RecordsOrdered, RecordSets, Chain, Total
<1>3. ValuesOrdered(<<>>) /\ Total(PieceSets(<<>>)) = {}
  BY DEF ValuesOrdered, PieceSets, Chain, Total
<1>4. Increasing(<<>>) /\ Range(<<>>) = {}
  BY DEF Increasing, Range
<1> QED
  BY <1>1, <1>2, <1>3, <1>4, EmptySeq

\* What a token may do to it.
LEMMA StateMonotone ==
  ASSUME NEW ts, NEW rows, NEW row, NEW cell, NEW a, NEW td, NEW n \in Nat,
         LoadingState(ts, rows, row, cell, a, td, n), NEW m \in Nat, n <= m
  PROVE  LoadingState(ts, rows, row, cell, a, td, m)
BY AscendingMore DEF LoadingState

LEMMA StateCleared ==
  ASSUME NEW ts, NEW rows, NEW row, NEW cell, NEW a, NEW td, NEW n \in Nat,
         LoadingState(ts, rows, row, cell, a, td, n)
  PROVE  /\ LoadingState(ts, <<>>, row, cell, a, td, n)
         /\ LoadingState(ts, rows, <<>>, cell, a, td, n)
         /\ LoadingState(ts, rows, row, <<>>, a, FALSE, n)
         /\ LoadingState(ts, rows, row, <<>>, [colspan |-> 1, x_str |-> <<>>], FALSE, n)
<1> DEFINE L == Total(LoadSets(ts))
           T == Total(RecordSets(rows))
           R == Total(PieceSets(row))
           C == Range(cell)
           X == Range(a.x_str)
           none == [colspan |-> 1, x_str |-> <<>>]
<1>1. Ascending(L, T, R, C, n) /\ (td => Ascending(L, T, R, X, n))
  BY DEF LoadingState
<1>2. none \in [colspan : Int, x_str : Seq(Nat)] /\ none.x_str = <<>>
  OBVIOUS
<1> HIDE DEF L, T, R, C, X, none
<1>3. /\ Ascending(L, {}, R, C, n) /\ (td => Ascending(L, {}, R, X, n))
      /\ Ascending(L, T, {}, C, n) /\ (td => Ascending(L, T, {}, X, n))
      /\ Ascending(L, T, R, {}, n)
  BY <1>1 DEF Ascending, Less
<1>4. LoadingState(ts, <<>>, row, cell, a, td, n)
  BY <1>3, NothingYet DEF LoadingState, L, T, R, C, X
<1>5. LoadingState(ts, rows, <<>>, cell, a, td, n)
  BY <1>3, NothingYet DEF LoadingState, L, T, R, C, X
<1>6. LoadingState(ts, rows, row, <<>>, a, FALSE, n)
  BY <1>3, NothingYet DEF LoadingState, L, T, R, C, X
<1>7. LoadingState(ts, rows, row, <<>>, none, FALSE, n)
  BY <1>2, <1>3, NothingYet DEF LoadingState, L, T, R, C, X
<1> QED
  BY <1>4, <1>5, <1>6, <1>7 DEF none

\* A cell opens; its x:str is the next text.
LEMMA StateOpened ==
  ASSUME NEW ts, NEW rows, NEW row, NEW cell, NEW a, NEW td, NEW n \in Nat,
         LoadingState(ts, rows, row, cell, a, td, n), NEW colspan \in Int
  PROVE  /\ LoadingState(ts, rows, row, <<>>, [colspan |-> colspan, x_str |-> <<>>], TRUE, n)
         /\ LoadingState(ts, rows, row, <<>>, [colspan |-> colspan, x_str |-> <<n + 1>>],
                         TRUE, n + 1)
<1> DEFINE L == Total(LoadSets(ts))
           T == Total(RecordSets(rows))
           R == Total(PieceSets(row))
           C == Range(cell)
           none == [colspan |-> colspan, x_str |-> <<>>]
           some == [colspan |-> colspan, x_str |-> <<n + 1>>]
<1>1. Ascending(L, T, R, C, n)
  BY DEF LoadingState
<1>2. /\ none \in [colspan : Int, x_str : Seq(Nat)] /\ none.x_str = <<>>
      /\ some \in [colspan : Int, x_str : Seq(Nat)] /\ some.x_str = <<n + 1>>
  OBVIOUS
<1>3. Increasing(<<n + 1>>) /\ Range(<<n + 1>>) = {n + 1}
  BY DEF Increasing, Range
<1> HIDE DEF L, T, R, C, none, some
<1>4. Ascending(L, T, R, {}, n)
  BY <1>1 DEF Ascending, Less
<1>5. Ascending(L, T, R, {}, n + 1) /\ Ascending(L, T, R, {n + 1}, n + 1)
  <2>1. n + 1 \in Nat /\ n <= n + 1 /\ {n + 1} \subseteq {} \cup {n + 1}
    OBVIOUS
  <2> QED BY <1>4, <2>1, AscendingMore
<1>6. LoadingState(ts, rows, row, <<>>, none, TRUE, n)
  BY <1>2, <1>4, NothingYet DEF LoadingState, L, T, R, C
<1>7. LoadingState(ts, rows, row, <<>>, some, TRUE, n + 1)
  BY <1>2, <1>3, <1>5, NothingYet DEF LoadingState, L, T, R, C
<1> QED
  BY <1>6, <1>7 DEF none, some

LEMMA StateFinishedTable ==
  ASSUME NEW ts, NEW rows, NEW row, NEW cell, NEW a, NEW td, NEW n \in Nat,
         LoadingState(ts, rows, row, cell, a, td, n)
  PROVE  LoadingState(Append(ts, rows), <<>>, row, cell, a, td, n)
<1> DEFINE L == Total(LoadSets(ts))
           T == Total(RecordSets(rows))
           R == Total(PieceSets(row))
           C == Range(cell)
           X == Range(a.x_str)
           us == Append(ts, rows)
           LL == Total(LoadSets(us))
<1>1. Ascending(L, T, R, C, n) /\ (td => Ascending(L, T, R, X, n))
  BY DEF LoadingState
<1>2. Less(L, T)
  BY <1>1 DEF Ascending
<1>3. /\ us \in Seq(Seq(Seq(Seq(Nat)))) /\ LoadsOrdered(us)
      /\ LL \subseteq L \cup T
  BY <1>2, LoadAdded DEF LoadingState
<1> HIDE DEF L, T, R, C, X, us, LL
<1>4. Ascending(LL, {}, R, C, n) /\ (td => Ascending(LL, {}, R, X, n))
  BY <1>1, <1>3, AscendingParts
<1> QED
  BY <1>3, <1>4, NothingYet DEF LoadingState, LL, L, T, R, C, X, us

LEMMA StateFinishedRow ==
  ASSUME NEW ts, NEW rows, NEW row, NEW cell, NEW a, NEW td, NEW n \in Nat,
         LoadingState(ts, rows, row, cell, a, td, n)
  PROVE  LoadingState(ts, Append(rows, row), <<>>, cell, a, td, n)
<1> DEFINE L == Total(LoadSets(ts))
           T == Total(RecordSets(rows))
           R == Total(PieceSets(row))
           C == Range(cell)
           X == Range(a.x_str)
           us == Append(rows, row)
           TT == Total(RecordSets(us))
<1>1. Ascending(L, T, R, C, n) /\ (td => Ascending(L, T, R, X, n))
  BY DEF LoadingState
<1>2. Less(T, R)
  BY <1>1 DEF Ascending
<1>3. us \in Seq(Seq(Seq(Nat))) /\ RecordsOrdered(us) /\ TT \subseteq T \cup R
  BY <1>2, RecordAdded DEF LoadingState
<1> HIDE DEF L, T, R, C, X, us, TT
<1>4. Ascending(L, TT, {}, C, n) /\ (td => Ascending(L, TT, {}, X, n))
  BY <1>1, <1>3, AscendingParts
<1> QED
  BY <1>3, <1>4, NothingYet DEF LoadingState, L, TT, R, C, X, us

Times(value, w) == [i \in 1..w |-> value]

\* Its value is the cell's text, or its x:str if there is no text.
LEMMA StateFinishedCell ==
  ASSUME NEW ts, NEW rows, NEW row, NEW cell, NEW a, NEW n \in Nat,
         LoadingState(ts, rows, row, cell, a, TRUE, n), NEW w \in Nat, w > 0,
         NEW value, value \in {cell, a.x_str}
  PROVE  LoadingState(ts, rows, row \o Times(value, w), <<>>, a, FALSE, n)
<1> DEFINE L == Total(LoadSets(ts))
           T == Total(RecordSets(rows))
           R == Total(PieceSets(row))
           C == Range(value)
           us == row \o Times(value, w)
           RR == Total(PieceSets(us))
<1>1. Ascending(L, T, R, C, n) /\ value \in Seq(Nat) /\ Increasing(value)
  BY DEF LoadingState
<1>2. Less(R, C)
  BY <1>1 DEF Ascending
<1>3. row \in Seq(Seq(Nat)) /\ ValuesOrdered(row)
  BY DEF LoadingState
<1>4. us \in Seq(Seq(Nat)) /\ ValuesOrdered(us) /\ RR \subseteq R \cup C
  BY <1>1, <1>2, <1>3, ValuesAdded DEF Times
<1> HIDE DEF L, T, R, C, us, RR
<1>5. Ascending(L, T, RR, {}, n)
  BY <1>1, <1>4, AscendingParts
<1> QED
  BY <1>4, <1>5, NothingYet DEF LoadingState, L, T, RR, us

LEMMA StateAddedText ==
  ASSUME NEW ts, NEW rows, NEW row, NEW cell, NEW a, NEW n \in Nat,
         LoadingState(ts, rows, row, cell, a, TRUE, n)
  PROVE  LoadingState(ts, rows, row, Append(cell, n + 1), a, TRUE, n + 1)
<1> DEFINE L == Total(LoadSets(ts))
           T == Total(RecordSets(rows))
           R == Total(PieceSets(row))
           C == Range(cell)
           X == Range(a.x_str)
           us == Append(cell, n + 1)
<1>1. Ascending(L, T, R, C, n) /\ Ascending(L, T, R, X, n)
  BY DEF LoadingState
<1>2. cell \in Seq(Nat) /\ Increasing(cell) /\ C \subseteq 1..n
  BY <1>1 DEF LoadingState, Ascending
<1>3. us \in Seq(Nat) /\ Increasing(us) /\ Range(us) \subseteq C \cup {n + 1}
  <2>1. Less(C, Range(<<n + 1>>)) /\ Range(<<n + 1>>) = {n + 1}
    <3>1. Range(<<n + 1>>) = {n + 1}
      BY DEF Range
    <3>2. \A x \in C : x < n + 1
      BY <1>2
    <3> QED BY <3>1, <3>2 DEF Less
  <2>2. <<n + 1>> \in Seq(Nat) /\ Increasing(<<n + 1>>)
    BY DEF Increasing
  <2>3. us = cell \o <<n + 1>>
    BY <1>2
  <2> HIDE DEF us
  <2> QED BY <1>2, <2>1, <2>2, <2>3, ConcatIncreasing
<1> HIDE DEF L, T, R, C, X, us
<1>4. n + 1 \in Nat /\ n <= n + 1
  OBVIOUS
<1>5. Ascending(L, T, R, Range(us), n + 1) /\ Ascending(L, T, R, X, n + 1)
  BY <1>1, <1>3, <1>4, AscendingMore
<1> QED
  BY <1>3, <1>5 DEF LoadingState, L, T, R, X, us


\* A cell that is closed at once; its value is its x:str.
LEMMA StateEmptyCell ==
  ASSUME NEW ts, NEW rows, NEW row, NEW cell, NEW a, NEW td, NEW n \in Nat,
         LoadingState(ts, rows, row, cell, a, td, n), NEW colspan \in Int,
         NEW w \in Nat, w > 0
  PROVE  /\ LoadingState(ts, rows, row \o Times(<<>>, w), <<>>,
                         [colspan |-> colspan, x_str |-> <<>>], FALSE, n)
         /\ LoadingState(ts, rows, row \o Times(<<n + 1>>, w), <<>>,
                         [colspan |-> colspan, x_str |-> <<n + 1>>], FALSE, n + 1)
<1> DEFINE none == [colspan |-> colspan, x_str |-> <<>>]
           some == [colspan |-> colspan, x_str |-> <<n + 1>>]
<1>1. /\ LoadingState(ts, rows, row, <<>>, none, TRUE, n)
      /\ LoadingState(ts, rows, row, <<>>, some, TRUE, n + 1)
  BY StateOpened
<1>2. /\ none.x_str = <<>> /\ some.x_str = <<n + 1>> /\ n + 1 \in Nat
  OBVIOUS
<1> HIDE DEF none, some
<1>3. LoadingState(ts, rows, row \o Times(<<>>, w), <<>>, none, FALSE, n)
  <2>1. <<>> \in {<<>>, none.x_str}
    OBVIOUS
  <2> QED BY <1>1, <2>1, StateFinishedCell
<1>4. LoadingState(ts, rows, row \o Times(<<n + 1>>, w), <<>>, some, FALSE, n + 1)
  <2>1. <<n + 1>> \in {<<>>, some.x_str}
    BY <1>2
  <2> QED BY <1>1, <1>2, <2>1, StateFinishedCell
<1> QED
  BY <1>3, <1>4 DEF none, some

-----------------------------------------------------------------------------
\* What is loaded, one token after the other.
Ready(n) == LoadingState(loaded, cur_table, cur_row, cur_cell, attrs, in_td, n)

LEMMA ReadOrdered ==
  ASSUME NEW t \in Tokens, NEW n \in Nat, Read(t, n + 1), Ready(n),
         in_td \in BOOLEAN, TokensAssumption
  PROVE  in_td' \in BOOLEAN /\ (Ready(n)' \/ (HasText(t) /\ Ready(n + 1)'))
<1> DEFINE Next1(ts, rows, row, cell, a, td) ==
             /\ loaded' = ts /\ cur_table' = rows /\ cur_row' = row
             /\ cur_cell' = cell /\ attrs' = a /\ in_td' = td
<1>1. ASSUME UNCHANGED <<loaded, cur_table, cur_row, cur_cell, attrs, in_td>>
      PROVE  in_td' \in BOOLEAN /\ Ready(n)'
  BY <1>1 DEF Ready
<1>2. CASE UNCHANGED collected
  BY <1>1, <1>2 DEF collected
<1>9. ASSUME FinishCell, in_td PROVE in_td' \in BOOLEAN /\ Ready(n)'
  <2>1. CASE UNCHANGED <<loaded, cur_table, cur_row, cur_cell, attrs, in_td>>
    BY <1>1, <2>1
  <2>2. CASE ~UNCHANGED <<loaded, cur_table, cur_row, cur_cell, attrs, in_td>>
    <3> DEFINE w == Width(attrs.colspan)
               value == IF cur_cell = <<>> THEN attrs.x_str ELSE cur_cell
    <3>1. Next1(loaded, cur_table, cur_row \o Times(value, w), <<>>, attrs, FALSE)
      BY <1>9, <2>2 DEF FinishCell, Fail, Repeated, Times
    <3>2. w \in Nat /\ w > 0 /\ value \in {cur_cell, attrs.x_str}
      BY DEF Width, Ready, LoadingState
    <3>3. LoadingState(loaded, cur_table, cur_row, cur_cell, attrs, TRUE, n)
      BY <1>9 DEF Ready
    <3> HIDE DEF w, value
    <3>4. LoadingState(loaded, cur_table, cur_row \o Times(value, w), <<>>,
                       attrs, FALSE, n)
      BY <3>2, <3>3, StateFinishedCell
    <3> QED BY <3>1, <3>4 DEF Ready
  <2> QED BY <2>1, <2>2
<1>3. CASE ~failed /\ t.kind = "start"
  <2>1. LoadStart(t, n + 1) /\ (t.tag = "td" => t.colspan \in Int /\ t.x_str \in BOOLEAN)
    BY <1>3, TokensAssumption
       DEF Read, Tokens, Cell, EmptyCellTag, TdTag, Start, Empty, End, Plain, Data, NotANumber, Tags
  <2>2. ASSUME BeginTable PROVE in_td' \in BOOLEAN /\ Ready(n)'
    <3>1. CASE level = 0
      <4>1. Next1(loaded, <<>>, cur_row, cur_cell, attrs, in_td)
        BY <2>2, <3>1 DEF BeginTable
      <4> QED BY <4>1, StateCleared DEF Ready
    <3>2. CASE level # 0
      BY <2>2, <3>2, <1>1 DEF BeginTable
    <3> QED BY <3>1, <3>2
  <2>3. ASSUME BeginRow PROVE in_td' \in BOOLEAN /\ Ready(n)'
    <3>1. Next1(loaded, cur_table, <<>>, cur_cell, attrs, in_td)
      BY <2>3 DEF BeginRow
    <3> QED BY <3>1, StateCleared DEF Ready
  <2>4. ASSUME BeginCell(t, n + 1), t.tag = "td"
        PROVE  in_td' \in BOOLEAN /\ (Ready(n)' \/ (HasText(t) /\ Ready(n + 1)'))
    <3>1. CASE t.x_str
      <4>1. Next1(loaded, cur_table, cur_row, <<>>,
                  [colspan |-> t.colspan, x_str |-> <<n + 1>>], TRUE)
        BY <2>4, <3>1 DEF BeginCell, AttrsOf
      <4>2. HasText(t)
        BY <1>3, <2>4, <3>1 DEF HasText
      <4> QED BY <2>1, <2>4, <4>1, <4>2, StateOpened DEF Ready
    <3>2. CASE ~t.x_str
      <4>1. Next1(loaded, cur_table, cur_row, <<>>,
                  [colspan |-> t.colspan, x_str |-> <<>>], TRUE)
        BY <2>4, <3>2 DEF BeginCell, AttrsOf
      <4> QED BY <2>1, <2>4, <4>1, StateOpened DEF Ready
    <3> QED BY <3>1, <3>2
  <2> QED
    BY <2>1, <2>2, <2>3, <2>4, <1>2 DEF LoadStart, Pass
<1>4. CASE ~failed /\ t.kind = "end"
  <2>1. LoadEnd(t)
    BY <1>4 DEF Read
  <2>2. ASSUME FinishTable PROVE in_td' \in BOOLEAN /\ Ready(n)'
    <3>1. CASE level = 1
      <4>1. Next1(Append(loaded, cur_table), <<>>, cur_row, cur_cell, attrs, in_td)
        BY <2>2, <3>1 DEF FinishTable
      <4> QED BY <4>1, StateFinishedTable DEF Ready
    <3>2. CASE level # 1
      BY <2>2, <3>2, <1>1 DEF FinishTable
    <3> QED BY <3>1, <3>2
  <2>3. ASSUME FinishRow PROVE in_td' \in BOOLEAN /\ Ready(n)'
    <3>1. Next1(loaded, Append(cur_table, cur_row), <<>>, cur_cell, attrs, in_td)
      BY <2>3 DEF FinishRow
    <3> QED BY <3>1, StateFinishedRow DEF Ready
  <2> QED
    BY <2>1, <2>2, <2>3, <1>9, <1>2 DEF LoadEnd, Pass
<1>5. CASE ~failed /\ t.kind = "empty"
  <2>1. LoadEmpty(t, n + 1) /\ (t.tag = "td" => t.colspan \in Int /\ t.x_str \in BOOLEAN)
    BY <1>5, TokensAssumption
       DEF Read, Tokens, Cell, EmptyCellTag, TdTag, Start, Empty, End, Plain, Data,
           NotANumber, Tags
  <2>2. ASSUME EmptyTable PROVE in_td' \in BOOLEAN /\ Ready(n)'
    <3>1. CASE level = 0
      <4>1. Next1(Append(loaded, <<>>), <<>>, cur_row, cur_cell, attrs, in_td)
        BY <2>2, <3>1 DEF EmptyTable
      <4>2. LoadingState(loaded, <<>>, cur_row, cur_cell, attrs, in_td, n)
        BY StateCleared DEF Ready
      <4> QED BY <4>1, <4>2, StateFinishedTable DEF Ready
    <3>2. CASE level # 0
      BY <2>2, <3>2, <1>1 DEF EmptyTable
    <3> QED BY <3>1, <3>2
  <2>3. ASSUME EmptyRow PROVE in_td' \in BOOLEAN /\ Ready(n)'
    <3>1. Next1(loaded, Append(cur_table, <<>>), <<>>, cur_cell, attrs, in_td)
      BY <2>3 DEF EmptyRow
    <3>2. LoadingState(loaded, cur_table, <<>>, cur_cell, attrs, in_td, n)
      BY StateCleared DEF Ready
    <3> QED BY <3>1, <3>2, StateFinishedRow DEF Ready
  <2>4. ASSUME EmptyCell(t, n + 1), t.tag = "td"
        PROVE  in_td' \in BOOLEAN /\ (Ready(n)' \/ (HasText(t) /\ Ready(n + 1)'))
    <3>1. CASE Unreadable(t.colspan)
      BY <2>4, <3>1, <1>1 DEF EmptyCell, Fail
    <3>2. CASE ~Unreadable(t.colspan)
      <4> DEFINE w == Width(t.colspan)
      <4>1. w \in Nat /\ w > 0
        BY <2>1, <2>4 DEF Width
      <4>2. CASE t.x_str
        <5>1. Next1(loaded, cur_table, cur_row \o Times(<<n + 1>>, w), <<>>,
                    [colspan |-> t.colspan, x_str |-> <<n + 1>>], FALSE)
          BY <2>4, <3>2, <4>2 DEF EmptyCell, AttrsOf, Repeated, Times
        <5>2. HasText(t)
          BY <1>5, <2>4, <4>2 DEF HasText
        <5> HIDE DEF w
        <5>3. Ready(n)
          OBVIOUS
        <5> QED BY <2>1, <2>4, <4>1, <5>1, <5>2, <5>3, StateEmptyCell DEF Ready
      <4>3. CASE ~t.x_str
        <5>1. Next1(loaded, cur_table, cur_row \o Times(<<>>, w), <<>>,
                    [colspan |-> t.colspan, x_str |-> <<>>], FALSE)
          BY <2>4, <3>2, <4>3 DEF EmptyCell, AttrsOf, Repeated, Times
        <5> HIDE DEF w
        <5> QED BY <2>1, <2>4, <4>1, <5>1, StateEmptyCell DEF Ready
      <4> QED BY <4>2, <4>3, <2>1, <2>4
    <3> QED BY <3>1, <3>2
  <2> QED
    BY <2>1, <2>2, <2>3, <2>4, <1>9, <1>2 DEF LoadEmpty, Pass
<1>6. CASE ~failed /\ t.kind = "data"
  <2>1. LoadData(n + 1) /\ HasText(t)
    BY <1>6 DEF Read, HasText
  <2>2. CASE in_td /\ level >= 1
    <3>1. Next1(loaded, cur_table, cur_row, Append(cur_cell, n + 1), attrs, TRUE)
      BY <2>1, <2>2 DEF LoadData
    <3>2. LoadingState(loaded, cur_table, cur_row, cur_cell, attrs, TRUE, n)
      BY <2>2 DEF Ready
    <3> QED BY <2>1, <3>1, <3>2, StateAddedText DEF Ready
  <2>3. CASE ~(in_td /\ level >= 1)
    BY <1>2, <2>1, <2>3 DEF LoadData, Pass
  <2> QED BY <2>2, <2>3
<1>7. CASE failed
  BY <1>2, <1>7 DEF Read, Pass
<1>8. t.kind \in {"start", "end", "empty", "data"}
  BY DEF Tokens, Start, Cell, EmptyCellTag, TdTag, End, Empty, Data, Plain
<1> QED BY <1>3, <1>4, <1>5, <1>6, <1>7, <1>8

LEMMA InitLoadingOrdered ==
  ASSUME Init PROVE LoadingOrdered
<1>1. /\ texts = 0 /\ loaded = <<>> /\ cur_table = <<>> /\ cur_row = <<>>
      /\ cur_cell = <<>> /\ attrs = [colspan |-> 1, x_str |-> <<>>] /\ in_td = FALSE
  BY DEF Init, LoadingInit
<1>2. Ascending({}, {}, {}, {}, 0)
  BY DEF Ascending, Less
<1>3. LoadingState(<<>>, <<>>, <<>>, <<>>, [colspan |-> 1, x_str |-> <<>>], FALSE, 0)
  <2> DEFINE none == [colspan |-> 1, x_str |-> <<>>]
  <2>1. none \in [colspan : Int, x_str : Seq(Nat)] /\ none.x_str = <<>>
    OBVIOUS
  <2> HIDE DEF none
  <2>2. LoadingState(<<>>, <<>>, <<>>, <<>>, none, FALSE, 0)
    BY <1>2, <2>1, NothingYet DEF LoadingState
  <2> QED BY <2>2 DEF none
<1> QED
  BY <1>1, <1>3 DEF LoadingOrdered

LEMMA TokenLoadingOrdered ==
  ASSUME NEW t \in Tokens, Token(t), LoadingOrdered, TokensAssumption
  PROVE  LoadingOrdered'
<1>1. /\ texts \in Nat /\ Read(t, texts + 1) /\ texts' \in Nat /\ texts <= texts'
      /\ HasText(t) => texts' = texts + 1
      /\ in_td \in BOOLEAN
  BY DEF Token, LoadingOrdered
<1> DEFINE Then(n) == LoadingState(loaded', cur_table', cur_row', cur_cell', attrs', in_td', n)
<1>2. in_td' \in BOOLEAN /\ (Then(texts) \/ (HasText(t) /\ Then(texts + 1)))
  <2>1. PICK n \in Nat : n = texts
    BY <1>1
  <2>2. in_td' \in BOOLEAN /\ (Ready(n)' \/ (HasText(t) /\ Ready(n + 1)'))
    BY <1>1, <2>1, ReadOrdered DEF LoadingOrdered, Ready
  <2> QED BY <2>1, <2>2 DEF Ready
<1>3. Then(texts')
  BY <1>1, <1>2, StateMonotone
<1> QED
  BY <1>1, <1>2, <1>3 DEF LoadingOrdered

LEMMA LoadedInOrder ==
  ASSUME LoadingOrdered PROVE Increasing(LoadedTexts)
<1> DEFINE L == Total(LoadSets(loaded))
           T == Total(RecordSets(cur_table))
           R == Total(PieceSets(cur_row))
           C == Range(cur_cell)
           l == FlattenSeq([k \in DOMAIN loaded |-> TableTexts(loaded[k])])
           m == TableTexts(cur_table)
           r == IF in_tr THEN RowTexts(cur_row) ELSE <<>>
           c == IF in_td THEN cur_cell ELSE <<>>
<1>1. Ascending(L, T, R, C, texts)
  BY DEF LoadingOrdered, LoadingState
<1>2. l \in Seq(Nat) /\ Increasing(l) /\ Range(l) \subseteq L
  BY OrderedLoads DEF LoadingOrdered, LoadingState
<1>3. m \in Seq(Nat) /\ Increasing(m) /\ Range(m) \subseteq T
  BY OrderedRecords DEF LoadingOrdered, LoadingState
<1>4. r \in Seq(Nat) /\ Increasing(r) /\ Range(r) \subseteq R
  <2>1. /\ RowTexts(cur_row) \in Seq(Nat) /\ Increasing(RowTexts(cur_row))
        /\ Range(RowTexts(cur_row)) \subseteq R
    BY OrderedValues DEF LoadingOrdered, LoadingState
  <2> HIDE DEF R
  <2> QED BY <2>1, NothingYet
<1>5. c \in Seq(Nat) /\ Increasing(c) /\ Range(c) \subseteq C
  <2>1. cur_cell \in Seq(Nat) /\ Increasing(cur_cell)
    BY DEF LoadingOrdered, LoadingState
  <2> QED BY <2>1, NothingYet
<1>6. LoadedTexts = l \o m \o r \o c
  BY DEF LoadedTexts
<1> HIDE DEF L, T, R, C, l, m, r, c
<1>7. Less(Range(l), Range(m))
  BY <1>1, <1>2, <1>3 DEF Ascending, Less
<1>8. /\ l \o m \in Seq(Nat) /\ Increasing(l \o m)
      /\ Range(l \o m) \subseteq Range(l) \cup Range(m)
  BY <1>2, <1>3, <1>7, ConcatIncreasing
<1>9. Less(Range(l \o m), Range(r))
  BY <1>1, <1>2, <1>3, <1>4, <1>8 DEF Ascending, Less
<1>10. /\ l \o m \o r \in Seq(Nat) /\ Increasing(l \o m \o r)
       /\ Range(l \o m \o r) \subseteq Range(l \o m) \cup Range(r)
  <2> DEFINE s == l \o m
  <2>1. s \in Seq(Nat) /\ Increasing(s) /\ Less(Range(s), Range(r))
    BY <1>8, <1>9
  <2> HIDE DEF s
  <2>2. /\ s \o r \in Seq(Nat) /\ Increasing(s \o r)
        /\ Range(s \o r) \subseteq Range(s) \cup Range(r)
    BY <1>4, <2>1, ConcatIncreasing
  <2> QED BY <2>2 DEF s
<1>11. Less(Range(l \o m \o r), Range(c))
  BY <1>1, <1>2, <1>3, <1>4, <1>5, <1>8, <1>10 DEF Ascending, Less
<1>12. Increasing(l \o m \o r \o c)
  <2> DEFINE s == l \o m \o r
  <2>1. s \in Seq(Nat) /\ Increasing(s) /\ Less(Range(s), Range(c))
    BY <1>10, <1>11
  <2> HIDE DEF s
  <2>2. Increasing(s \o c)
    BY <1>5, <2>1, ConcatIncreasing
  <2> QED BY <2>2 DEF s
<1> QED
  BY <1>6, <1>12

-----------------------------------------------------------------------------
\* Widths: what is loaded of a cell stands in the columns the cell spans.
AllSpanned(ts, rows, row, ws) ==
  /\ \A k \in DOMAIN ts : SpannedRows(ts[k], ws)
  /\ SpannedRows(rows, ws) /\ Spanned(row, ws)

OfWidth(value, ws, w) == \A x \in Range(value) : x \in DOMAIN ws /\ ws[x] = w

\* The texts of the open cell have its width.
SpansState(ts, rows, row, cell, a, td, ws) ==
  /\ AllSpanned(ts, rows, row, ws)
  /\ td => /\ OfWidth(cell, ws, Width(a.colspan))
           /\ OfWidth(a.x_str, ws, Width(a.colspan))

SpansInv ==
  /\ widths \in Seq(Nat) /\ Len(widths) = texts
  /\ SpansState(loaded, cur_table, cur_row, cur_cell, attrs, in_td, widths)

\* ws goes on as vs does.
Longer(ws, vs) == DOMAIN ws \subseteq DOMAIN vs /\ \A x \in DOMAIN ws : vs[x] = ws[x]

LEMMA SpansLonger ==
  ASSUME NEW ts, NEW rows, NEW row, NEW ws, NEW vs, Longer(ws, vs)
  PROVE  /\ AllSpanned(ts, rows, row, ws) => AllSpanned(ts, rows, row, vs)
         /\ \A value, w : OfWidth(value, ws, w) => OfWidth(value, vs, w)
<1>1. ASSUME NEW r, Spanned(r, ws) PROVE Spanned(r, vs)
  <2> SUFFICES ASSUME NEW i \in DOMAIN r, r[i] # <<>>
               PROVE  /\ Head(r[i]) \in DOMAIN vs
                      /\ \E a \in DOMAIN r :
                           {j \in DOMAIN r : r[j] = r[i]} = a..(a + vs[Head(r[i])] - 1)
    BY DEF Spanned
  <2>1. /\ Head(r[i]) \in DOMAIN ws
        /\ \E a \in DOMAIN r :
             {j \in DOMAIN r : r[j] = r[i]} = a..(a + ws[Head(r[i])] - 1)
    BY <1>1 DEF Spanned
  <2> QED BY <2>1 DEF Longer
<1>2. ASSUME NEW rs, SpannedRows(rs, ws) PROVE SpannedRows(rs, vs)
  BY <1>1, <1>2 DEF SpannedRows
<1>3. AllSpanned(ts, rows, row, ws) => AllSpanned(ts, rows, row, vs)
  BY <1>1, <1>2 DEF AllSpanned
<1>4. \A value, w : OfWidth(value, ws, w) => OfWidth(value, vs, w)
  BY DEF OfWidth, Longer
<1> QED BY <1>3, <1>4

LEMMA NothingSpanned ==
  \A ws : Spanned(<<>>, ws) /\ SpannedRows(<<>>, ws)
BY DEF Spanned, SpannedRows

\* The value of a finished cell is no other cell's.
LEMMA ValueIsNew ==
  ASSUME NEW row \in Seq(Seq(Nat)), NEW ws \in Seq(Nat), Spanned(row, ws),
         NEW value \in Seq(Nat), value # <<>>,
         Less(Total(PieceSets(row)), Range(value)), NEW i \in DOMAIN row
  PROVE  row[i] # value
<1>1. PICK n \in Nat : DOMAIN row = 1..n
  BY LenProperties
<1>2. PICK h \in Nat : h = Head(value) /\ h \in Range(value)
  <2>1. 1 \in DOMAIN value /\ Head(value) = value[1] /\ value[1] \in Nat
    OBVIOUS
  <2> QED BY <2>1 DEF Range
<1> SUFFICES ASSUME row[i] = value PROVE FALSE
  OBVIOUS
<1>3. h \in DOMAIN ws
  BY <1>2 DEF Spanned
<1>4. PICK w \in Nat : w = ws[h]
  BY <1>3
<1>5. PICK a \in 1..n : {j \in 1..n : row[j] = value} = a..(a + w - 1)
  BY <1>1, <1>2, <1>4 DEF Spanned
<1>6. i \in a..(a + w - 1) /\ i \in 1..n
  BY <1>1, <1>5
<1>7. a \in a..(a + w - 1) /\ a - 1 \notin a..(a + w - 1)
  BY <1>6
<1>8. row[a] = value
  BY <1>5, <1>7
<1>9. a > 1 => row[a - 1] # row[a]
  <2>1. a > 1 => a - 1 \in 1..n
    OBVIOUS
  <2> QED BY <1>5, <1>7, <1>8, <2>1
<1>10. Range(value) \subseteq Total(PieceSets(row))
  <2>1. PieceSets(row)[a] = Range(value) /\ a \in DOMAIN PieceSets(row)
    BY <1>1, <1>8, <1>9 DEF PieceSets
  <2> QED BY <2>1 DEF Total
<1>11. h < h
  BY <1>2, <1>10 DEF Less
<1> QED BY <1>11

LEMMA SpannedAdded ==
  ASSUME NEW row \in Seq(Seq(Nat)), NEW ws \in Seq(Nat), Spanned(row, ws),
         NEW value \in Seq(Nat), NEW w \in Nat, w > 0,
         value # <<>> =>
           /\ Head(value) \in DOMAIN ws /\ ws[Head(value)] = w
           /\ \A i \in DOMAIN row : row[i] # value
  PROVE  Spanned(row \o Times(value, w), ws)
<1> DEFINE n == Len(row)
           new == Times(value, w)
           us == row \o new
<1>1. new \in Seq(Seq(Nat)) /\ Len(new) = w /\ \A i \in 1..w : new[i] = value
  BY DEF Times
<1> HIDE DEF new
<1>2. /\ n \in Nat /\ DOMAIN row = 1..n /\ DOMAIN us = 1..(n + w)
      /\ \A i \in 1..(n + w) : us[i] = IF i <= n THEN row[i] ELSE new[i - n]
  <2>1. /\ us \in Seq(Seq(Nat)) /\ Len(us) = Len(row) + Len(new)
        /\ \A i \in 1..(Len(row) + Len(new)) :
             us[i] = IF i <= Len(row) THEN row[i] ELSE new[i - Len(row)]
    BY <1>1, ConcatProperties
  <2>2. Len(row) \in Nat /\ DOMAIN row = 1..Len(row)
    OBVIOUS
  <2> HIDE DEF us
  <2>3. DOMAIN us = 1..Len(us)
    BY <2>1
  <2> QED BY <1>1, <2>1, <2>2, <2>3
<1> HIDE DEF us, n
<1>3. \A i \in 1..(n + w) : /\ i <= n => i \in 1..n /\ us[i] = row[i]
                            /\ i > n => us[i] = value
  <2> TAKE i \in 1..(n + w)
  <2>1. i <= n => i \in 1..n
    BY <1>2
  <2>2. i > n => i - n \in 1..w
    BY <1>2
  <2> QED BY <1>1, <1>2, <2>1, <2>2
<1>4. \A i \in 1..(n + w) : i <= n \/ i > n
  BY <1>2
<1>5. 1..n \subseteq 1..(n + w)
  BY <1>2
<1>6. ASSUME NEW i \in 1..n, row[i] # <<>>
      PROVE  /\ Head(row[i]) \in DOMAIN ws
             /\ \E a \in 1..(n + w) :
                  {j \in 1..(n + w) : us[j] = row[i]} = a..(a + ws[Head(row[i])] - 1)
  <2>1. /\ Head(row[i]) \in DOMAIN ws
        /\ \E a \in 1..n : {j \in 1..n : row[j] = row[i]} = a..(a + ws[Head(row[i])] - 1)
    BY <1>2, <1>6 DEF Spanned
  <2>2. row[i] # value
    BY <1>2, <1>6
  <2>3. \A j \in 1..(n + w) : us[j] = row[i] <=> j \in 1..n /\ row[j] = row[i]
    <3> TAKE j \in 1..(n + w)
    <3>1. CASE j <= n
      BY <1>3, <3>1
    <3>2. CASE j > n
      <4>1. j \notin 1..n
        BY <1>2, <3>2
      <4> QED BY <1>3, <2>2, <3>2, <4>1
    <3> QED BY <1>4, <3>1, <3>2
  <2>4. {j \in 1..(n + w) : us[j] = row[i]} = {j \in 1..n : row[j] = row[i]}
    BY <1>5, <2>3
  <2> QED BY <1>5, <2>1, <2>4
<1>7. ASSUME value # <<>>
      PROVE  /\ Head(value) \in DOMAIN ws
             /\ \E a \in 1..(n + w) :
                  {j \in 1..(n + w) : us[j] = value} = a..(a + ws[Head(value)] - 1)
  <2>1. /\ Head(value) \in DOMAIN ws /\ ws[Head(value)] = w
        /\ \A i \in 1..n : row[i] # value
    BY <1>2, <1>7
  <2>2. \A j \in 1..(n + w) : us[j] = value <=> j > n
    <3> TAKE j \in 1..(n + w)
    <3>1. CASE j <= n
      <4>1. us[j] # value /\ ~(j > n)
        BY <1>2, <1>3, <2>1, <3>1
      <4> QED BY <4>1
    <3>2. CASE j > n
      BY <1>3, <3>2
    <3> QED BY <1>4, <3>1, <3>2
  <2>3. \A j : j \in 1..(n + w) /\ j > n <=> j \in (n + 1)..(n + w)
    BY <1>2
  <2>4. {j \in 1..(n + w) : us[j] = value} = (n + 1)..(n + w)
    BY <2>2, <2>3
  <2>5. n + 1 \in 1..(n + w) /\ (n + 1) + w - 1 = n + w
    BY <1>2
  <2> QED BY <2>1, <2>4, <2>5
<1>8. Spanned(us, ws)
  <2> SUFFICES ASSUME NEW i \in 1..(n + w), us[i] # <<>>
               PROVE  /\ Head(us[i]) \in DOMAIN ws
                      /\ \E a \in 1..(n + w) :
                           {j \in 1..(n + w) : us[j] = us[i]}
                             = a..(a + ws[Head(us[i])] - 1)
    BY <1>2 DEF Spanned
  <2>1. CASE i <= n
    <3>1. i \in 1..n /\ us[i] = row[i]
      BY <1>3, <2>1
    <3> QED BY <1>6, <3>1
  <2>2. CASE i > n
    <3>1. us[i] = value
      BY <1>3, <2>2
    <3> QED BY <1>7, <3>1
  <2> QED BY <1>4, <2>1, <2>2
<1> QED
  BY <1>8 DEF us, new

LEMMA SpansFinished ==
  ASSUME NEW ts \in Seq(Seq(Seq(Seq(Nat)))), NEW rows \in Seq(Seq(Seq(Nat))),
         NEW row \in Seq(Seq(Nat)), NEW ws, AllSpanned(ts, rows, row, ws)
  PROVE  /\ AllSpanned(ts, <<>>, row, ws) /\ AllSpanned(ts, rows, <<>>, ws)
         /\ AllSpanned(Append(ts, rows), <<>>, row, ws)
         /\ AllSpanned(Append(ts, <<>>), <<>>, row, ws)
         /\ AllSpanned(ts, Append(rows, row), <<>>, ws)
         /\ AllSpanned(ts, Append(rows, <<>>), <<>>, ws)
<1>1. /\ \A k \in DOMAIN ts : SpannedRows(ts[k], ws)
      /\ SpannedRows(rows, ws) /\ Spanned(row, ws)
      /\ SpannedRows(<<>>, ws) /\ Spanned(<<>>, ws)
  BY NothingSpanned DEF AllSpanned
<1>2. ASSUME NEW rs \in Seq(Seq(Seq(Nat))), SpannedRows(rs, ws)
      PROVE  \A k \in DOMAIN Append(ts, rs) : SpannedRows(Append(ts, rs)[k], ws)
  <2>1. /\ DOMAIN ts = 1..Len(ts) /\ Len(ts) \in Nat
        /\ DOMAIN Append(ts, rs) = 1..(Len(ts) + 1)
        /\ Append(ts, rs)[Len(ts) + 1] = rs
        /\ \A k \in 1..Len(ts) : Append(ts, rs)[k] = ts[k]
    BY AppendProperties
  <2>2. \A k \in 1..(Len(ts) + 1) : k \in 1..Len(ts) \/ k = Len(ts) + 1
    BY <2>1
  <2> QED BY <1>1, <1>2, <2>1, <2>2
<1>3. ASSUME NEW r \in Seq(Seq(Nat)), Spanned(r, ws)
      PROVE  SpannedRows(Append(rows, r), ws)
  <2>1. /\ DOMAIN rows = 1..Len(rows) /\ Len(rows) \in Nat
        /\ DOMAIN Append(rows, r) = 1..(Len(rows) + 1)
        /\ Append(rows, r)[Len(rows) + 1] = r
        /\ \A k \in 1..Len(rows) : Append(rows, r)[k] = rows[k]
    BY AppendProperties
  <2>2. \A n \in Nat : \A k \in 1..(n + 1) : k \in 1..n \/ k = n + 1
    OBVIOUS
  <2> QED BY <1>1, <1>3, <2>1, <2>2 DEF SpannedRows
<1>4. <<>> \in Seq(Seq(Nat)) /\ <<>> \in Seq(Seq(Seq(Nat)))
  BY NothingYet
<1>5. AllSpanned(ts, <<>>, row, ws) /\ AllSpanned(ts, rows, <<>>, ws)
  BY <1>1 DEF AllSpanned
<1>6. AllSpanned(Append(ts, rows), <<>>, row, ws)
  BY <1>1, <1>2 DEF AllSpanned
<1>7. AllSpanned(Append(ts, <<>>), <<>>, row, ws)
  BY <1>1, <1>2, <1>4 DEF AllSpanned
<1>8. AllSpanned(ts, Append(rows, row), <<>>, ws)
  BY <1>1, <1>3 DEF AllSpanned
<1>9. AllSpanned(ts, Append(rows, <<>>), <<>>, ws)
  BY <1>1, <1>3, <1>4 DEF AllSpanned
<1> QED BY <1>5, <1>6, <1>7, <1>8, <1>9

\* What a token does to the widths of texts, when they are ws afterwards.
Held(ws) == SpansState(loaded, cur_table, cur_row, cur_cell, attrs, in_td, ws)

LEMMA ReadSpans ==
  ASSUME NEW t \in Tokens, NEW n \in Nat, Read(t, n + 1), Ready(n),
         NEW ws \in Seq(Nat), Len(ws) = n, NEW vs \in Seq(Nat),
         vs = IF HasText(t) THEN Append(ws, Width(SpanOf(t))) ELSE ws,
         Held(ws), TokensAssumption
  PROVE  SpansState(loaded', cur_table', cur_row', cur_cell', attrs', in_td', vs)
<1> DEFINE Next1(ts, rows, row, cell, a, td) ==
             /\ loaded' = ts /\ cur_table' = rows /\ cur_row' = row
             /\ cur_cell' = cell /\ attrs' = a /\ in_td' = td
           Goal == SpansState(loaded', cur_table', cur_row', cur_cell', attrs', in_td', vs)
<1>1. /\ loaded \in Seq(Seq(Seq(Seq(Nat)))) /\ cur_table \in Seq(Seq(Seq(Nat)))
      /\ cur_row \in Seq(Seq(Nat)) /\ cur_cell \in Seq(Nat)
      /\ attrs \in [colspan : Int, x_str : Seq(Nat)]
  BY DEF Ready, LoadingState
<1>2. /\ Longer(ws, vs)
      /\ HasText(t) => n + 1 \in DOMAIN vs /\ vs[n + 1] = Width(SpanOf(t))
  <2>1. DOMAIN ws = 1..n
    BY LenProperties
  <2>2. CASE HasText(t)
    <3>1. /\ DOMAIN vs = 1..(n + 1) /\ vs[n + 1] = Width(SpanOf(t))
          /\ \A x \in 1..n : vs[x] = ws[x]
      BY <2>1, <2>2
    <3>2. 1..n \subseteq 1..(n + 1) /\ n + 1 \in 1..(n + 1)
      OBVIOUS
    <3> QED BY <2>1, <3>1, <3>2 DEF Longer
  <2>3. CASE ~HasText(t)
    BY <2>3 DEF Longer
  <2> QED BY <2>2, <2>3
<1>3. /\ AllSpanned(loaded, cur_table, cur_row, vs)
      /\ in_td => /\ OfWidth(cur_cell, vs, Width(attrs.colspan))
                  /\ OfWidth(attrs.x_str, vs, Width(attrs.colspan))
  BY <1>2, SpansLonger DEF Held, SpansState
<1>4. ASSUME UNCHANGED <<loaded, cur_table, cur_row, cur_cell, attrs, in_td>> PROVE Goal
  BY <1>3, <1>4 DEF SpansState
<1>5. CASE UNCHANGED collected
  BY <1>4, <1>5 DEF collected
<1>6. ASSUME AllSpanned(loaded', cur_table', cur_row', vs),
             UNCHANGED <<cur_cell, attrs, in_td>>
      PROVE  Goal
  BY <1>3, <1>6 DEF SpansState
<1>7. ASSUME AllSpanned(loaded', cur_table', cur_row', vs), in_td' = FALSE
      PROVE  Goal
  BY <1>7 DEF SpansState
<1>8. /\ AllSpanned(loaded, <<>>, cur_row, vs) /\ AllSpanned(loaded, cur_table, <<>>, vs)
      /\ AllSpanned(Append(loaded, cur_table), <<>>, cur_row, vs)
      /\ AllSpanned(Append(loaded, <<>>), <<>>, cur_row, vs)
      /\ AllSpanned(loaded, Append(cur_table, cur_row), <<>>, vs)
      /\ AllSpanned(loaded, Append(cur_table, <<>>), <<>>, vs)
  BY <1>1, <1>3, SpansFinished
<1>9. ASSUME FinishCell, in_td PROVE Goal
  <2>1. CASE Fail
    BY <1>4, <2>1 DEF Fail
  <2>2. CASE ~Fail
    <3> DEFINE w == Width(attrs.colspan)
               value == IF cur_cell = <<>> THEN attrs.x_str ELSE cur_cell
    <3>1. Next1(loaded, cur_table, cur_row \o Times(value, w), <<>>, attrs, FALSE)
      BY <1>9, <2>2 DEF FinishCell, Repeated, Times
    <3>2. w \in Nat /\ w > 0 /\ value \in Seq(Nat) /\ value \in {cur_cell, attrs.x_str}
      BY <1>1 DEF Width
    <3>3. OfWidth(value, vs, w)
      BY <1>3, <1>9
    <3>4. Less(Total(PieceSets(cur_row)), Range(value))
      BY <1>9, <3>2 DEF Ready, LoadingState, Ascending
    <3> HIDE DEF w, value
    <3>5. Spanned(cur_row, vs)
      BY <1>3 DEF AllSpanned
    <3>6. ASSUME value # <<>>
          PROVE  /\ Head(value) \in DOMAIN vs /\ vs[Head(value)] = w
                 /\ \A i \in DOMAIN cur_row : cur_row[i] # value
      <4>1. Head(value) \in Range(value)
        <5>1. 1 \in DOMAIN value /\ Head(value) = value[1]
          BY <3>2, <3>6
        <5> QED BY <5>1 DEF Range
      <4>2. \A i \in DOMAIN cur_row : cur_row[i] # value
        BY <1>1, <3>2, <3>4, <3>5, <3>6, ValueIsNew
      <4> QED BY <3>3, <4>1, <4>2 DEF OfWidth
    <3>7. Spanned(cur_row \o Times(value, w), vs)
      BY <1>1, <3>2, <3>5, <3>6, SpannedAdded
    <3>8. AllSpanned(loaded', cur_table', cur_row', vs)
      BY <1>3, <3>1, <3>7 DEF AllSpanned
    <3> QED BY <1>7, <3>1, <3>8
  <2> QED BY <2>1, <2>2
<1>10. CASE ~failed /\ t.kind = "start"
  <2>1. LoadStart(t, n + 1) /\ (t.tag = "td" => t.colspan \in Int /\ t.x_str \in BOOLEAN)
    BY <1>10, TokensAssumption
       DEF Read, Tokens, Cell, EmptyCellTag, TdTag, Start, Empty, End, Plain, Data,
           NotANumber, Tags
  <2>2. ASSUME BeginTable PROVE Goal
    BY <1>3, <1>6, <1>8, <2>2 DEF BeginTable
  <2>3. ASSUME BeginRow PROVE Goal
    BY <1>3, <1>6, <1>8, <2>3 DEF BeginRow
  <2>4. ASSUME BeginCell(t, n + 1), t.tag = "td" PROVE Goal
    <3>1. /\ UNCHANGED <<loaded, cur_table, cur_row>>
          /\ cur_cell' = <<>> /\ attrs'.colspan = t.colspan
          /\ attrs'.x_str = IF t.x_str THEN <<n + 1>> ELSE <<>>
      BY <2>4 DEF BeginCell, AttrsOf
    <3>2. OfWidth(<<>>, vs, Width(t.colspan))
      BY NothingYet DEF OfWidth
    <3>3. t.x_str => OfWidth(<<n + 1>>, vs, Width(t.colspan))
      <4>1. t.x_str => HasText(t) /\ SpanOf(t) = t.colspan
        BY <1>10, <2>4 DEF HasText, SpanOf
      <4>2. Range(<<n + 1>>) = {n + 1}
        BY DEF Range
      <4> QED BY <1>2, <4>1, <4>2 DEF OfWidth
    <3>4. OfWidth(cur_cell', vs, Width(attrs'.colspan))
      BY <3>1, <3>2
    <3>5. OfWidth(attrs'.x_str, vs, Width(attrs'.colspan))
      BY <2>1, <2>4, <3>1, <3>2, <3>3
    <3> QED BY <1>3, <3>1, <3>4, <3>5 DEF SpansState
  <2> QED
    BY <2>1, <2>2, <2>3, <2>4, <1>5 DEF LoadStart, Pass
<1>11. CASE ~failed /\ t.kind = "end"
  <2>1. LoadEnd(t)
    BY <1>11 DEF Read
  <2>2. ASSUME FinishTable PROVE Goal
    BY <1>3, <1>6, <1>8, <2>2 DEF FinishTable
  <2>3. ASSUME FinishRow PROVE Goal
    BY <1>6, <1>8, <2>3 DEF FinishRow
  <2> QED
    BY <2>1, <2>2, <2>3, <1>9, <1>5 DEF LoadEnd, Pass
<1>12. CASE ~failed /\ t.kind = "empty"
  <2>1. LoadEmpty(t, n + 1) /\ (t.tag = "td" => t.colspan \in Int /\ t.x_str \in BOOLEAN)
    BY <1>12, TokensAssumption
       DEF Read, Tokens, Cell, EmptyCellTag, TdTag, Start, Empty, End, Plain, Data,
           NotANumber, Tags
  <2>2. ASSUME EmptyTable PROVE Goal
    BY <1>3, <1>6, <1>8, <2>2 DEF EmptyTable
  <2>3. ASSUME EmptyRow PROVE Goal
    BY <1>6, <1>8, <2>3 DEF EmptyRow
  <2>4. ASSUME EmptyCell(t, n + 1), t.tag = "td" PROVE Goal
    <3>1. CASE Unreadable(t.colspan)
      BY <1>4, <2>4, <3>1 DEF EmptyCell, Fail
    <3>2. CASE ~Unreadable(t.colspan)
      <4> DEFINE w == Width(t.colspan)
                 value == IF t.x_str THEN <<n + 1>> ELSE <<>>
      <4>1. /\ loaded' = loaded /\ cur_table' = cur_table /\ in_td' = FALSE
            /\ cur_row' = cur_row \o Times(value, w)
        BY <2>4, <3>2 DEF EmptyCell, AttrsOf, Repeated, Times
      <4>2. w \in Nat /\ w > 0 /\ value \in Seq(Nat)
        BY <2>1, <2>4 DEF Width
      <4>3. value # <<>> => value = <<n + 1>> /\ vs[n + 1] = w /\ n + 1 \in DOMAIN vs
        <5>1. t.x_str => HasText(t) /\ SpanOf(t) = t.colspan
          BY <1>12, <2>4 DEF HasText, SpanOf
        <5> QED BY <1>2, <5>1
      <4> HIDE DEF w, value
      <4>4. Spanned(cur_row, ws) /\ Spanned(cur_row, vs)
        BY <1>3 DEF AllSpanned, Held, SpansState
      <4>5. \A i \in DOMAIN cur_row : cur_row[i] # <<n + 1>>
        <5> SUFFICES ASSUME NEW i \in DOMAIN cur_row, cur_row[i] = <<n + 1>>
                     PROVE  FALSE
          OBVIOUS
        <5>1. Head(<<n + 1>>) = n + 1 /\ <<n + 1>> # <<>>
          OBVIOUS
        <5>2. n + 1 \in DOMAIN ws
          BY <4>4, <5>1 DEF Spanned
        <5>3. DOMAIN ws = 1..n
          BY LenProperties
        <5> QED BY <5>2, <5>3
      <4>6. value # <<>> =>
              /\ Head(value) \in DOMAIN vs /\ vs[Head(value)] = w
              /\ \A i \in DOMAIN cur_row : cur_row[i] # value
        <5>1. Head(<<n + 1>>) = n + 1
          OBVIOUS
        <5> QED BY <4>3, <4>5, <5>1
      <4>7. Spanned(cur_row \o Times(value, w), vs)
        BY <1>1, <4>2, <4>4, <4>6, SpannedAdded
      <4>8. AllSpanned(loaded', cur_table', cur_row', vs)
        BY <1>3, <4>1, <4>7 DEF AllSpanned
      <4> QED BY <1>7, <4>1, <4>8
    <3> QED BY <3>1, <3>2
  <2> QED
    BY <2>1, <2>2, <2>3, <2>4, <1>9, <1>5 DEF LoadEmpty, Pass
<1>13. CASE ~failed /\ t.kind = "data"
  <2>1. LoadData(n + 1) /\ HasText(t) /\ SpanOf(t) = attrs.colspan
    BY <1>13 DEF Read, HasText, SpanOf
  <2>2. CASE in_td /\ level >= 1
    <3>1. /\ UNCHANGED <<loaded, cur_table, cur_row, attrs, in_td>>
          /\ cur_cell' = Append(cur_cell, n + 1)
      BY <2>1, <2>2 DEF LoadData
    <3>2. OfWidth(cur_cell', vs, Width(attrs.colspan))
      <4>1. \A x \in Range(Append(cur_cell, n + 1)) : x \in Range(cur_cell) \/ x = n + 1
        <5>1. /\ DOMAIN cur_cell = 1..Len(cur_cell) /\ Len(cur_cell) \in Nat
              /\ DOMAIN Append(cur_cell, n + 1) = 1..(Len(cur_cell) + 1)
              /\ Append(cur_cell, n + 1)[Len(cur_cell) + 1] = n + 1
              /\ \A k \in 1..Len(cur_cell) : Append(cur_cell, n + 1)[k] = cur_cell[k]
          BY <1>1, AppendProperties
        <5>2. \A m \in Nat : \A k \in 1..(m + 1) : k \in 1..m \/ k = m + 1
          OBVIOUS
        <5> QED BY <5>1, <5>2 DEF Range
      <4>2. OfWidth(cur_cell, vs, Width(attrs.colspan))
        BY <1>3, <2>2
      <4>3. n + 1 \in DOMAIN vs /\ vs[n + 1] = Width(attrs.colspan)
        BY <1>2, <2>1
      <4> QED BY <3>1, <4>1, <4>2, <4>3 DEF OfWidth
    <3> QED BY <1>3, <2>2, <3>1, <3>2 DEF SpansState
  <2>3. CASE ~(in_td /\ level >= 1)
    BY <1>5, <2>1, <2>3 DEF LoadData, Pass
  <2> QED BY <2>2, <2>3
<1>14. CASE failed
  BY <1>5, <1>14 DEF Read, Pass
<1>15. t.kind \in {"start", "end", "empty", "data"}
  BY DEF Tokens, Start, Cell, EmptyCellTag, TdTag, End, Empty, Data, Plain
<1> QED BY <1>10, <1>11, <1>12, <1>13, <1>14, <1>15

LEMMA TokenSpans ==
  ASSUME NEW t \in Tokens, Token(t), LoadingOrdered, SpansInv, TokensAssumption
  PROVE  SpansInv'
<1>1. /\ texts \in Nat /\ Read(t, texts + 1)
      /\ texts' = IF HasText(t) THEN texts + 1 ELSE texts
      /\ widths' = IF HasText(t) THEN Append(widths, Width(SpanOf(t))) ELSE widths
      /\ widths \in Seq(Nat) /\ Len(widths) = texts /\ Held(widths)
  BY DEF Token, LoadingOrdered, SpansInv, Held
<1>2. HasText(t) => Width(SpanOf(t)) \in Nat
  <2>1. attrs.colspan \in Int
    BY DEF LoadingOrdered, LoadingState
  <2>2. HasText(t) => SpanOf(t) \in Int
    BY <2>1, TokensAssumption
       DEF HasText, SpanOf, Tokens, Cell, EmptyCellTag, TdTag, Start, Empty, End,
           Plain, Data, NotANumber, Tags
  <2> QED BY <2>2 DEF Width
<1>3. widths' \in Seq(Nat) /\ Len(widths') = texts'
  BY <1>1, <1>2
<1>4. SpansState(loaded', cur_table', cur_row', cur_cell', attrs', in_td', widths')
  <2>1. PICK n \in Nat : n = texts
    BY <1>1
  <2>2. PICK vs \in Seq(Nat) : vs = widths'
    BY <1>3
  <2>3. PICK ws \in Seq(Nat) : ws = widths
    BY <1>1
  <2>4. Ready(n)
    BY <2>1 DEF LoadingOrdered, Ready
  <2>5. vs = IF HasText(t) THEN Append(ws, Width(SpanOf(t))) ELSE ws
    BY <1>1, <2>2, <2>3
  <2>6. Read(t, n + 1) /\ Len(ws) = n /\ Held(ws)
    BY <1>1, <2>1, <2>3
  <2>7. SpansState(loaded', cur_table', cur_row', cur_cell', attrs', in_td', vs)
    BY <2>4, <2>5, <2>6, ReadSpans
  <2> QED BY <2>2, <2>7
<1> QED
  BY <1>3, <1>4 DEF SpansInv

LEMMA InitSpans == ASSUME Init PROVE SpansInv
<1>1. /\ texts = 0 /\ widths = <<>> /\ loaded = <<>> /\ cur_table = <<>>
      /\ cur_row = <<>> /\ in_td = FALSE
  BY DEF Init, LoadingInit
<1>2. widths \in Seq(Nat) /\ Len(widths) = texts
  BY <1>1
<1>3. AllSpanned(<<>>, <<>>, <<>>, <<>>)
  BY NothingSpanned DEF AllSpanned
<1> QED
  BY <1>1, <1>2, <1>3 DEF SpansInv, SpansState

\* In any document each text is in at most one cell, in the order of the
\* document, in what is inspected and in what is loaded, and loaded in as many
\* columns as the cell spans, for any number of tokens and with any missing,
\* mismatched or self-closing tags.
THEOREM TextsPlacedOnce == Spec => []TextPlacedOnce
<1> DEFINE I == InspectionOrdered /\ LoadingOrdered /\ SpansInv
<1>1. Init => I
  BY InitInspectionOrdered, InitLoadingOrdered, InitSpans
<1>2. I /\ [Next]_vars => I'
  <2>1. ASSUME NEW t \in Alphabet, I, Token(t) PROVE I'
    <3>1. t \in Tokens
      BY ParsersAssumption
    <3> QED BY <2>1, <3>1, TokenInspectionOrdered, TokenLoadingOrdered, TokenSpans,
               TokensAssumption
  <2>2. ASSUME I, UNCHANGED vars PROVE I'
    BY <2>2 DEF InspectionOrdered, LoadingOrdered, SpansInv, vars, inspected,
                collected, document
  <2> QED BY <2>1, <2>2 DEF Next
<1>3. I => TextPlacedOnce
  BY InspectedInOrder, LoadedInOrder
     DEF TextPlacedOnce, SpansInv, SpansState, AllSpanned
<1> QED BY <1>1, <1>2, <1>3, PTL DEF Spec

-----------------------------------------------------------------------------
(* Regular documents: what both parsers hold, element by element.          *)

ProperCells == [colspan : 1..MaxColSpan, text : Seq(Nat)]
Columns(cell) == [k \in 1..cell.colspan |-> cell.text]
AllExpanded(ts) == [k \in DOMAIN ts |-> Expanded(ts[k])]

LEMMA ColumnLimit == MaxColSpan \in Nat /\ 1 <= MaxColSpan
BY SMT DEF MaxColSpan

LEMMA AppendMapped ==
  ASSUME NEW n \in Nat, NEW f, NEW g, NEW y, NEW Y,
         f \in [1..n -> Y], y \in Y, DOMAIN g = 1..(n + 1), g = [i \in 1..(n + 1) |-> g[i]],
         \A i \in 1..n : g[i] = f[i], g[n + 1] = y
  PROVE  g = Append(f, y)
<1>1. f \in Seq(Y) /\ Len(f) = n /\ DOMAIN f = 1..n
  BY SequenceOf
<1>2. /\ Append(f, y) \in Seq(Y) /\ Len(Append(f, y)) = n + 1
      /\ \A i \in 1..n : Append(f, y)[i] = f[i]
      /\ Append(f, y)[n + 1] = y
  BY <1>1, AppendProperties
<1> DEFINE h == Append(f, y)
<1> HIDE DEF h
<1>3. DOMAIN h = 1..(n + 1) /\ h = [i \in 1..(n + 1) |-> h[i]]
  <2>1. h \in Seq(Y) /\ Len(h) = n + 1
    BY <1>2 DEF h
  <2> QED BY <2>1
<1>4. \A i \in 1..(n + 1) : i \in 1..n \/ i = n + 1
  OBVIOUS
<1>5. \A i \in 1..(n + 1) : g[i] = h[i]
  BY <1>2, <1>4 DEF h
<1>6. g = h
  BY <1>3, <1>5
<1> QED BY <1>6 DEF h

LEMMA ExpandAppend ==
  ASSUME NEW row \in Seq(ProperCells), NEW cell \in ProperCells
  PROVE  /\ Expand(row) \in Seq(Seq(Nat))
         /\ Expand(Append(row, cell)) = Expand(row) \o Columns(cell)
<1> DEFINE n == Len(row)
           us == Append(row, cell)
           f == [i \in DOMAIN row |-> Columns(row[i])]
           g == [i \in DOMAIN us |-> Columns(us[i])]
<1>1. n \in Nat /\ DOMAIN row = 1..n /\ \A i \in 1..n : row[i] \in ProperCells
  OBVIOUS
<1>2. /\ DOMAIN us = 1..(n + 1) /\ us[n + 1] = cell /\ \A i \in 1..n : us[i] = row[i]
  BY AppendProperties
<1>3. ASSUME NEW c \in ProperCells PROVE Columns(c) \in Seq(Seq(Nat))
  <2>1. c.colspan \in 1..MaxColSpan /\ c.text \in Seq(Nat)
    BY DEF ProperCells
  <2>2. c.colspan \in Nat
    BY <2>1, ColumnLimit
  <2>3. Columns(c) \in [1..c.colspan -> Seq(Nat)]
    BY <2>1 DEF Columns
  <2> QED BY <2>2, <2>3, SequenceOf
<1> HIDE DEF n, us
<1>4. f \in [1..n -> Seq(Seq(Nat))] /\ DOMAIN f = 1..n
  BY <1>1, <1>3
<1>5. /\ DOMAIN g = 1..(n + 1) /\ g = [i \in 1..(n + 1) |-> g[i]]
      /\ \A i \in 1..n : g[i] = f[i]
      /\ g[n + 1] = Columns(cell) /\ Columns(cell) \in Seq(Seq(Nat))
  BY <1>1, <1>2, <1>3
<1>6. f \in Seq(Seq(Seq(Nat)))
  BY <1>1, <1>4, SequenceOf
<1>7. Expand(row) = FlattenSeq(f) /\ Expand(us) = FlattenSeq(g)
  BY DEF Expand, Columns
<1> HIDE DEF f, g
<1>8. g = Append(f, Columns(cell))
  BY <1>1, <1>4, <1>5, AppendMapped
<1>9. FlattenSeq(g) = FlattenSeq(f) \o Columns(cell)
  BY <1>5, <1>6, <1>8, FlattenAppend
<1>10. FlattenSeq(f) \in Seq(Seq(Nat))
  BY <1>6, FlattenType
<1> QED BY <1>7, <1>9, <1>10 DEF us

LEMMA ExpandEmpty == Expand(<<>>) = <<>> /\ Expanded(<<>>) = <<>> /\ AllExpanded(<<>>) = <<>>
<1>1. [i \in DOMAIN <<>> |-> [k \in 1..<<>>[i].colspan |-> <<>>[i].text]] = <<>>
  OBVIOUS
<1>2. Expand(<<>>) = <<>>
  BY <1>1, FlattenEmpty DEF Expand
<1> QED BY <1>2 DEF Expanded, AllExpanded

LEMMA ExpandedAppend ==
  ASSUME NEW rows \in Seq(Seq(ProperCells)), NEW row \in Seq(ProperCells)
  PROVE  /\ Expanded(rows) \in Seq(Seq(Seq(Nat)))
         /\ Expanded(Append(rows, row)) = Append(Expanded(rows), Expand(row))
<1> DEFINE n == Len(rows)
           us == Append(rows, row)
           f == Expanded(rows)
           g == Expanded(us)
<1>1. n \in Nat /\ DOMAIN rows = 1..n /\ \A i \in 1..n : rows[i] \in Seq(ProperCells)
  OBVIOUS
<1>2. /\ DOMAIN us = 1..(n + 1) /\ us[n + 1] = row /\ \A i \in 1..n : us[i] = rows[i]
  BY AppendProperties
<1>3. ASSUME NEW r \in Seq(ProperCells) PROVE Expand(r) \in Seq(Seq(Nat))
  <2>1. PICK cell : cell \in ProperCells
    <3>1. [colspan |-> 1, text |-> <<>>] \in ProperCells
      BY ColumnLimit DEF ProperCells
    <3> QED BY <3>1
  <2> QED BY <2>1, ExpandAppend
<1> HIDE DEF n, us
<1>4. f \in [1..n -> Seq(Seq(Nat))]
  BY <1>1, <1>3 DEF Expanded
<1>5. /\ DOMAIN g = 1..(n + 1) /\ g = [i \in 1..(n + 1) |-> g[i]]
      /\ \A i \in 1..n : g[i] = f[i]
      /\ g[n + 1] = Expand(row) /\ Expand(row) \in Seq(Seq(Nat))
  BY <1>1, <1>2, <1>3 DEF Expanded
<1> HIDE DEF f, g
<1>6. g = Append(f, Expand(row))
  BY <1>1, <1>4, <1>5, AppendMapped
<1>7. f \in Seq(Seq(Seq(Nat)))
  BY <1>1, <1>4, SequenceOf
<1> QED BY <1>6, <1>7 DEF f, g, us

LEMMA AllExpandedAppend ==
  ASSUME NEW ts \in Seq(Seq(Seq(ProperCells))), NEW rows \in Seq(Seq(ProperCells))
  PROVE  AllExpanded(Append(ts, rows)) = Append(AllExpanded(ts), Expanded(rows))
<1> DEFINE n == Len(ts)
           us == Append(ts, rows)
           f == AllExpanded(ts)
           g == AllExpanded(us)
<1>1. n \in Nat /\ DOMAIN ts = 1..n /\ \A i \in 1..n : ts[i] \in Seq(Seq(ProperCells))
  OBVIOUS
<1>2. /\ DOMAIN us = 1..(n + 1) /\ us[n + 1] = rows /\ \A i \in 1..n : us[i] = ts[i]
  BY AppendProperties
<1>3. ASSUME NEW r \in Seq(Seq(ProperCells)) PROVE Expanded(r) \in Seq(Seq(Seq(Nat)))
  <2>1. <<>> \in Seq(ProperCells)
    OBVIOUS
  <2> QED BY <2>1, ExpandedAppend
<1> HIDE DEF n, us
<1>4. f \in [1..n -> Seq(Seq(Seq(Nat)))]
  BY <1>1, <1>3 DEF AllExpanded
<1>5. /\ DOMAIN g = 1..(n + 1) /\ g = [i \in 1..(n + 1) |-> g[i]]
      /\ \A i \in 1..n : g[i] = f[i]
      /\ g[n + 1] = Expanded(rows) /\ Expanded(rows) \in Seq(Seq(Seq(Nat)))
  BY <1>1, <1>2, <1>3 DEF AllExpanded
<1> HIDE DEF f, g
<1>6. g = Append(f, Expanded(rows))
  <2> DEFINE y == Expanded(rows)
             Y == Seq(Seq(Seq(Nat)))
  <2>1. f \in [1..n -> Y] /\ y \in Y /\ g[n + 1] = y
    BY <1>4, <1>5
  <2> HIDE DEF y, Y
  <2>2. g = Append(f, y)
    BY <1>1, <1>5, <2>1, AppendMapped
  <2> QED BY <2>2 DEF y
<1> QED BY <1>6 DEF f, g, us

-----------------------------------------------------------------------------
\* The last of a sequence is replaced.
LEMMA LastReplaced ==
  ASSUME NEW X, NEW s \in Seq(X), NEW x \in X, NEW y \in X
  PROVE  LET u == Append(s, x) IN
         /\ u # <<>> /\ Len(u) = Len(s) + 1 /\ u[Len(s) + 1] = x /\ Len(s) \in Nat
         /\ [u EXCEPT ![Len(u)] = y] = Append(s, y)
<1> DEFINE n == Len(s)
           u == Append(s, x)
           v == Append(s, y)
           w == [u EXCEPT ![Len(u)] = y]
<1>1. /\ n \in Nat /\ u \in Seq(X) /\ v \in Seq(X) /\ Len(u) = n + 1 /\ Len(v) = n + 1
      /\ u[n + 1] = x /\ v[n + 1] = y /\ \A i \in 1..n : u[i] = s[i] /\ v[i] = s[i]
  BY AppendProperties
<1> HIDE DEF n, u, v
<1>2. DOMAIN u = 1..(n + 1) /\ DOMAIN v = 1..(n + 1) /\ u # <<>>
  BY <1>1
<1>3. DOMAIN w = 1..(n + 1) /\ w = [i \in 1..(n + 1) |-> w[i]]
  BY <1>2
<1>4. v = [i \in 1..(n + 1) |-> v[i]]
  BY <1>1, <1>2
<1>5. \A i \in 1..(n + 1) : w[i] = v[i]
  <2> TAKE i \in 1..(n + 1)
  <2>1. i = n + 1 \/ (i \in 1..n /\ i # n + 1)
    BY <1>1
  <2> QED BY <1>1, <1>2, <2>1
<1> HIDE DEF w
<1>6. w = v
  BY <1>3, <1>4, <1>5
<1> QED BY <1>1, <1>2, <1>6 DEF n, u, v, w

-----------------------------------------------------------------------------
LEMMA FrontAppend ==
  ASSUME NEW X, NEW s \in Seq(X), NEW x \in X
  PROVE  LET u == Append(s, x) IN u # <<>> /\ Last(u) = x /\ Front(u) = s
<1> DEFINE u == Append(s, x)
           w == Front(u)
<1>1. /\ u \in Seq(X) /\ Len(u) = Len(s) + 1 /\ u[Len(s) + 1] = x /\ Len(s) \in Nat
      /\ \A i \in 1..Len(s) : u[i] = s[i]
  BY AppendProperties
<1> HIDE DEF u, w
<1>2. u # <<>> /\ Len(u) - 1 = Len(s)
  BY <1>1
<1>3. Last(u) = x
  BY <1>1 DEF Last
<1>4. w \in Seq(X) /\ Len(w) = Len(u) - 1 /\ \A i \in 1..(Len(u) - 1) : w[i] = u[i]
  BY <1>1, <1>2, FrontOfSome DEF w
<1>5. w = s
  BY <1>1, <1>2, <1>4
<1> QED BY <1>2, <1>3, <1>5 DEF u, w

\* The elements that are open: those of a table, then containers.
LEMMA OpenStack ==
  ASSUME NEW X, NEW base \in Seq(X), NEW s \in Seq(X)
  PROVE  s # <<>> => /\ base \o s # <<>> /\ Last(base \o s) = Last(s)
                     /\ Front(base \o s) = base \o Front(s)
<1> DEFINE m == Len(base)
           n == Len(s)
           u == base \o s
<1>1. /\ m \in Nat /\ n \in Nat /\ u \in Seq(X) /\ Len(u) = m + n
      /\ DOMAIN base = 1..m /\ DOMAIN s = 1..n
      /\ \A i \in 1..(m + n) : u[i] = IF i <= m THEN base[i] ELSE s[i - m]
  BY ConcatProperties
<1>2. ASSUME s # <<>>
      PROVE  u # <<>> /\ Last(u) = Last(s) /\ Front(u) = base \o Front(s)
  <2>1. /\ Front(s) \in Seq(X) /\ Len(Front(s)) = n - 1 /\ s = Append(Front(s), Last(s))
        /\ Last(s) \in X
    BY <1>2, FrontOfSome
  <2> DEFINE f == Front(s)
             l == Last(s)
             v == base \o f
  <2> HIDE DEF f, l
  <2>2. s = Append(f, l) /\ f \in Seq(X) /\ l \in X
    BY <2>1 DEF f, l
  <2>3. u = Append(v, l) /\ v \in Seq(X)
    BY <2>2
  <2> HIDE DEF u, v
  <2>4. u # <<>> /\ Last(u) = l /\ Front(u) = v
    BY <2>2, <2>3, FrontAppend
  <2> QED BY <2>4 DEF u, v, f, l
<1> QED
  BY <1>2

TableOpen == <<"table">>
RowOpen == <<"table", "tr">>
CellOpen == <<"table", "tr", "td">>
Bases == {<<>>, TableOpen, RowOpen, CellOpen}

LEMMA TheBases ==
  /\ \A base \in Bases : base \in Seq({"table", "tr", "td"})
  /\ Append(<<>>, "table") = TableOpen /\ Append(TableOpen, "tr") = RowOpen
  /\ Append(RowOpen, "td") = CellOpen
  /\ Front(TableOpen) = <<>> /\ Front(RowOpen) = TableOpen /\ Front(CellOpen) = RowOpen
<1> DEFINE X == {"table", "tr", "td"}
           a == "table"
           b == "tr"
           c == "td"
<1>1. a \in X /\ b \in X /\ c \in X
  OBVIOUS
<1>2. TableOpen = <<a>> /\ RowOpen = <<a, b>> /\ CellOpen = <<a, b, c>>
  BY DEF TableOpen, RowOpen, CellOpen
<1> HIDE DEF X, a, b, c
<1>3. <<>> \in Seq(X) /\ <<a>> \in Seq(X) /\ <<a, b>> \in Seq(X) /\ <<a, b, c>> \in Seq(X)
  BY <1>1
<1>4. /\ Append(<<>>, a) = <<a>> /\ Append(<<a>>, b) = <<a, b>>
      /\ Append(<<a, b>>, c) = <<a, b, c>>
  <2>1. Append(<<>>, a) = <<a>>
    BY <1>1, <1>3
  <2>2. Append(<<a>>, b) = <<a, b>>
    <3> DEFINE u == Append(<<a>>, b)
               v == <<a, b>>
    <3>1. /\ u \in Seq(X) /\ Len(u) = 2 /\ u[1] = a /\ u[2] = b
          /\ v \in Seq(X) /\ Len(v) = 2 /\ v[1] = a /\ v[2] = b
      BY <1>1, <1>3
    <3> HIDE DEF u, v
    <3>2. \A i \in 1..2 : i = 1 \/ i = 2
      OBVIOUS
    <3>3. u = v
      BY <3>1, <3>2
    <3> QED BY <3>3 DEF u, v
  <2>3. Append(<<a, b>>, c) = <<a, b, c>>
    <3> DEFINE u == Append(<<a, b>>, c)
               v == <<a, b, c>>
    <3>1. /\ u \in Seq(X) /\ Len(u) = 3 /\ u[1] = a /\ u[2] = b /\ u[3] = c
          /\ v \in Seq(X) /\ Len(v) = 3 /\ v[1] = a /\ v[2] = b /\ v[3] = c
      BY <1>1, <1>3
    <3> HIDE DEF u, v
    <3>2. \A i \in 1..3 : i = 1 \/ i = 2 \/ i = 3
      OBVIOUS
    <3>3. u = v
      BY <3>1, <3>2
    <3> QED BY <3>3 DEF u, v
  <2> QED BY <2>1, <2>2, <2>3
<1>5. Front(<<a>>) = <<>> /\ Front(<<a, b>>) = <<a>> /\ Front(<<a, b, c>>) = <<a, b>>
  <2>1. Front(Append(<<>>, a)) = <<>>
    BY <1>1, <1>3, FrontAppend
  <2>2. Front(Append(<<a>>, b)) = <<a>>
    BY <1>1, <1>3, FrontAppend
  <2>3. Front(Append(<<a, b>>, c)) = <<a, b>>
    BY <1>1, <1>3, FrontAppend
  <2> QED BY <1>4, <2>1, <2>2, <2>3
<1>6. \A base \in Bases : base \in Seq(X)
  BY <1>2, <1>3 DEF Bases
<1> QED BY <1>2, <1>4, <1>5, <1>6 DEF X, a, b, c

Open(base) == suppression_stack \in Seq(Containers) /\ open = base \o suppression_stack

BetweenTables(ts) ==
  /\ tables = ts /\ table_depth = 0 /\ current_row = FALSE /\ current_cell = <<>>
  /\ level = 0 /\ in_tr = FALSE /\ in_td = FALSE
  /\ loaded = AllExpanded(ts)

InTable(ts, rows) ==
  /\ tables = Append(ts, rows)
  /\ table_depth = 1 /\ current_row = FALSE /\ current_cell = <<>>
  /\ level = 1 /\ in_tr = FALSE /\ in_td = FALSE
  /\ loaded = AllExpanded(ts) /\ cur_table = Expanded(rows)

InRow(ts, rows, row) ==
  /\ tables = Append(ts, Append(rows, row))
  /\ table_depth = 1 /\ current_row = TRUE /\ current_cell = <<>>
  /\ level = 1 /\ in_tr = TRUE /\ in_td = FALSE
  /\ loaded = AllExpanded(ts) /\ cur_table = Expanded(rows) /\ cur_row = Expand(row)

InCell(ts, rows, row, cell) ==
  /\ tables = Append(ts, Append(rows, Append(row, cell)))
  /\ table_depth = 1 /\ current_row = TRUE
  /\ current_cell = <<Len(rows) + 1, Len(row) + 1>>
  /\ level = 1 /\ in_tr = TRUE /\ in_td = TRUE
  /\ loaded = AllExpanded(ts) /\ cur_table = Expanded(rows) /\ cur_row = Expand(row)
  /\ cur_cell = cell.text /\ attrs = [colspan |-> cell.colspan, x_str |-> <<>>]

\* Where both parsers are in a regular document.
Alike ==
  \/ \E ts \in Seq(Seq(Seq(ProperCells))) : Open(<<>>) /\ BetweenTables(ts)
  \/ \E ts \in Seq(Seq(Seq(ProperCells))), rows \in Seq(Seq(ProperCells)) :
       Open(TableOpen) /\ InTable(ts, rows)
  \/ \E ts \in Seq(Seq(Seq(ProperCells))), rows \in Seq(Seq(ProperCells)),
        row \in Seq(ProperCells) :
       Open(RowOpen) /\ InRow(ts, rows, row)
  \/ \E ts \in Seq(Seq(Seq(ProperCells))), rows \in Seq(Seq(ProperCells)),
        row \in Seq(ProperCells), cell \in ProperCells :
       Open(CellOpen) /\ InCell(ts, rows, row, cell)

AlikeInv == texts \in Nat /\ (rejected \/ (~failed /\ Alike))

LEMMA TokenKinds ==
  ASSUME NEW t \in Tokens, TokensAssumption
  PROVE  \/ t.kind = "start" /\ t.tag \in Tags \ {"td"}
         \/ /\ t.kind = "start" /\ t.tag = "td" /\ t.x_str \in BOOLEAN
            /\ t.colspan \in Nat \cup {NotANumber}
         \/ t.kind = "end" /\ t.tag \in Tags
         \/ t.kind = "empty"
         \/ t.kind = "data"
BY TokensAssumption DEF Tokens, Cell, EmptyCellTag, TdTag, Start, Empty, End, Plain, Data

\* Containers, and what is in them, change nothing else.
LEMMA ContainerToken ==
  ASSUME NEW t \in Tokens, RegularToken(t), ~rejected, ~failed, TokensAssumption,
         "document" \notin Containers,
         NEW base \in Bases, Open(base), in_td = TRUE => base = CellOpen, in_td \in BOOLEAN,
         Suppressing \/ (t.kind = "start" /\ t.tag \in Containers)
  PROVE  Open(base)' /\ UNCHANGED <<structure, rejected, collected>>
<1> DEFINE s == suppression_stack
           X == Containers \cup {"table", "tr", "td"}
<1>1. /\ Inspect(t, texts + 1) /\ Read(t, texts + 1) /\ Regular(t)
      /\ open' = CASE t.kind = "start" -> Append(open, t.tag)
                   [] t.kind = "end" -> Front(open)
                   [] OTHER -> open
      /\ s \in Seq(Containers) /\ open = base \o s
  BY DEF RegularToken, Follow, Token, Open
<1>2. base \in Seq(X) /\ s \in Seq(X)
  <2>1. base \in Seq(X)
    <3>1. {"table", "tr", "td"} \subseteq X
      OBVIOUS
    <3> HIDE DEF X
    <3>2. <<"table">> \in Seq(X) /\ <<"table", "tr">> \in Seq(X)
          /\ <<"table", "tr", "td">> \in Seq(X) /\ <<>> \in Seq(X)
      BY <3>1
    <3> QED BY <3>2 DEF Bases, TableOpen, RowOpen, CellOpen
  <2>2. s \in Seq(X)
    BY <1>1, SeqMonotonic
  <2> QED BY <2>1, <2>2
<1>3. Containers \cap {"table", "tr", "td"} = {}
  BY TokensAssumption
<1>4. CASE t.kind = "start" /\ t.tag \in Containers
  <2>1. s' = Append(s, t.tag) /\ UNCHANGED <<structure, rejected>>
    BY <1>1, <1>4 DEF Inspect, InspectStart, Suppress
  <2>2. UNCHANGED collected
    BY <1>1, <1>3, <1>4 DEF Read, LoadStart, Pass
  <2>3. open' = base \o s'
    <3>1. open' = Append(base \o s, t.tag) /\ t.tag \in X
      BY <1>1, <1>4
    <3> HIDE DEF X
    <3>2. Append(base \o s, t.tag) = base \o Append(s, t.tag)
      <4>1. PICK c \in X : c = t.tag
        BY <3>1
      <4>2. base \in Seq(X) /\ s \in Seq(X) /\ c \in X
        BY <1>2
      <4> HIDE DEF s
      <4>3. Append(base \o s, c) = base \o Append(s, c)
        BY ONLY <4>2
      <4> QED BY <4>1, <4>3
    <3> QED BY <2>1, <3>1, <3>2
  <2>4. s' \in Seq(Containers)
    BY <1>1, <1>4, <2>1
  <2> QED BY <2>1, <2>2, <2>3, <2>4 DEF Open
<1>5. CASE Suppressing /\ ~(t.kind = "start" /\ t.tag \in Containers)
  <2>1. /\ s # <<>> /\ open # <<>> /\ Last(open) = Last(s) /\ Last(s) \in Containers
        /\ Front(open) = base \o Front(s) /\ Front(s) \in Seq(Containers)
    <3>1. s # <<>>
      BY <1>5 DEF Suppressing
    <3> QED BY <1>1, <1>2, <3>1, OpenStack, FrontOfSome
  <2>2. Innermost = Last(s) /\ Innermost \in Containers
        /\ Innermost \notin {"table", "tr", "td", "document"}
    BY <1>3, <2>1 DEF Innermost
  <2>3. CASE t.kind = "end"
    <3>1. t.tag = Last(s) /\ t.tag \in Containers
      BY <1>1, <2>2, <2>3 DEF Regular
    <3>2. s' = Front(s) /\ UNCHANGED <<structure, rejected>>
      BY <1>1, <1>5, <2>3, <3>1 DEF Inspect, InspectEnd, Release
    <3>3. UNCHANGED collected
      BY <1>1, <1>3, <2>3, <3>1 DEF Read, LoadEnd, Pass
    <3>4. open' = base \o s'
      BY <1>1, <2>1, <2>3, <3>2
    <3> QED BY <2>1, <3>2, <3>3, <3>4 DEF Open
  <2>4. CASE t.kind = "data"
    <3>1. UNCHANGED inspected
      BY <1>1, <1>5, <2>4 DEF Inspect, InspectData, Ignore
    <3>2. in_td = FALSE
      <4>1. ASSUME base = CellOpen PROVE "td" \in Range(open)
        <5>1. 3 \in DOMAIN open /\ open[3] = "td"
          <6>1. open = CellOpen \o s /\ CellOpen \in Seq(X) /\ Len(CellOpen) = 3
                /\ CellOpen[3] = "td"
            BY <1>1, <1>2, <4>1 DEF CellOpen
          <6> DEFINE u == base \o s
          <6>2. /\ Len(s) \in Nat /\ u \in Seq(X) /\ Len(u) = Len(base) + Len(s)
                /\ \A i \in 1..(Len(base) + Len(s)) :
                     u[i] = IF i <= Len(base) THEN base[i] ELSE s[i - Len(base)]
            <7>1. base \in Seq(X) /\ s \in Seq(X)
              BY <1>2
            <7> HIDE DEF s, X
            <7> QED BY ONLY <7>1, ConcatProperties
          <6>3. open = u /\ Len(base) = 3 /\ base[3] = "td"
            BY <1>1, <4>1, <6>1
          <6> HIDE DEF u, s, X
          <6>4. DOMAIN u = 1..(3 + Len(s)) /\ 3 \in 1..(3 + Len(s))
            BY <6>2, <6>3
          <6>5. u[3] = "td"
            BY <6>2, <6>3, <6>4
          <6> QED BY <6>3, <6>4, <6>5
        <5> QED BY <5>1 DEF Range
      <4>2. "td" \notin Range(open)
        BY <1>1, <2>2, <2>4 DEF Regular
      <4> QED BY <4>1, <4>2
    <3>3. UNCHANGED collected
      BY <1>1, <2>4, <3>2 DEF Read, LoadData, Pass
    <3>4. open' = open
      BY <1>1, <2>4
    <3> QED BY <1>1, <3>1, <3>3, <3>4 DEF Open, inspected, structure
  <2>5. ~(t.kind = "start")
    <3>1. t.kind = "start" /\ t.tag \notin Containers => t.tag \in {"table", "tr", "td"}
      BY TokenKinds DEF Tags
    <3> QED BY <1>1, <1>5, <2>2, <3>1 DEF Regular, Parent
  <2>6. ~(t.kind = "empty")
    BY <1>1 DEF Regular
  <2> QED BY <2>3, <2>4, <2>5, <2>6, TokenKinds
<1> QED BY <1>4, <1>5

\* With no container open, these are the tokens of a regular document.
LEMMA RegularTokens ==
  ASSUME NEW t \in Tokens, Regular(t), TokensAssumption, "document" \notin Containers,
         ~(t.kind = "start" /\ t.tag \in Containers)
  PROVE  /\ open = <<>> => t.kind = "data" \/ (t.kind = "start" /\ t.tag = "table")
         /\ open = TableOpen => \/ t.kind = "data" \/ (t.kind = "start" /\ t.tag = "tr")
                                \/ (t.kind = "end" /\ t.tag = "table")
         /\ open = RowOpen => \/ t.kind = "data" \/ (t.kind = "end" /\ t.tag = "tr")
                              \/ /\ t.kind = "start" /\ t.tag = "td"
                                 /\ t.colspan \in 1..MaxColSpan /\ t.x_str = FALSE
         /\ open = CellOpen => t.kind = "data" \/ (t.kind = "end" /\ t.tag = "td")
<1>1. Containers \cap {"table", "tr", "td"} = {}
  BY TokensAssumption
<1>2. /\ open = <<>> => Innermost = "document"
      /\ open = TableOpen => Innermost = "table"
      /\ open = RowOpen => Innermost = "tr"
      /\ open = CellOpen => Innermost = "td"
  BY DEF Innermost, Last, TableOpen, RowOpen, CellOpen
<1>3. \/ t.kind = "start" /\ t.tag \in {"table", "tr"} /\ t.tag \notin Containers
      \/ t.kind = "start" /\ t.tag = "td" /\ t.x_str \in BOOLEAN
      \/ t.kind = "end" /\ t.tag \in Tags
      \/ t.kind = "data"
  BY <1>1, TokenKinds DEF Tags, Regular
<1>4. Innermost \in {"document", "table", "tr", "td"} =>
        \/ t.kind = "data"
        \/ t.kind = "start" /\ t.tag = "table" /\ Innermost = "document"
        \/ t.kind = "start" /\ t.tag = "tr" /\ Innermost = "table"
        \/ /\ t.kind = "start" /\ t.tag = "td" /\ Innermost = "tr"
           /\ t.colspan \in 1..MaxColSpan /\ t.x_str = FALSE
        \/ t.kind = "end" /\ t.tag = Innermost /\ Innermost # "document"
  <2>1. CASE t.kind = "start" /\ t.tag \in {"table", "tr"} /\ t.tag \notin Containers
    BY <2>1 DEF Regular, Parent
  <2>2. CASE t.kind = "start" /\ t.tag = "td" /\ t.x_str \in BOOLEAN
    BY <2>2 DEF Regular
  <2>3. CASE t.kind = "end" /\ t.tag \in Tags
    BY <2>3 DEF Regular, Tags
  <2> QED BY <1>3, <2>1, <2>2, <2>3
<1> QED BY <1>2, <1>4

LEMMA NothingSuppressed ==
  ASSUME NEW base \in Bases, Open(base), ~Suppressing
  PROVE  open = base /\ suppression_stack = <<>>
<1>1. base \in Seq({"table", "tr", "td"}) /\ suppression_stack = <<>>
  BY TheBases DEF Suppressing
<1>2. base \o <<>> = base
  BY <1>1
<1> QED BY <1>1, <1>2 DEF Open

LEMMA OpenedAlone ==
  ASSUME NEW base \in Bases, suppression_stack' = <<>>, open' = base
  PROVE  Open(base)'
<1>1. base \in Seq({"table", "tr", "td"})
  BY TheBases
<1>2. base \o <<>> = base /\ <<>> \in Seq(Containers)
  BY <1>1
<1> QED BY <1>2 DEF Open

\* What the token does to open.
LEMMA OpenMoves ==
  ASSUME NEW t \in Tokens, RegularToken(t)
  PROVE  /\ t.kind = "data" => open' = open
         /\ open = <<>> /\ t.kind = "start" /\ t.tag = "table" => open' = TableOpen
         /\ open = TableOpen /\ t.kind = "start" /\ t.tag = "tr" => open' = RowOpen
         /\ open = RowOpen /\ t.kind = "start" /\ t.tag = "td" => open' = CellOpen
         /\ open = TableOpen /\ t.kind = "end" => open' = <<>>
         /\ open = RowOpen /\ t.kind = "end" => open' = TableOpen
         /\ open = CellOpen /\ t.kind = "end" => open' = RowOpen
<1>1. open' = CASE t.kind = "start" -> Append(open, t.tag)
                [] t.kind = "end" -> Front(open)
                [] OTHER -> open
  BY DEF RegularToken, Follow
<1> QED BY <1>1, TheBases

LEMMA MovesBetween ==
  ASSUME NEW t \in Tokens, RegularToken(t), ~rejected, ~failed, TokensAssumption,
         "document" \notin Containers, ~(t.kind = "start" /\ t.tag \in Containers),
         ~Suppressing, NEW ts \in Seq(Seq(Seq(ProperCells))),
         Open(<<>>), BetweenTables(ts)
  PROVE  rejected' \/ (~failed' /\ Alike')
<1>1. /\ Inspect(t, texts + 1) /\ Read(t, texts + 1) /\ Regular(t)
      /\ open = <<>> /\ suppression_stack = <<>> /\ <<>> \in Bases /\ TableOpen \in Bases
  BY NothingSuppressed DEF RegularToken, Token, Bases
<1>2. CASE t.kind = "data"
  <2>1. UNCHANGED inspected
    BY <1>1, <1>2 DEF Inspect, InspectData, Ignore, BetweenTables
  <2>2. UNCHANGED collected
    BY <1>1, <1>2 DEF Read, LoadData, Pass, BetweenTables
  <2>3. Open(<<>>)'
    BY <1>1, <1>2, <2>1, OpenMoves, OpenedAlone DEF inspected
  <2> QED BY <2>1, <2>2, <2>3 DEF Alike, BetweenTables, inspected, collected
<1>3. CASE t.kind = "start" /\ t.tag = "table"
  <2>1. StartTable
    BY <1>1, <1>3 DEF Inspect, InspectStart, Suppressing
  <2>2. BeginTable
    BY <1>1, <1>3 DEF Read, LoadStart
  <2>3. CASE ~rejected'
    <3>1. /\ table_depth' = 1 /\ tables' = Append(tables, <<>>)
          /\ UNCHANGED <<current_row, current_cell, suppression_stack>>
      BY <2>1, <2>3 DEF StartTable, Reject
    <3>2. /\ level' = 1 /\ cur_table' = <<>> /\ failed' = failed
          /\ UNCHANGED <<loaded, in_tr, in_td>>
      BY <2>2 DEF BeginTable, BetweenTables
    <3>3. Open(TableOpen)'
      BY <1>1, <1>3, <3>1, OpenMoves, OpenedAlone
    <3>4. InTable(ts, <<>>)'
      BY <3>1, <3>2, ExpandEmpty DEF InTable, BetweenTables
    <3>5. <<>> \in Seq(Seq(ProperCells))
      OBVIOUS
    <3> QED BY <3>2, <3>3, <3>4, <3>5 DEF Alike
  <2> QED BY <2>3
<1> QED BY <1>1, <1>2, <1>3, RegularTokens

LEMMA MovesInTable ==
  ASSUME NEW t \in Tokens, RegularToken(t), ~rejected, ~failed, TokensAssumption,
         "document" \notin Containers, ~(t.kind = "start" /\ t.tag \in Containers),
         ~Suppressing, NEW ts \in Seq(Seq(Seq(ProperCells))),
         NEW rows \in Seq(Seq(ProperCells)),
         Open(TableOpen), InTable(ts, rows)
  PROVE  rejected' \/ (~failed' /\ Alike')
<1>1. /\ Inspect(t, texts + 1) /\ Read(t, texts + 1) /\ Regular(t)
      /\ open = TableOpen /\ suppression_stack = <<>>
      /\ <<>> \in Bases /\ TableOpen \in Bases /\ RowOpen \in Bases
  <2>1. <<>> \in Bases /\ TableOpen \in Bases /\ RowOpen \in Bases
    BY DEF Bases
  <2> QED BY <2>1, NothingSuppressed DEF RegularToken, Token
<1>2. CASE t.kind = "data"
  <2>1. UNCHANGED inspected
    BY <1>1, <1>2 DEF Inspect, InspectData, Ignore, InTable
  <2>2. UNCHANGED collected
    BY <1>1, <1>2 DEF Read, LoadData, Pass, InTable
  <2>3. Open(TableOpen)'
    BY <1>1, <1>2, <2>1, OpenMoves, OpenedAlone DEF inspected
  <2> QED BY <2>1, <2>2, <2>3 DEF Alike, InTable, inspected, collected
<1>3. CASE t.kind = "start" /\ t.tag = "tr"
  <2>1. StartRow /\ BeginRow
    BY <1>1, <1>3, TokensAssumption
       DEF Inspect, InspectStart, Suppressing, Read, LoadStart, InTable
  <2>2. CASE ~rejected'
    <3>1. /\ tables' = AppendToLast(tables, <<>>) /\ current_row' = TRUE
          /\ UNCHANGED <<current_cell, table_depth, suppression_stack>>
      BY <2>1, <2>2 DEF StartRow, Reject
    <3>2. /\ in_tr' = TRUE /\ cur_row' = <<>> /\ failed' = failed
          /\ UNCHANGED <<loaded, level, in_td, cur_table>>
      BY <2>1 DEF BeginRow
    <3>3. tables' = Append(ts, Append(rows, <<>>))
      <4>1. Append(rows, <<>>) \in Seq(Seq(ProperCells))
        BY AppendProperties
      <4> DEFINE u == Append(ts, rows)
                 y == Append(rows, <<>>)
      <4>2. u[Len(u)] = rows /\ [u EXCEPT ![Len(u)] = y] = Append(ts, y)
        <5> HIDE DEF y
        <5>1. y \in Seq(Seq(ProperCells))
          BY <4>1 DEF y
        <5> QED BY <5>1, LastReplaced
      <4>3. AppendToLast(u, <<>>) = [u EXCEPT ![Len(u)] = Append(u[Len(u)], <<>>)]
        BY DEF AppendToLast
      <4>4. tables = u
        BY DEF InTable
      <4> HIDE DEF u
      <4> QED BY <3>1, <4>2, <4>3, <4>4
    <3>4. Open(RowOpen)'
      BY <1>1, <1>3, <3>1, OpenMoves, OpenedAlone
    <3>5. InRow(ts, rows, <<>>)'
      BY <3>1, <3>2, <3>3, ExpandEmpty DEF InTable, InRow
    <3>6. <<>> \in Seq(ProperCells)
      OBVIOUS
    <3> QED BY <3>2, <3>4, <3>5, <3>6 DEF Alike
  <2> QED BY <2>2
<1>4. CASE t.kind = "end" /\ t.tag = "table"
  <2>1. EndTable /\ FinishTable
    BY <1>1, <1>4 DEF Inspect, InspectEnd, Suppressing, Read, LoadEnd
  <2>2. /\ table_depth' = 0 /\ current_row' = FALSE /\ current_cell' = <<>>
        /\ UNCHANGED <<tables, suppression_stack>>
    BY <2>1 DEF EndTable
  <2>3. /\ level' = 0 /\ loaded' = Append(loaded, cur_table) /\ failed' = failed
        /\ UNCHANGED <<in_tr, in_td>>
    BY <2>1 DEF FinishTable, InTable
  <2>4. Open(<<>>)'
    BY <1>1, <1>4, <2>2, OpenMoves, OpenedAlone
  <2> DEFINE u == Append(ts, rows)
  <2>5. u \in Seq(Seq(Seq(ProperCells))) /\ AllExpanded(u) = Append(AllExpanded(ts), Expanded(rows))
    BY AppendProperties, AllExpandedAppend
  <2>6. tables = u
    BY DEF InTable
  <2> HIDE DEF u
  <2>7. BetweenTables(u)'
    BY <2>2, <2>3, <2>5, <2>6 DEF InTable, BetweenTables
  <2> QED BY <2>3, <2>4, <2>5, <2>7 DEF Alike
<1> QED BY <1>1, <1>2, <1>3, <1>4, RegularTokens

LEMMA MovesInRow ==
  ASSUME NEW t \in Tokens, RegularToken(t), ~rejected, ~failed, TokensAssumption,
         "document" \notin Containers, ~(t.kind = "start" /\ t.tag \in Containers),
         ~Suppressing, NEW ts \in Seq(Seq(Seq(ProperCells))),
         NEW rows \in Seq(Seq(ProperCells)), NEW row \in Seq(ProperCells),
         Open(RowOpen), InRow(ts, rows, row)
  PROVE  rejected' \/ (~failed' /\ Alike')
<1>1. /\ Inspect(t, texts + 1) /\ Read(t, texts + 1) /\ Regular(t)
      /\ open = RowOpen /\ suppression_stack = <<>>
      /\ TableOpen \in Bases /\ RowOpen \in Bases /\ CellOpen \in Bases
  <2>1. TableOpen \in Bases /\ RowOpen \in Bases /\ CellOpen \in Bases
    BY DEF Bases
  <2> QED BY <2>1, NothingSuppressed DEF RegularToken, Token
<1> DEFINE u == Append(rows, row)
<1>2. u \in Seq(Seq(ProperCells)) /\ tables = Append(ts, u)
  BY AppendProperties DEF InRow
<1>3. CASE t.kind = "data"
  <2>1. UNCHANGED inspected
    BY <1>1, <1>3 DEF Inspect, InspectData, Ignore, InRow
  <2>2. UNCHANGED collected
    BY <1>1, <1>3 DEF Read, LoadData, Pass, InRow
  <2>3. Open(RowOpen)'
    BY <1>1, <1>3, <2>1, OpenMoves, OpenedAlone DEF inspected
  <2>4. InRow(ts, rows, row)'
    BY <2>1, <2>2 DEF InRow, inspected, collected
  <2> QED BY <2>2, <2>3, <2>4 DEF Alike, collected
<1>4. CASE /\ t.kind = "start" /\ t.tag = "td"
           /\ t.colspan \in 1..MaxColSpan /\ t.x_str = FALSE
  <2> DEFINE cell == [colspan |-> t.colspan, text |-> <<>>]
             longer == Append(row, cell)
  <2>1. StartCell(t.colspan) /\ BeginCell(t, texts + 1)
    BY <1>1, <1>4, TokensAssumption
       DEF Inspect, InspectStart, Suppressing, Read, LoadStart, InRow
  <2>2. CASE ~rejected'
    <3>1. /\ tables' = [tables EXCEPT ![Len(tables)] = AppendToLast(@, cell)]
          /\ current_cell' = <<Len(Rows), Len(Rows[Len(Rows)]) + 1>>
          /\ UNCHANGED <<current_row, table_depth, suppression_stack>>
      BY <2>1, <2>2 DEF StartCell, Reject
    <3>2. /\ in_td' = TRUE /\ cur_cell' = <<>> /\ failed' = failed
          /\ attrs' = [colspan |-> t.colspan, x_str |-> <<>>]
          /\ UNCHANGED <<loaded, level, in_tr, cur_table, cur_row>>
      BY <1>4, <2>1 DEF BeginCell, AttrsOf
    <3>3. cell \in ProperCells /\ cell.text = <<>> /\ cell.colspan = t.colspan
      BY <1>4 DEF ProperCells
    <3> HIDE DEF cell
    <3>4. longer \in Seq(ProperCells)
      BY <3>3, AppendProperties
    <3>5. /\ u[Len(u)] = row /\ Len(u) = Len(rows) + 1
          /\ [u EXCEPT ![Len(u)] = longer] = Append(rows, longer)
      <4> HIDE DEF longer
      <4> QED BY <3>4, LastReplaced
    <3>6. Append(rows, longer) \in Seq(Seq(ProperCells))
      <4> HIDE DEF longer
      <4> QED BY <3>4, AppendProperties
    <3> DEFINE v == Append(ts, u)
               grown == Append(rows, longer)
    <3>7. v[Len(v)] = u /\ [v EXCEPT ![Len(v)] = grown] = Append(ts, grown)
      <4> HIDE DEF u, grown
      <4>1. grown \in Seq(Seq(ProperCells))
        BY <3>6 DEF grown
      <4> QED BY <1>2, <4>1, LastReplaced
    <3>8. tables = v /\ Rows = u
      BY <1>2, <3>7 DEF Rows
    <3>9. AppendToLast(u, cell) = grown
      <4>1. AppendToLast(u, cell) = [u EXCEPT ![Len(u)] = Append(u[Len(u)], cell)]
        BY DEF AppendToLast
      <4> HIDE DEF u
      <4> QED BY <3>5, <4>1
    <3>10. tables' = Append(ts, grown)
      <4>1. tables' = [v EXCEPT ![Len(v)] = AppendToLast(v[Len(v)], cell)]
        BY <3>1, <3>8
      <4> HIDE DEF v, grown, u
      <4> QED BY <3>7, <3>9, <4>1
    <3>11. current_cell' = <<Len(rows) + 1, Len(row) + 1>>
      <4> HIDE DEF u
      <4> QED BY <3>1, <3>5, <3>8
    <3>12. Open(CellOpen)'
      BY <1>1, <1>4, <3>1, OpenMoves, OpenedAlone
    <3>13. InCell(ts, rows, row, cell)'
      BY <3>1, <3>2, <3>3, <3>10, <3>11 DEF InRow, InCell
    <3> QED BY <3>2, <3>3, <3>12, <3>13 DEF Alike
  <2> QED BY <2>2
<1>5. CASE t.kind = "end" /\ t.tag = "tr"
  <2>1. EndRow /\ FinishRow
    BY <1>1, <1>5 DEF Inspect, InspectEnd, Suppressing, Read, LoadEnd, InRow
  <2>2. current_row' = FALSE /\ UNCHANGED <<tables, current_cell, table_depth, suppression_stack>>
    BY <2>1 DEF EndRow
  <2>3. /\ cur_table' = Append(cur_table, cur_row) /\ in_tr' = FALSE /\ failed' = failed
        /\ UNCHANGED <<loaded, level, in_td>>
    BY <2>1 DEF FinishRow
  <2>4. Open(TableOpen)'
    BY <1>1, <1>5, <2>2, OpenMoves, OpenedAlone
  <2>5. Expanded(u) = Append(Expanded(rows), Expand(row))
    BY ExpandedAppend
  <2> HIDE DEF u
  <2>6. InTable(ts, u)'
    BY <1>2, <2>2, <2>3, <2>5 DEF InTable, InRow
  <2> QED BY <1>2, <2>3, <2>4, <2>6 DEF Alike
<1> QED BY <1>1, <1>3, <1>4, <1>5, RegularTokens

LEMMA MovesInCell ==
  ASSUME NEW t \in Tokens, RegularToken(t), ~rejected, ~failed, TokensAssumption,
         "document" \notin Containers, ~(t.kind = "start" /\ t.tag \in Containers),
         ~Suppressing, texts \in Nat, NEW ts \in Seq(Seq(Seq(ProperCells))),
         NEW rows \in Seq(Seq(ProperCells)), NEW row \in Seq(ProperCells),
         NEW cell \in ProperCells,
         Open(CellOpen), InCell(ts, rows, row, cell)
  PROVE  rejected' \/ (~failed' /\ Alike')
<1>1. /\ Inspect(t, texts + 1) /\ Read(t, texts + 1) /\ Regular(t)
      /\ open = CellOpen /\ suppression_stack = <<>>
      /\ RowOpen \in Bases /\ CellOpen \in Bases
  <2>1. RowOpen \in Bases /\ CellOpen \in Bases
    BY DEF Bases
  <2> QED BY <2>1, NothingSuppressed DEF RegularToken, Token
<1> DEFINE x == Append(row, cell)
           u == Append(rows, x)
           v == Append(ts, u)
<1>2. x \in Seq(ProperCells) /\ x[Len(row) + 1] = cell /\ Len(x) = Len(row) + 1
  BY AppendProperties
<1>3. u \in Seq(Seq(ProperCells)) /\ u[Len(rows) + 1] = x /\ Len(u) = Len(rows) + 1
  <2> HIDE DEF x
  <2> QED BY <1>2, AppendProperties
<1>4. v[Len(v)] = u /\ tables = v
  <2>1. tables = v
    BY DEF InCell
  <2> HIDE DEF u
  <2> QED BY <1>3, <2>1, LastReplaced
<1>5. CASE t.kind = "end" /\ t.tag = "td"
  <2>1. EndCell /\ FinishCell
    BY <1>1, <1>5 DEF Inspect, InspectEnd, Suppressing, Read, LoadEnd, InCell
  <2>2. current_cell' = <<>> /\ UNCHANGED <<tables, current_row, table_depth, suppression_stack>>
    BY <2>1 DEF EndCell
  <2>3. cell.colspan \in 1..MaxColSpan /\ cell.colspan \in Nat /\ MaxColSpan \in Nat
    BY ColumnLimit DEF ProperCells
  <2>4. /\ attrs.colspan = cell.colspan /\ attrs.x_str = <<>> /\ in_tr = TRUE
        /\ cur_cell = cell.text
    BY DEF InCell
  <2>5. ~(~in_tr \/ attrs.colspan = NotANumber \/ attrs.colspan > MaxColSpan)
    BY <2>3, <2>4 DEF NotANumber
  <2>6. /\ in_td' = FALSE /\ cur_cell' = <<>>
        /\ cur_row' = cur_row \o
             [i \in 1..Width(attrs.colspan) |->
                IF cur_cell = <<>> THEN attrs.x_str ELSE cur_cell]
        /\ UNCHANGED <<loaded, level, in_tr, cur_table, attrs, failed>>
    BY <2>1, <2>5 DEF FinishCell, Unreadable, Repeated, Fail
  <2>7. Width(attrs.colspan) = cell.colspan
    BY <2>3, <2>4 DEF Width
  <2>8. (IF cur_cell = <<>> THEN attrs.x_str ELSE cur_cell) = cell.text
    BY <2>4
  <2>9. cur_row' = cur_row \o Columns(cell)
    BY <2>6, <2>7, <2>8 DEF Columns
  <2>10. Expand(x) = Expand(row) \o Columns(cell)
    BY ExpandAppend
  <2>11. Open(RowOpen)'
    BY <1>1, <1>5, <2>2, OpenMoves, OpenedAlone
  <2> HIDE DEF x
  <2>12. InRow(ts, rows, x)'
    BY <1>4, <2>2, <2>6, <2>9, <2>10 DEF InRow, InCell
  <2> QED BY <1>2, <2>6, <2>11, <2>12 DEF Alike
<1>6. CASE t.kind = "data"
  <2>0. PICK n \in Nat : n = texts + 1
    OBVIOUS
  <2> DEFINE r == Len(rows) + 1
             i == Len(row) + 1
             k == Len(v)
             new == [cell EXCEPT !.text = Append(@, n)]
  <2>1. /\ current_cell = <<r, i>> /\ current_cell # <<>> /\ ~Suppressing
    BY DEF InCell
  <2>2. AddText(n)
    BY <1>1, <1>6, <2>0, <2>1 DEF Inspect, InspectData
  <2>3. LoadData(n) /\ in_td = TRUE /\ level = 1
    BY <1>1, <1>6, <2>0 DEF Read, InCell
  <2>4. CASE ~rejected'
    <3>1. /\ tables' = [tables EXCEPT ![Len(tables)][r][i].text = Append(@, n)]
          /\ UNCHANGED <<current_row, current_cell, table_depth, suppression_stack>>
      BY <2>1, <2>2, <2>4 DEF AddText, Reject
    <3>2. /\ cur_cell' = Append(cur_cell, n)
          /\ UNCHANGED <<loaded, level, in_tr, in_td, cur_table, cur_row, attrs, failed>>
      BY <2>3 DEF LoadData
    <3>3. new \in ProperCells /\ new.text = Append(cell.text, n) /\ new.colspan = cell.colspan
      <4>1. cell.text \in Seq(Nat) /\ n \in Nat
        BY DEF ProperCells
      <4>2. Append(cell.text, n) \in Seq(Nat)
        BY <4>1
      <4> QED BY <4>2 DEF ProperCells
    <3> DEFINE x2 == Append(row, new)
               u2 == Append(rows, x2)
               v2 == Append(ts, u2)
    <3>4. x2 \in Seq(ProperCells) /\ [x EXCEPT ![Len(x)] = new] = x2
      <4> HIDE DEF new
      <4> QED BY <3>3, AppendProperties, LastReplaced
    <3>5. u2 \in Seq(Seq(ProperCells)) /\ [u EXCEPT ![Len(u)] = x2] = u2
      <4> HIDE DEF x, x2
      <4> QED BY <1>2, <3>4, AppendProperties, LastReplaced
    <3>6. [v EXCEPT ![Len(v)] = u2] = v2
      <4> HIDE DEF u, u2
      <4> QED BY <1>3, <3>5, LastReplaced
    <3>7. tables' = [v EXCEPT ![k] = [v[k] EXCEPT ![r] = [v[k][r] EXCEPT ![i] =
                       [v[k][r][i] EXCEPT !.text = Append(v[k][r][i].text, n)]]]]
      BY <1>4, <3>1
    <3>8. new = [cell EXCEPT !.text = Append(cell.text, n)]
      OBVIOUS
    <3>9. tables' = v2
      <4> HIDE DEF x, u, v, x2, u2, v2, new
      <4> QED BY <1>2, <1>3, <1>4, <3>4, <3>5, <3>6, <3>7, <3>8
    <3>10. Open(CellOpen)'
      BY <1>1, <1>6, <3>1, OpenMoves, OpenedAlone
    <3>11. InCell(ts, rows, row, new)'
      <4> HIDE DEF new
      <4> QED BY <3>1, <3>2, <3>3, <3>9 DEF InCell
    <3> HIDE DEF new
    <3> QED BY <3>2, <3>3, <3>10, <3>11 DEF Alike
  <2> QED BY <2>4
<1> QED BY <1>1, <1>5, <1>6, RegularTokens

-----------------------------------------------------------------------------
LEMMA InitAlike ==
  ASSUME Init PROVE AlikeInv
<1>1. <<>> \in Bases /\ open = <<>> /\ suppression_stack = <<>>
  BY DEF Init, InspectionInit, Bases
<1>2. Open(<<>>)
  <2>1. <<>> \o <<>> = <<>> /\ <<>> \in Seq(Containers)
    OBVIOUS
  <2> QED BY <1>1, <2>1 DEF Open
<1>3. BetweenTables(<<>>) /\ <<>> \in Seq(Seq(Seq(ProperCells)))
  BY ExpandEmpty DEF BetweenTables, Init, InspectionInit, LoadingInit
<1>4. Alike
  BY <1>2, <1>3 DEF Alike
<1> QED BY <1>4 DEF AlikeInv, Init, InspectionInit, LoadingInit

LEMMA TokenAlike ==
  ASSUME NEW t \in Tokens, RegularToken(t), AlikeInv, TokensAssumption,
         "document" \notin Containers
  PROVE  AlikeInv'
<1>1. texts \in Nat /\ texts' \in Nat /\ Inspect(t, texts + 1)
  BY DEF RegularToken, Token, AlikeInv
<1>2. CASE rejected
  BY <1>1, <1>2, InspectRejected DEF AlikeInv
<1>3. CASE ~rejected
  <2>1. ~failed /\ Alike
    BY <1>3 DEF AlikeInv
  <2>2. CASE Suppressing \/ (t.kind = "start" /\ t.tag \in Containers)
    <3>1. ASSUME NEW base \in Bases, Open(base), in_td = TRUE => base = CellOpen,
                 in_td \in BOOLEAN
          PROVE  Open(base)' /\ UNCHANGED <<structure, rejected, collected>>
      BY <1>3, <2>1, <2>2, <3>1, ContainerToken
    <3>2. <<>> \in Bases /\ TableOpen \in Bases /\ RowOpen \in Bases /\ CellOpen \in Bases
      BY DEF Bases
    <3>3. ASSUME NEW ts \in Seq(Seq(Seq(ProperCells))), Open(<<>>), BetweenTables(ts)
          PROVE  ~failed' /\ Alike'
      <4>1. Open(<<>>)' /\ UNCHANGED <<structure, rejected, collected>>
        BY <3>1, <3>2, <3>3 DEF BetweenTables
      <4>2. BetweenTables(ts)'
        BY <3>3, <4>1 DEF BetweenTables, structure, collected
      <4> QED BY <2>1, <4>1, <4>2 DEF Alike, collected
    <3>4. ASSUME NEW ts \in Seq(Seq(Seq(ProperCells))), NEW rows \in Seq(Seq(ProperCells)),
                 Open(TableOpen), InTable(ts, rows)
          PROVE  ~failed' /\ Alike'
      <4>1. Open(TableOpen)' /\ UNCHANGED <<structure, rejected, collected>>
        BY <3>1, <3>2, <3>4 DEF InTable
      <4>2. InTable(ts, rows)'
        BY <3>4, <4>1 DEF InTable, structure, collected
      <4> QED BY <2>1, <4>1, <4>2 DEF Alike, collected
    <3>5. ASSUME NEW ts \in Seq(Seq(Seq(ProperCells))), NEW rows \in Seq(Seq(ProperCells)),
                 NEW row \in Seq(ProperCells), Open(RowOpen), InRow(ts, rows, row)
          PROVE  ~failed' /\ Alike'
      <4>1. Open(RowOpen)' /\ UNCHANGED <<structure, rejected, collected>>
        BY <3>1, <3>2, <3>5 DEF InRow
      <4>2. InRow(ts, rows, row)'
        BY <3>5, <4>1 DEF InRow, structure, collected
      <4> QED BY <2>1, <4>1, <4>2 DEF Alike, collected
    <3>6. ASSUME NEW ts \in Seq(Seq(Seq(ProperCells))), NEW rows \in Seq(Seq(ProperCells)),
                 NEW row \in Seq(ProperCells), NEW cell \in ProperCells,
                 Open(CellOpen), InCell(ts, rows, row, cell)
          PROVE  ~failed' /\ Alike'
      <4>1. Open(CellOpen)' /\ UNCHANGED <<structure, rejected, collected>>
        BY <3>1, <3>2, <3>6 DEF InCell
      <4>2. InCell(ts, rows, row, cell)'
        BY <3>6, <4>1 DEF InCell, structure, collected
      <4> QED BY <2>1, <4>1, <4>2 DEF Alike, collected
    <3> QED BY <1>1, <2>1, <3>3, <3>4, <3>5, <3>6 DEF Alike, AlikeInv
  <2>3. CASE ~(Suppressing \/ (t.kind = "start" /\ t.tag \in Containers))
    <3>1. rejected' \/ (~failed' /\ Alike')
      BY <1>1, <1>3, <2>1, <2>3, MovesBetween, MovesInTable, MovesInRow, MovesInCell
         DEF Alike
    <3> QED BY <1>1, <3>1 DEF AlikeInv
  <2> QED BY <2>2, <2>3
<1> QED BY <1>2, <1>3

LEMMA AlikeAgree ==
  ASSUME AlikeInv, open = <<>>, ~rejected
  PROVE  /\ ~failed /\ \E ts \in Seq(Seq(Seq(ProperCells))) :
                         tables = ts /\ loaded = AllExpanded(ts)
<1>1. ~failed /\ Alike
  BY DEF AlikeInv
<1>2. ASSUME NEW base \in {TableOpen, RowOpen, CellOpen} PROVE ~Open(base)
  <2> SUFFICES ASSUME Open(base) PROVE FALSE
    OBVIOUS
  <2>1. base \in Bases /\ suppression_stack \in Seq(Containers)
        /\ open = base \o suppression_stack
    BY DEF Bases, Open
  <2> DEFINE s == suppression_stack
             X == {"table", "tr", "td"}
             Y == X \cup Containers
  <2>2. base \in Seq(Y) /\ s \in Seq(Y) /\ base # <<>>
    <3>1. base \in Seq(X) /\ X \subseteq Y /\ Containers \subseteq Y
      BY <2>1, TheBases
    <3>2. base # <<>>
      BY DEF TableOpen, RowOpen, CellOpen
    <3> HIDE DEF X, Y
    <3> QED BY <2>1, <3>1, <3>2, SeqMonotonic
  <2> HIDE DEF s, Y
  <2>3. Len(base \o s) = Len(base) + Len(s) /\ Len(base) \in Nat /\ Len(s) \in Nat
    BY <2>2, ConcatProperties
  <2>4. Len(base) # 0
    BY <2>2
  <2>5. Len(base \o s) # 0
    BY <2>3, <2>4
  <2>6. base \o s = <<>>
    BY <2>1 DEF s
  <2> QED BY <2>5, <2>6
<1> QED BY <1>1, <1>2 DEF Alike, BetweenTables

LEMMA RegularStepAlike ==
  ASSUME AlikeInv, [RegularNext]_vars PROVE AlikeInv'
<1>1. ASSUME NEW t \in Alphabet, RegularToken(t) PROVE AlikeInv'
  <2>1. t \in Tokens /\ "document" \notin Containers
    BY ParsersAssumption
  <2> QED BY <1>1, <2>1, TokenAlike, TokensAssumption
<1>2. ASSUME UNCHANGED vars PROVE AlikeInv'
  BY <1>2 DEF AlikeInv, Alike, Open, BetweenTables, InTable, InRow, InCell,
              vars, inspected, collected, document
<1> QED BY <1>1, <1>2 DEF RegularNext

\* Between tables of a regular document that inspection does not reject, both
\* parsers have read the same tables, though one enters rows and cells when
\* they start and the other when they end; for any document, any containers
\* and any limits.
THEOREM ParsersReadAlike == RegularSpec => []ParsersAgree
<1>1. Init => AlikeInv
  BY InitAlike
<1>2. AlikeInv /\ [RegularNext]_vars => AlikeInv'
  BY RegularStepAlike
<1>3. AlikeInv => ParsersAgree
  BY AlikeAgree DEF ParsersAgree, AllExpanded
<1> QED BY <1>1, <1>2, <1>3, PTL DEF RegularSpec

-----------------------------------------------------------------------------
\* One of finitely many numbers is the largest.
LEMMA LargestExists ==
  ASSUME NEW n \in Nat, n > 0, NEW f \in [1..n -> Nat]
  PROVE  \E r \in 1..n : \A q \in 1..n : f[q] <= f[r]
<1> DEFINE Top(m) == \E r \in 1..m : \A q \in 1..m : f[q] <= f[r]
           P == {m \in Nat : m < n => Top(m + 1)}
<1>1. 0 \in P
  <2>1. \A q \in 1..1 : q = 1
    OBVIOUS
  <2>2. 1 \in 1..1 /\ 1 \in 1..n /\ f[1] \in Nat
    OBVIOUS
  <2> QED BY <2>1, <2>2
<1>2. ASSUME NEW m \in Nat, m \in P PROVE m + 1 \in P
  <2> SUFFICES ASSUME m + 1 < n PROVE Top(m + 2)
    OBVIOUS
  <2>1. PICK r \in 1..(m + 1) : \A q \in 1..(m + 1) : f[q] <= f[r]
    BY <1>2
  <2>2. /\ \A q \in 1..(m + 2) : q \in 1..n /\ f[q] \in Nat
        /\ \A q \in 1..(m + 2) : q \in 1..(m + 1) \/ q = m + 2
        /\ r \in 1..(m + 2) /\ m + 2 \in 1..(m + 2)
    BY <2>1
  <2>3. CASE f[r] <= f[m + 2]
    <3>1. \A q \in 1..(m + 2) : f[q] <= f[m + 2]
      BY <2>1, <2>2, <2>3
    <3> QED BY <2>2, <3>1
  <2>4. CASE ~(f[r] <= f[m + 2])
    <3>1. \A q \in 1..(m + 2) : f[q] <= f[r]
      BY <2>1, <2>2, <2>4
    <3> QED BY <2>2, <3>1
  <2> QED BY <2>3, <2>4
<1> HIDE DEF P
<1>3. n - 1 \in P
  <2>1. Nat \subseteq P
    BY <1>1, <1>2, Induction
  <2>2. n - 1 \in Nat
    OBVIOUS
  <2> QED BY <2>1, <2>2
<1>4. Top(n)
  BY <1>3 DEF P
<1> QED BY <1>4

Rowsets == Seq(Seq(Seq(Nat)))

LEMMA PaddedRows ==
  ASSUME NEW E \in Rowsets, E # <<>>
  PROVE  LET w == WidestOf(E)
             P == Padded(E)
         IN /\ w \in Nat /\ \A r \in DOMAIN E : Len(E[r]) <= w
            /\ P \in Rowsets /\ DOMAIN P = DOMAIN E /\ Len(P) = Len(E)
            /\ \A r \in DOMAIN E :
                 /\ Len(P[r]) = w /\ DOMAIN P[r] = 1..w
                 /\ \A i \in 1..w : P[r][i] = IF i <= Len(E[r]) THEN E[r][i] ELSE <<>>
<1> DEFINE n == Len(E)
           w == WidestOf(E)
           P == Padded(E)
           lens == {Len(E[r]) : r \in DOMAIN E}
<1>1. /\ n \in Nat /\ n > 0 /\ DOMAIN E = 1..n
      /\ \A r \in 1..n : E[r] \in Seq(Seq(Nat)) /\ Len(E[r]) \in Nat
  BY DEF Rowsets
<1> HIDE DEF n
<1>2. \E l \in lens : \A r \in DOMAIN E : Len(E[r]) <= l
  <2> DEFINE f == [r \in 1..n |-> Len(E[r])]
  <2>1. f \in [1..n -> Nat] /\ \A r \in 1..n : f[r] = Len(E[r])
    BY <1>1
  <2> HIDE DEF f
  <2>2. PICK r \in 1..n : \A q \in 1..n : f[q] <= f[r]
    BY <1>1, <2>1, LargestExists
  <2>3. Len(E[r]) \in lens
    BY <1>1
  <2> HIDE DEF lens
  <2>4. \A q \in DOMAIN E : Len(E[q]) <= Len(E[r])
    BY <1>1, <2>1, <2>2
  <2> QED BY <2>3, <2>4
<1>3. w \in lens /\ \A r \in DOMAIN E : Len(E[r]) <= w
  BY <1>2 DEF WidestOf
<1>4. w \in Nat
  BY <1>1, <1>3
<1> HIDE DEF lens, w
<1> DEFINE Row(r) == [i \in 1..w |-> IF i <= Len(E[r]) THEN E[r][i] ELSE <<>>]
<1>5. ASSUME NEW r \in 1..n
      PROVE  /\ Row(r) \in Seq(Seq(Nat)) /\ Len(Row(r)) = w /\ DOMAIN Row(r) = 1..w
             /\ \A i \in 1..w : Row(r)[i] = IF i <= Len(E[r]) THEN E[r][i] ELSE <<>>
  <2> DEFINE e == E[r]
  <2>1. e \in Seq(Seq(Nat)) /\ Len(e) \in Nat /\ \A i \in 1..Len(e) : e[i] \in Seq(Nat)
    BY <1>1
  <2>2. <<>> \in Seq(Nat)
    OBVIOUS
  <2> HIDE DEF e
  <2>3. \A i \in 1..w : i <= Len(e) => i \in 1..Len(e)
    BY <1>4, <2>1
  <2>4. [i \in 1..w |-> IF i <= Len(e) THEN e[i] ELSE <<>>] \in [1..w -> Seq(Nat)]
    BY <2>1, <2>2, <2>3
  <2>5. Row(r) \in [1..w -> Seq(Nat)]
    BY <2>4 DEF e
  <2>6. \A i \in 1..w : Row(r)[i] = IF i <= Len(E[r]) THEN E[r][i] ELSE <<>>
    OBVIOUS
  <2> HIDE DEF Row
  <2> QED BY <1>4, <2>5, <2>6, SequenceOf
<1>6. P = [r \in 1..n |-> Row(r)]
  BY <1>1 DEF Padded, w
<1> HIDE DEF P, Row
<1>7. P \in [1..n -> Seq(Seq(Nat))] /\ \A r \in 1..n : P[r] = Row(r)
  BY <1>5, <1>6
<1>8. P \in Rowsets /\ DOMAIN P = 1..n /\ Len(P) = n
  BY <1>1, <1>7, SequenceOf DEF Rowsets
<1>9. \A r \in 1..n :
        /\ Len(P[r]) = w /\ DOMAIN P[r] = 1..w
        /\ \A i \in 1..w : P[r][i] = IF i <= Len(E[r]) THEN E[r][i] ELSE <<>>
  BY <1>5, <1>7
<1> QED BY <1>1, <1>3, <1>4, <1>8, <1>9 DEF w, P, n

\* The rows that are not blank, in their order.
LEMMA NotBlankRows ==
  ASSUME NEW rows \in Rowsets
  PROVE  LET kept == {r \in DOMAIN rows : ~Blank(rows[r])} IN
         /\ Len(NotBlank(rows)) = Cardinality(kept) /\ Cardinality(kept) \in Nat
         /\ DOMAIN NotBlank(rows) = 1..Cardinality(kept)
         /\ \A k \in 1..Cardinality(kept) :
              Nth(k, kept) \in kept /\ NotBlank(rows)[k] = rows[Nth(k, kept)]
         /\ \A r \in kept : \E k \in DOMAIN NotBlank(rows) : NotBlank(rows)[k] = rows[r]
<1> DEFINE n == Len(rows)
           kept == {r \in DOMAIN rows : ~Blank(rows[r])}
           many == Cardinality(kept)
           s == NotBlank(rows)
<1>1. n \in Nat /\ kept \in SUBSET (1..n)
  BY DEF Rowsets
<1>2. s = [k \in 1..many |-> rows[Nth(k, kept)]]
  BY DEF NotBlank
<1> HIDE DEF n, kept, s
<1>3. /\ many \in Nat /\ \A k \in 1..many : Nth(k, kept) \in kept
      /\ \A r \in kept : Rank(r, kept) \in 1..many /\ Nth(Rank(r, kept), kept) = r
  BY <1>1, NthOfSome
<1> HIDE DEF many
<1>4. Len(s) = many /\ DOMAIN s = 1..many /\ \A k \in 1..many : s[k] = rows[Nth(k, kept)]
  BY <1>2, <1>3
<1>5. \A r \in kept : \E k \in DOMAIN s : s[k] = rows[r]
  BY <1>3, <1>4
<1> QED BY <1>3, <1>4, <1>5 DEF kept, many, s

LEMMA NotBlankSame ==
  ASSUME NEW rows, NEW others, DOMAIN rows = DOMAIN others,
         \A r \in DOMAIN rows : /\ Blank(rows[r]) <=> Blank(others[r])
                                /\ ~Blank(rows[r]) => rows[r] = others[r],
         NEW n \in Nat, DOMAIN rows = 1..n
  PROVE  NotBlank(rows) = NotBlank(others)
<1> DEFINE kept == {r \in DOMAIN rows : ~Blank(rows[r])}
           those == {r \in DOMAIN others : ~Blank(others[r])}
<1>1. kept = those /\ kept \in SUBSET (1..n) /\ \A r \in kept : rows[r] = others[r]
  OBVIOUS
<1>2. /\ NotBlank(rows) = [k \in 1..Cardinality(kept) |-> rows[Nth(k, kept)]]
      /\ NotBlank(others) = [k \in 1..Cardinality(those) |-> others[Nth(k, those)]]
  BY DEF NotBlank
<1> HIDE DEF kept, those
<1>3. \A k \in 1..Cardinality(kept) : Nth(k, kept) \in kept
  BY <1>1, NthOfSome
<1> QED BY <1>1, <1>2, <1>3

-----------------------------------------------------------------------------
\* What is proposed for a table and what is loaded from it.
LEMMA TableDescribed ==
  ASSUME NEW E \in Rowsets, E # <<>>, ~Blank(E[1]),
         \A r \in DOMAIN NotBlank(Tail(E)) : Len(NotBlank(Tail(E))[r]) = Len(E[1])
  PROVE  LET width == Len(E[1])
             P == Padded(E)
             D == RemoveAt(P, 1)
         IN /\ width <= Len(P[1]) /\ SubSeq(P[1], 1, width) = E[1]
            /\ NotBlank([i \in DOMAIN D |-> SubSeq(D[i], 1, width)]) = NotBlank(Tail(E))
            /\ \A i \in DOMAIN P : Blank(SubSeq(P[i], width + 1, Len(P[1])))
<1> DEFINE n == Len(E)
           width == Len(E[1])
           w == WidestOf(E)
           P == Padded(E)
           T == Tail(E)
           D == RemoveAt(P, 1)
           Q == [i \in DOMAIN D |-> SubSeq(D[i], 1, width)]
<1>0. \A k \in DOMAIN NotBlank(T) : Len(NotBlank(T)[k]) = width
  OBVIOUS
<1>1. /\ n \in Nat /\ n > 0 /\ DOMAIN E = 1..n /\ 1 \in 1..n
      /\ \A r \in 1..n : E[r] \in Seq(Seq(Nat)) /\ Len(E[r]) \in Nat /\ DOMAIN E[r] = 1..Len(E[r])
  BY DEF Rowsets
<1>2. /\ T \in Rowsets /\ Len(T) = n - 1 /\ DOMAIN T = 1..(n - 1)
      /\ \A i \in 1..(n - 1) : T[i] = E[i + 1] /\ i + 1 \in 1..n
  <2>1. /\ T \in Rowsets /\ Len(T) = n - 1 /\ \A i \in 1..Len(T) : T[i] = E[i + 1]
    BY HeadTailProperties DEF Rowsets
  <2> HIDE DEF T, n
  <2>2. DOMAIN T = 1..Len(T)
    BY <2>1 DEF Rowsets
  <2> QED BY <1>1, <2>1, <2>2
<1>3. /\ w \in Nat /\ \A r \in 1..n : Len(E[r]) <= w
      /\ P \in Rowsets /\ DOMAIN P = 1..n /\ Len(P) = n
      /\ \A r \in 1..n :
           /\ Len(P[r]) = w /\ DOMAIN P[r] = 1..w
           /\ \A i \in 1..w : P[r][i] = IF i <= Len(E[r]) THEN E[r][i] ELSE <<>>
  BY <1>1, PaddedRows
<1> HIDE DEF n, w, P, T
<1>4. width \in Nat /\ width <= w /\ Len(P[1]) = w
  BY <1>1, <1>3
<1>5. /\ D \in Rowsets /\ DOMAIN D = 1..(n - 1)
      /\ \A i \in 1..(n - 1) : D[i] = P[i + 1]
  <2> DEFINE S == Seq(Seq(Nat))
             tail == SubSeq(P, 2, n)
  <2>1. \A i \in 2..n : P[i] \in S
    BY <1>1, <1>3 DEF Rowsets
  <2> HIDE DEF S
  <2>2. /\ tail \in Seq(S) /\ Len(tail) = IF 2 <= n THEN n - 2 + 1 ELSE 0
        /\ \A i \in 1..(n - 2 + 1) : tail[i] = P[2 + i - 1]
    BY <1>1, <2>1, SubSeqProperties
  <2>3. SubSeq(P, 1, 0) = <<>>
    BY SubSeqEmpty
  <2>4. D = <<>> \o tail
    BY <1>3, <2>3 DEF RemoveAt
  <2> HIDE DEF tail
  <2>5. D = tail
    BY <2>2, <2>4
  <2>6. Len(tail) = n - 1 /\ DOMAIN tail = 1..(n - 1)
    BY <1>1, <2>2
  <2>7. \A i \in 1..(n - 1) : i \in 1..(n - 2 + 1) /\ 2 + i - 1 = i + 1
    BY <1>1
  <2> HIDE DEF D
  <2> QED BY <2>2, <2>5, <2>6, <2>7 DEF Rowsets, S
\* Rows with text are as wide as the header.
<1>6. ASSUME NEW r \in 1..n, ~Blank(E[r]) PROVE Len(E[r]) = width
  <2>1. CASE r = 1
    BY <2>1
  <2>2. CASE r # 1
    <3>1. r - 1 \in 1..(n - 1) /\ T[r - 1] = E[r]
      BY <1>1, <1>2, <2>2
    <3>2. PICK k \in DOMAIN NotBlank(T) : NotBlank(T)[k] = T[r - 1]
      BY <1>2, <1>6, <3>1, NotBlankRows
    <3>3. Len(NotBlank(T)[k]) = width
      BY <1>0
    <3> QED BY <3>1, <3>2, <3>3
  <2> QED BY <2>1, <2>2
<1>7. ASSUME NEW r \in 1..n
      PROVE  LET q == SubSeq(P[r], 1, width) IN
             /\ DOMAIN q = 1..width /\ Len(q) = width /\ q \in Seq(Seq(Nat))
             /\ \A i \in 1..width : q[i] = P[r][i]
  <2> DEFINE p == P[r]
             q == SubSeq(p, 1, width)
  <2>1. p \in Seq(Seq(Nat)) /\ Len(p) = w
    BY <1>3 DEF Rowsets
  <2> HIDE DEF p, width
  <2>2. \A i \in 1..width : p[i] \in Seq(Nat)
    BY <1>4, <2>1
  <2>3. /\ q \in Seq(Seq(Nat)) /\ Len(q) = IF 1 <= width THEN width - 1 + 1 ELSE 0
        /\ \A i \in 1..(width - 1 + 1) : q[i] = p[1 + i - 1]
    BY <1>4, <2>2, SubSeqProperties
  <2> HIDE DEF q
  <2>4. Len(q) = width
    BY <1>4, <2>3
  <2>5. \A i \in 1..width : i \in 1..(width - 1 + 1) /\ 1 + i - 1 = i
    BY <1>4
  <2>6. DOMAIN q = 1..width
    BY <2>3, <2>4
  <2> QED BY <2>3, <2>4, <2>5, <2>6 DEF p, q, width
<1>8. ASSUME NEW r \in 1..n, ~Blank(E[r]) PROVE SubSeq(P[r], 1, width) = E[r]
  <2> DEFINE q == SubSeq(P[r], 1, width)
             e == E[r]
  <2>1. Len(e) = width
    BY <1>6, <1>8
  <2>2. e \in Seq(Seq(Nat)) /\ DOMAIN e = 1..width
    BY <1>1, <2>1
  <2>3. /\ q \in Seq(Seq(Nat)) /\ DOMAIN q = 1..width /\ Len(q) = width
        /\ \A i \in 1..width : q[i] = P[r][i]
    BY <1>7
  <2>4. \A i \in 1..width : P[r][i] = e[i]
    BY <1>3, <1>4, <2>1
  <2> HIDE DEF q, e, width
  <2>5. q = [i \in 1..width |-> q[i]] /\ e = [i \in 1..width |-> e[i]]
    BY <2>2, <2>3
  <2>6. \A i \in 1..width : q[i] = e[i]
    BY <2>3, <2>4
  <2>7. q = e
    BY <2>5, <2>6
  <2> QED BY <2>7 DEF q, e
<1>9. ASSUME NEW r \in 1..n, Blank(E[r]) PROVE \A i \in 1..w : P[r][i] = <<>>
  <2>1. \A i \in 1..Len(E[r]) : E[r][i] = <<>>
    BY <1>1, <1>9 DEF Blank
  <2>2. \A i \in 1..w : i <= Len(E[r]) => i \in 1..Len(E[r])
    BY <1>1, <1>3
  <2>3. \A i \in 1..w : P[r][i] = IF i <= Len(E[r]) THEN E[r][i] ELSE <<>>
    BY <1>3
  <2> QED BY <2>1, <2>2, <2>3
<1>10. ASSUME NEW r \in 1..n PROVE Blank(SubSeq(P[r], width + 1, w))
  <2> DEFINE p == P[r]
             q == SubSeq(p, width + 1, w)
  <2>1. \A i \in 1..w : i > width => p[i] = <<>>
    <3>1. CASE Blank(E[r])
      BY <1>9, <3>1
    <3>2. CASE ~Blank(E[r])
      BY <1>3, <1>4, <1>6, <3>2
    <3> QED BY <3>1, <3>2
  <2> HIDE DEF p, width
  <2>2. \A i \in (width + 1)..w : i \in 1..w /\ i > width
    BY <1>4
  <2>3. \A i \in (width + 1)..w : p[i] \in {<<>>}
    BY <2>1, <2>2
  <2>4. width + 1 \in Int /\ w \in Int
    BY <1>3, <1>4
  <2>5. q \in Seq({<<>>})
    BY <2>3, <2>4, SubSeqProperties
  <2> HIDE DEF q
  <2>6. \A i \in DOMAIN q : q[i] = <<>>
    BY <2>5
  <2> QED BY <2>6 DEF Blank, p, q, width
<1>11. NotBlank(Q) = NotBlank(T)
  <2>1. DOMAIN Q = 1..(n - 1) /\ \A i \in 1..(n - 1) : Q[i] = SubSeq(P[i + 1], 1, width)
    BY <1>5
  <2> HIDE DEF Q
  <2>2. ASSUME NEW i \in 1..(n - 1)
        PROVE  (Blank(Q[i]) <=> Blank(T[i])) /\ (~Blank(Q[i]) => Q[i] = T[i])
    <3>1. i + 1 \in 1..n /\ T[i] = E[i + 1] /\ Q[i] = SubSeq(P[i + 1], 1, width)
      BY <1>2, <2>1
    <3>2. CASE ~Blank(E[i + 1])
      BY <1>8, <3>1, <3>2
    <3>3. CASE Blank(E[i + 1])
      <4>1. \A j \in 1..width : P[i + 1][j] = <<>>
        BY <1>4, <1>9, <3>1, <3>3
      <4>2. Blank(Q[i])
        BY <1>7, <3>1, <4>1 DEF Blank
      <4> QED BY <3>1, <3>3, <4>2
    <3> QED BY <3>2, <3>3
  <2>3. n - 1 \in Nat
    BY <1>1
  <2> QED BY <1>2, <2>1, <2>2, <2>3, NotBlankSame
<1>12. SubSeq(P[1], 1, width) = E[1]
  BY <1>1, <1>8
<1>13. width <= Len(P[1]) /\ \A i \in DOMAIN P : Blank(SubSeq(P[i], width + 1, Len(P[1])))
  BY <1>3, <1>4, <1>10
<1> QED BY <1>11, <1>12, <1>13 DEF P, T

-----------------------------------------------------------------------------
(* The proposal of a regular document.                                     *)

LEMMA ExpandedTable ==
  ASSUME NEW rows \in Seq(Seq(ProperCells)) PROVE Expanded(rows) \in Rowsets
<1>1. <<>> \in Seq(ProperCells)
  OBVIOUS
<1> QED BY <1>1, ExpandedAppend DEF Rowsets

\* The first table that is as large as any.
LEMMA OnlyTable ==
  ASSUME NEW T, NEW E, T = <<E>>, E \in Rowsets, loaded = T, Usable # {}
  PROVE  E # <<>> /\ ~Blank(E[1]) /\ Primary = [header |-> E[1], rows |-> NotBlank(Tail(E))]
<1>1. DOMAIN loaded = {1} /\ loaded[1] = E
  OBVIOUS
<1>2. Usable = {1} /\ E # <<>> /\ ~Blank(E[1])
  BY <1>1 DEF Usable
<1> DEFINE x == Extracted(E)
<1>3. x = [header |-> E[1], rows |-> NotBlank(Tail(E))]
  BY <1>2 DEF Extracted
<1>4. Area(x) \in Int
  <2>1. Tail(E) \in Rowsets /\ E[1] \in Seq(Seq(Nat))
    BY <1>2, HeadTailProperties DEF Rowsets
  <2>2. Len(NotBlank(Tail(E))) \in Nat /\ Len(E[1]) \in Nat
    BY <2>1, NotBlankRows
  <2> DEFINE a == Len(E[1])
             b == IF NotBlank(Tail(E)) = <<>> THEN 1 ELSE Len(NotBlank(Tail(E)))
  <2>3. a \in Int /\ b \in Int
    BY <2>2
  <2>4. Area(x) = a * b
    BY <1>3 DEF Area
  <2> HIDE DEF a, b
  <2> QED BY <2>3, <2>4
<1> HIDE DEF x
<1> DEFINE largest == {i \in Usable : \A j \in Usable :
                         Area(Extracted(loaded[j])) <= Area(Extracted(loaded[i]))}
<1>5. \A i \in Usable : i = 1 /\ Extracted(loaded[i]) = x
  BY <1>1, <1>2 DEF x
<1>6. largest = {1}
  BY <1>2, <1>4, <1>5
<1>7. Primary = Extracted(loaded[CHOOSE i \in largest : \A j \in largest : i <= j])
  BY DEF Primary
<1> HIDE DEF largest
<1>8. (CHOOSE i \in largest : \A j \in largest : i <= j) = 1
  BY <1>6
<1> QED BY <1>1, <1>2, <1>3, <1>7, <1>8 DEF x

\* Between tables of a regular document, one table, both proposed and loaded.
LEMMA OneTableDescribed ==
  ASSUME NEW E \in Rowsets, ProposalRows = Padded(E), Len(tables) = 1,
         E # <<>>, ~Blank(E[1]),
         Primary = [header |-> E[1], rows |-> NotBlank(Tail(E))],
         \A r \in DOMAIN Primary.rows : Len(Primary.rows[r]) = Len(Primary.header)
  PROVE  LET width == Len(Primary.header)
             Described(row) == SubSeq(row, 1, width)
         IN /\ width <= Len(ProposalHeader)
            /\ Described(ProposalHeader) = Primary.header
            /\ NotBlank([i \in DOMAIN ProposalData |-> Described(ProposalData[i])])
                 = Primary.rows
            /\ \A i \in DOMAIN ProposalRows :
                 Blank(SubSeq(ProposalRows[i], width + 1, Len(ProposalHeader)))
<1> DEFINE width == Len(E[1])
           P == Padded(E)
           T == Tail(E)
<1>1. Primary.header = E[1] /\ Primary.rows = NotBlank(T)
  OBVIOUS
<1>2. \A r \in DOMAIN NotBlank(T) : Len(NotBlank(T)[r]) = Len(E[1])
  BY <1>1
<1>3. /\ width <= Len(P[1]) /\ SubSeq(P[1], 1, width) = E[1]
      /\ NotBlank([i \in DOMAIN RemoveAt(P, 1) |-> SubSeq(RemoveAt(P, 1)[i], 1, width)])
           = NotBlank(T)
      /\ \A i \in DOMAIN P : Blank(SubSeq(P[i], width + 1, Len(P[1])))
  BY <1>2, TableDescribed
<1>4. HeaderIndex = 1
  <2>1. /\ DOMAIN P = 1..Len(E) /\ Len(E) \in Nat /\ Len(E) > 0
        /\ Len(P[1]) \in Nat /\ DOMAIN P[1] = 1..Len(P[1])
        /\ E[1] \in Seq(Seq(Nat)) /\ DOMAIN E[1] = 1..width /\ width \in Nat
        /\ Len(E[1]) <= Len(P[1])
        /\ \A i \in 1..Len(P[1]) : P[1][i] = IF i <= Len(E[1]) THEN E[1][i] ELSE <<>>
    <3>1. Len(E) \in Nat /\ Len(E) > 0 /\ 1 \in DOMAIN E /\ DOMAIN E = 1..Len(E)
          /\ E[1] \in Seq(Seq(Nat))
      BY DEF Rowsets
    <3>2. /\ WidestOf(E) \in Nat /\ Len(E[1]) <= WidestOf(E) /\ DOMAIN P = DOMAIN E
          /\ Len(P[1]) = WidestOf(E) /\ DOMAIN P[1] = 1..WidestOf(E)
          /\ \A i \in 1..WidestOf(E) : P[1][i] = IF i <= Len(E[1]) THEN E[1][i] ELSE <<>>
      BY <3>1, PaddedRows
    <3> HIDE DEF P
    <3> QED BY <3>1, <3>2
  <2>2. PICK i \in 1..width : E[1][i] # <<>>
    BY <2>1 DEF Blank
  <2>3. i \in 1..Len(P[1]) /\ P[1][i] # <<>>
    BY <2>1, <2>2
  <2> HIDE DEF P, width
  <2>4. ~Blank(P[1])
    BY <2>1, <2>3 DEF Blank
  <2> DEFINE first(k) == ~Blank(P[k]) /\ \A j \in 1..(k - 1) : Blank(P[j])
  <2>5. first(1) /\ 1 \in DOMAIN P
    BY <2>1, <2>4
  <2>6. ASSUME NEW k \in DOMAIN P, first(k) PROVE k = 1
    <3>1. k \in Nat /\ k >= 1
      BY <2>1
    <3>2. ~(1 \in 1..(k - 1))
      BY <2>4, <2>6
    <3> QED BY <3>1, <3>2
  <2>7. HeaderIndex = CHOOSE k \in DOMAIN P : first(k)
    BY DEF HeaderIndex, P
  <2> HIDE DEF first
  <2> QED BY <2>5, <2>6, <2>7
<1>5. ProposalRows = P /\ ProposalHeader = P[1] /\ ProposalData = RemoveAt(P, 1)
  BY <1>4 DEF ProposalHeader, ProposalData
<1> HIDE DEF P, T
<1> QED BY <1>1, <1>3, <1>5

\* A schema proposed for a regular document describes what is loaded from it:
\* the same header and rows, but for blank rows and blank columns to the
\* right; for any document, any containers and any limits.
THEOREM ProposalsDescribeLoads == RegularSpec => []ProposalDescribesLoad
<1>1. Init => AlikeInv
  BY InitAlike
<1>2. AlikeInv /\ [RegularNext]_vars => AlikeInv'
  BY RegularStepAlike
<1>3. AlikeInv => ProposalDescribesLoad
  <2> SUFFICES ASSUME AlikeInv, open = <<>>, CanPropose, CanLoad
               PROVE  ProposalDescribesLoad
    BY DEF ProposalDescribesLoad
  <2>1. PICK ts \in Seq(Seq(Seq(ProperCells))) : tables = ts /\ loaded = AllExpanded(ts)
    BY AlikeAgree DEF CanPropose
  <2> DEFINE E == Expanded(ts[1])
  <2>2. Len(ts) = 1 /\ ts[1] \in Seq(Seq(ProperCells)) /\ DOMAIN ts = {1}
    BY <2>1 DEF CanPropose
  <2>3. E \in Rowsets
    BY <2>2, ExpandedTable
  <2>4. loaded = <<E>>
    BY <2>1, <2>2 DEF AllExpanded
  <2>5. ProposalRows = Padded(E) /\ Len(tables) = 1
    BY <2>1, <2>2 DEF ProposalRows
  <2> HIDE DEF E
  <2>6. /\ E # <<>> /\ ~Blank(E[1])
        /\ Primary = [header |-> E[1], rows |-> NotBlank(Tail(E))]
    BY <2>3, <2>4, OnlyTable DEF CanLoad
  <2>7. \A r \in DOMAIN Primary.rows : Len(Primary.rows[r]) = Len(Primary.header)
    BY DEF CanLoad
  <2> QED BY <2>3, <2>5, <2>6, <2>7, OneTableDescribed DEF ProposalDescribesLoad
<1> QED BY <1>1, <1>2, <1>3, PTL DEF RegularSpec
=============================================================================
