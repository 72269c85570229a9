--------------------------- MODULE DocumentsProofs ---------------------------
(***************************************************************************)
(* Proofs about Documents: the reader for every budget, chunk and file     *)
(* size, the root of every message, the two type inferences for every      *)
(* column, the names of columns for every list of headers, their comments  *)
(* for every mapping document.                                             *)
(***************************************************************************)
EXTENDS Documents, SpanProjectionProofs

\* While the file is read its size never falls below what has been read, and
\* the reader stops as soon as the byte beyond the budget is there.
ReaderInv ==
  /\ source \in Nat /\ size \in Nat
  /\ source <= size
  /\ SourceReadWhole

LEMMA ReaderInitially == ReaderIdle => ReaderInv
  BY ReaderAssumption DEF ReaderIdle, ReaderInv, SourceReadWhole

LEMMA OpenPreserves == OpenSource => ReaderInv'
  BY ReaderAssumption DEF OpenSource, ReaderInv, SourceReadWhole

LEMMA ForgetPreserves == ForgetSource => ReaderInv'
  BY ReaderAssumption DEF ForgetSource, ReaderInv, SourceReadWhole

LEMMA ReadPreserves ==
  ASSUME ReaderInv, ReaderNext PROVE ReaderInv'
<1> USE ReaderAssumption DEF ReaderInv, SourceReadWhole
<1>1. CASE ReadChunk
  <2> DEFINE got == Smallest(Smallest(Chunk, Remaining(source)), size - source)
  <2>1. /\ source <= MaxSource /\ source' = source + got /\ size' = size
        /\ reading' = IF got = 0 THEN "read" ELSE "open"
    BY <1>1 DEF ReadChunk
  <2>2. /\ got \in Nat /\ got <= size - source /\ got <= MaxSource + 1 - source
        /\ got = 0 => size = source
    BY <2>1 DEF Smallest, Remaining
  <2> HIDE DEF got
  <2> QED
    BY <2>1, <2>2
<1>2. CASE SourceTooLarge
  BY <1>2 DEF SourceTooLarge
<1>3. CASE ReadFails
  BY <1>3 DEF ReadFails
<1>4. CASE FileGrows
  BY <1>4 DEF FileGrows
<1> QED
  BY <1>1, <1>2, <1>3, <1>4 DEF ReaderNext

\* A step of another part of the gateway leaves the reader alone.
LEMMA OthersPreserve == ReaderInv /\ UNCHANGED readerVars => ReaderInv'
  BY DEF ReaderInv, SourceReadWhole, readerVars

LEMMA DocumentsStepPreserves == ReaderInv /\ [Next]_vars => ReaderInv'
<1> SUFFICES ASSUME ReaderInv, [Next]_vars PROVE ReaderInv'
  OBVIOUS
<1>1. CASE BeginInspection
  BY <1>1, OpenPreserves DEF BeginInspection
<1>2. CASE SourceReturned \/ Return
  BY <1>2, ForgetPreserves DEF SourceReturned, Return
<1>3. CASE ParseSource \/ HtmlReturned
  BY <1>3, OthersPreserve DEF ParseSource, HtmlReturned, MimeStep
<1>4. CASE ExtractTables
  BY <1>4, OthersPreserve DEF ExtractTables, SpanStep
<1>5. CASE BeginConversion \/ TypesReturned
  BY <1>5, OthersPreserve DEF BeginConversion, TypesReturned, TypeStep
<1>6. CASE NameColumns
  BY <1>6, OthersPreserve DEF NameColumns, NameStep
<1>7. CASE MapColumns
  BY <1>7, OthersPreserve DEF MapColumns, CommentStep
<1>8. CASE Step
  BY <1>8, ReadPreserves, OthersPreserve
  DEF Step, MimeStep, SpanStep, NameStep, CommentStep
<1>9. CASE UNCHANGED vars
  BY <1>9, OthersPreserve DEF vars
<1> QED
  BY <1>1, <1>2, <1>3, <1>4, <1>5, <1>6, <1>7, <1>8, <1>9 DEF Next

\* A source is held up to one byte beyond the budget and no further, an
\* accepted one was read to its end, and only one over the budget is refused
\* for its size, whatever is appended to it meanwhile.
THEOREM SourceIsReadWhole == Spec => []SourceReadWhole
<1>1. Init => ReaderInv
  BY ReaderInitially DEF Init
<1>2. ReaderInv => SourceReadWhole
  BY DEF ReaderInv
<1> QED
  BY <1>1, <1>2, DocumentsStepPreserves, PTL DEF Spec

-----------------------------------------------------------------------------
(* The two inferred types of a column.                                     *)

\* infer_pg_type takes the first of its types that accepts every value.
LEMMA FirstAccepting ==
  ASSUME NEW vals, vals # {}, NEW k \in 1..6, vals \subseteq Attempts[k][2],
         \A j \in 1..(k - 1) : ~(vals \subseteq Attempts[j][2])
  PROVE  InferredType(vals) = Attempts[k][1]
<1> DEFINE accepting == {i \in DOMAIN Attempts : vals \subseteq Attempts[i][2]}
           first == CHOOSE i \in accepting : \A j \in accepting : i <= j
<1>1. DOMAIN Attempts = 1..6
  BY DEF Attempts
<1>2. k \in accepting /\ \A j \in accepting : k <= j
  BY <1>1
<1>3. first \in accepting /\ \A j \in accepting : first <= j
  BY <1>2
<1>4. first = k
  BY <1>1, <1>2, <1>3
<1>5. InferredType(vals) = Attempts[first][1]
  BY <1>2 DEF InferredType
<1> QED
  BY <1>4, <1>5

LEMMA AttemptsInOrder ==
  /\ Attempts[1] = <<"BOOLEAN", _is_bool>> /\ Attempts[2] = <<"BIGINT", _is_int>>
  /\ Attempts[3] = <<"NUMERIC", _is_numeric>> /\ Attempts[4] = <<"TIMESTAMP", _is_timestamp>>
  /\ Attempts[5] = <<"DATE", _is_date>>
  BY DEF Attempts

\* Only leading zeroes make an integer longer than its value.
LEMMA LongHasZeroes ==
  ASSUME NEW k \in Kinds, "long" \in k.marks PROVE "zero" \in k.marks
BY DEF Kinds, Written

Fits(vals, proposal) ==
  /\ \/ proposal \in {"TEXT", InferredType(vals)}
     \/ proposal = "DATE" /\ vals \subseteq Marked({"compact"})
  /\ proposal \in {"BIGINT", "NUMERIC"} => vals \cap _has_leading_zero = {}

LEMMA ProposalFits ==
  ASSUME NEW vals, NEW hints PROVE Fits(vals, ProposedType(vals, hints))
<1> DEFINE proposal == ProposedType(vals, hints)
<1> USE AttemptsInOrder
<1>1. CASE proposal = "BOOLEAN"
  <2>1. vals # {} /\ vals \subseteq _BOOLEAN_VALUES
    BY <1>1 DEF ProposedType
  <2>2. vals \subseteq Attempts[1][2]
    BY <2>1 DEF _BOOLEAN_VALUES, _is_bool, Form
  <2>3. InferredType(vals) = Attempts[1][1]
    <3>1. 1 \in 1..6 /\ \A j \in 1..(1 - 1) : ~(vals \subseteq Attempts[j][2])
      OBVIOUS
    <3> HIDE AttemptsInOrder
    <3> QED
      BY <2>1, <2>2, <3>1, FirstAccepting
  <2> QED
    BY <1>1, <2>3, AttemptsInOrder DEF Fits
<1>2. CASE proposal = "DATE"
  <2>1. vals # {} /\ vals \subseteq _is_valid_date
    BY <1>2 DEF ProposedType
  <2>2. CASE ~(vals \subseteq Marked({"compact"}))
    <3>1. PICK v \in vals : v.form = "iso_date"
      BY <2>1, <2>2 DEF _is_valid_date, Form
    <3>2. vals \subseteq Attempts[5][2]
      BY <2>1 DEF _is_valid_date, _is_date, Form, Marked
    <3>3. \A j \in 1..4 : ~(vals \subseteq Attempts[j][2])
      BY <3>1 DEF _is_bool, _is_int, _is_numeric, _is_timestamp, Form
    <3>4. InferredType(vals) = "DATE"
      BY <2>1, <3>2, <3>3, FirstAccepting
    <3> QED
      BY <1>2, <3>4 DEF Fits
  <2> QED
    BY <1>2, <2>2 DEF Fits
<1>3. CASE proposal = "BIGINT"
  <2>1. /\ vals # {} /\ vals \cap _has_leading_zero = {}
        /\ vals \subseteq _fits_signed_bigint
    BY <1>3 DEF ProposedType
  <2>2. vals \subseteq Attempts[2][2]
    BY <2>1 DEF _fits_signed_bigint, _INTEGER_VALUE, _is_int, Form, Marked
  <2>3. ~(vals \subseteq Attempts[1][2])
    <3>1. PICK v \in vals : v \notin _is_bool
      BY <2>1 DEF _fits_signed_bigint, _INTEGER_VALUE, _is_bool, Form
    <3> QED
      BY <3>1
  <2>4. InferredType(vals) = Attempts[2][1]
    <3> HIDE AttemptsInOrder
    <3>1. 2 \in 1..6 /\ \A j \in 1..(2 - 1) : ~(vals \subseteq Attempts[j][2])
      BY <2>3
    <3> QED
      BY <2>1, <2>2, <3>1, FirstAccepting
  <2> QED
    BY <1>3, <2>1, <2>4 DEF Fits
<1>4. CASE proposal = "NUMERIC"
  <2>1. /\ vals # {} /\ vals \cap _has_leading_zero = {}
        /\ \/ vals \subseteq _INTEGER_VALUE /\ ~(vals \subseteq _fits_signed_bigint)
           \/ vals \subseteq _DECIMAL_VALUE
    BY <1>4 DEF ProposedType
  <2>2. vals \subseteq Attempts[3][2]
    BY <2>1 DEF _INTEGER_VALUE, _DECIMAL_VALUE, _is_numeric, Form
  <2>3. PICK v \in vals : \/ v.form = "decimal"
                          \/ v.form = "digits" /\ v \in Marked({"wide"})
    <3>1. CASE vals \subseteq _DECIMAL_VALUE
      BY <2>1, <3>1 DEF _DECIMAL_VALUE, Form
    <3>2. CASE vals \subseteq _INTEGER_VALUE /\ ~(vals \subseteq _fits_signed_bigint)
      <4>1. PICK v \in vals : v \in Kinds /\ v.form = "digits" /\ v \notin _fits_signed_bigint
        BY <3>2 DEF _INTEGER_VALUE, Form
      <4>2. v \in Marked({"wide", "long"})
        BY <3>2, <4>1 DEF _fits_signed_bigint
      <4>3. "zero" \notin v.marks
        BY <2>1, <4>1 DEF _has_leading_zero, Marked
      <4>4. "long" \notin v.marks
        BY <4>1, <4>3, LongHasZeroes
      <4> QED
        BY <4>1, <4>2, <4>4 DEF Marked
    <3> QED
      BY <2>1, <3>1, <3>2
  <2>4. \A j \in 1..2 : ~(vals \subseteq Attempts[j][2])
    BY <2>3 DEF _is_bool, _is_int, Form
  <2>5. InferredType(vals) = "NUMERIC"
    BY <2>1, <2>2, <2>4, FirstAccepting
  <2> QED
    BY <1>4, <2>1, <2>5 DEF Fits
<1>5. proposal \in {"TEXT", "BOOLEAN", "DATE", "BIGINT", "NUMERIC"}
  BY DEF ProposedType
<1> QED
  BY <1>1, <1>2, <1>3, <1>4, <1>5 DEF Fits

\* A proposal never promises a column that a load of the same cells would
\* make of another type, nor one that drops leading zeroes, whatever the
\* cells and whatever the header suggests.
THEOREM ProposalsFitLoads == Spec => []ProposalFitsLoad
<1>1. Init => ProposalFitsLoad
  BY DEF Init, TypesIdle, ProposalFitsLoad
<1>2. ASSUME ProposalFitsLoad, [Next]_vars PROVE ProposalFitsLoad'
  <2>1. ASSUME UNCHANGED typeVars PROVE ProposalFitsLoad'
    BY <1>2, <2>1 DEF typeVars, ProposalFitsLoad
  <2>2. ASSUME ForgetTypes PROVE ProposalFitsLoad'
    BY <2>2 DEF ForgetTypes, ProposalFitsLoad
  <2>3. CASE BeginConversion
    <3>1. PICK vals \in ColumnValues, hints \in Meanings : TypeColumn(vals, hints)
      BY <2>3 DEF BeginConversion
    <3> QED
      BY <3>1, ProposalFits DEF TypeColumn, ProposalFitsLoad, Fits
  <2>4. CASE TypesReturned \/ Return
    BY <2>2, <2>4 DEF TypesReturned, Return
  <2>5. CASE \/ BeginInspection \/ SourceReturned \/ ParseSource \/ HtmlReturned
             \/ ExtractTables \/ NameColumns \/ MapColumns
    BY <2>1, <2>5
    DEF BeginInspection, SourceReturned, ParseSource, HtmlReturned, ExtractTables,
        NameColumns, MapColumns, ReadStep, MimeStep, SpanStep, NameStep, CommentStep
  <2>6. CASE Step
    BY <2>1, <2>6 DEF Step, ReadStep, MimeStep, SpanStep, NameStep, CommentStep
  <2>7. CASE UNCHANGED vars
    BY <2>1, <2>7 DEF vars
  <2> QED
    BY <1>2, <2>3, <2>4, <2>5, <2>6, <2>7 DEF Next
<1> QED
  BY <1>1, <1>2, PTL DEF Spec

-----------------------------------------------------------------------------
(* The names of the columns of a table.                                    *)

LEMMA CutProperties ==
  ASSUME NEW S, NEW s \in Seq(S), NEW n \in Nat
  PROVE  /\ Cut(s, n) \in Seq(S)
         /\ Len(Cut(s, n)) = IF Len(s) < n THEN Len(s) ELSE n
         /\ \A i \in 1..Len(Cut(s, n)) : Cut(s, n)[i] = s[i]
<1> DEFINE m == IF Len(s) < n THEN Len(s) ELSE n
<1>1. m \in Nat /\ m <= Len(s) /\ \A i \in 1..m : s[i] \in S
  OBVIOUS
<1>2. Cut(s, n) = SubSeq(s, 1, m)
  BY DEF Cut
<1> HIDE DEF m
<1>3. /\ SubSeq(s, 1, m) \in Seq(S)
      /\ Len(SubSeq(s, 1, m)) = IF 1 <= m THEN m - 1 + 1 ELSE 0
      /\ \A i \in 1..(m - 1 + 1) : SubSeq(s, 1, m)[i] = s[1 + i - 1]
  BY <1>1, SubSeqProperties
<1>4. Len(SubSeq(s, 1, m)) = m
  BY <1>1, <1>3
<1>5. \A i \in 1..m : SubSeq(s, 1, m)[i] = s[i]
  BY <1>1, <1>3
<1> QED
  BY <1>2, <1>3, <1>4, <1>5 DEF m

\* The tokens that a name may consist of.
Tokens(S) == Word("col") \in S /\ Word("source") \in S /\ Field \in S
             /\ (\A n \in Nat : Number(n) \in S)

LEMMA PrefixedProperties ==
  ASSUME NEW S, Tokens(S), NEW tokens \in Seq(S), tokens # <<>>,
         NEW prefix \in {"col", "source"}
  PROVE  /\ Prefixed(tokens, prefix) \in Seq(S)
         /\ Len(Prefixed(tokens, prefix)) >= Len(tokens)
         /\ ~IsNumber(Prefixed(tokens, prefix)[1])
<1>1. Len(tokens) \in Nat \ {0} /\ Head(tokens) = tokens[1]
  BY EmptySeq
<1>2. CASE IsNumber(Head(tokens))
  <2>1. Prefixed(tokens, prefix) = <<Word(prefix)>> \o tokens
    BY <1>2 DEF Prefixed
  <2>2. <<Word(prefix)>> \in Seq(S) /\ Word(prefix)[1] = "word"
    <3>1. Word(prefix) \in S
      BY DEF Tokens
    <3>2. Word(prefix)[1] = "word"
      BY DEF Word
    <3> QED
      BY <3>1, <3>2
  <2>3. /\ <<Word(prefix)>> \o tokens \in Seq(S)
        /\ Len(<<Word(prefix)>> \o tokens) = Len(tokens) + 1
        /\ (<<Word(prefix)>> \o tokens)[1] = Word(prefix)
    BY <1>1, <2>2
  <2> QED
    BY <1>1, <2>1, <2>2, <2>3 DEF IsNumber
<1>3. CASE ~IsNumber(Head(tokens))
  BY <1>1, <1>3 DEF Prefixed
<1> QED
  BY <1>2, <1>3

\* A name with a second token has one however it is cut.
LEMMA ExtendedIsMultiword ==
  ASSUME NEW S, NEW base \in Seq(S), Len(base) >= 1, ~IsNumber(base[1]),
         NEW n \in Nat, n >= 1, NEW rest \in Seq(S), Len(rest) >= 1,
         n + Len(rest) <= MaxTokens
  PROVE  /\ Cut(base, n) \o rest \in Seq(S)
         /\ IsMultiword(Cut(base, n) \o rest)
         /\ (Cut(base, n) \o rest)[1] = base[1]
         /\ Last(Cut(base, n) \o rest) = Last(rest)
<1> DEFINE front == Cut(base, n)
<1>1. /\ front \in Seq(S) /\ Len(front) \in 1..n /\ front[1] = base[1]
  BY CutProperties, SMTT(20)
<1>2. /\ front \o rest \in Seq(S) /\ Len(front \o rest) = Len(front) + Len(rest)
      /\ (front \o rest)[1] = front[1]
      /\ (front \o rest)[Len(front) + Len(rest)] = rest[Len(rest)]
  BY <1>1, ConcatProperties
<1> HIDE DEF front
<1>3. Len(front \o rest) \in 2..MaxTokens
  BY <1>1, <1>2, NamesAssumption
<1>4. Head(front \o rest) = (front \o rest)[1]
  BY <1>2, <1>3, NamesAssumption
<1> QED
  BY <1>1, <1>2, <1>3, <1>4 DEF IsMultiword, Last, front

LEMMA AppendedIsMultiword ==
  ASSUME NEW S, NEW base \in Seq(S), Len(base) >= 1, ~IsNumber(base[1]),
         NEW n \in Nat, n >= 1, NEW token \in S, n + 1 <= MaxTokens
  PROVE  /\ Append(Cut(base, n), token) \in Seq(S)
         /\ IsMultiword(Append(Cut(base, n), token))
<1>1. Append(Cut(base, n), token) = Cut(base, n) \o <<token>>
  BY CutProperties, AppendIsConcat
<1> DEFINE rest == <<token>>
<1>2. rest \in Seq(S) /\ Len(rest) = 1
  OBVIOUS
<1> HIDE DEF rest
<1>3. Len(rest) >= 1 /\ n + Len(rest) <= MaxTokens
  BY <1>2
<1>4. Cut(base, n) \o rest \in Seq(S) /\ IsMultiword(Cut(base, n) \o rest)
  BY <1>2, <1>3, ExtendedIsMultiword
<1> QED
  BY <1>1, <1>4 DEF rest

LEMMA CutIsMultiword ==
  ASSUME NEW S, NEW base \in Seq(S), Len(base) >= 2, ~IsNumber(base[1])
  PROVE  Cut(base, MaxTokens) \in Seq(S) /\ IsMultiword(Cut(base, MaxTokens))
<1>1. /\ Cut(base, MaxTokens) \in Seq(S) /\ Cut(base, MaxTokens)[1] = base[1]
      /\ Len(Cut(base, MaxTokens)) \in 2..MaxTokens
  BY CutProperties, NamesAssumption
<1>2. Head(Cut(base, MaxTokens)) = Cut(base, MaxTokens)[1]
  BY <1>1, NamesAssumption
<1> QED
  BY <1>1, <1>2 DEF IsMultiword

LEMMA SnakeNameIsMultiword ==
  ASSUME NEW S, Tokens(S), NEW tokens \in Seq(S), tokens # <<>>
  PROVE  /\ SnakeName(tokens) \in Seq(S)
         /\ IsMultiword(SnakeName(tokens))
<1> DEFINE base == Prefixed(tokens, "col")
<1>1. /\ base \in Seq(S) /\ Len(base) >= Len(tokens) /\ ~IsNumber(base[1])
      /\ Len(tokens) \in Nat /\ Len(tokens) >= 1 /\ Len(base) \in Nat
  BY PrefixedProperties, EmptySeq
<1> HIDE DEF base
<1>2. CASE Len(tokens) = 1
  <2> DEFINE rest == <<Field>>
             n == MaxTokens - 1
  <2>1. rest \in Seq(S) /\ Len(rest) = 1
    BY DEF Tokens
  <2>2. n \in Nat /\ n >= 1 /\ n + 1 <= MaxTokens
    BY NamesAssumption
  <2> HIDE DEF rest, n
  <2>3. /\ base \in Seq(S) /\ Len(base) >= 1 /\ ~IsNumber(base[1])
        /\ n \in Nat /\ n >= 1
        /\ rest \in Seq(S) /\ Len(rest) >= 1 /\ n + Len(rest) <= MaxTokens
    BY <1>1, <2>1, <2>2
  <2>4. Cut(base, n) \o rest \in Seq(S) /\ IsMultiword(Cut(base, n) \o rest)
    BY ONLY <2>3, ExtendedIsMultiword
  <2> QED
    BY <1>2, <2>4 DEF SnakeName, base, rest, n
<1>3. CASE Len(tokens) # 1
  <2>1. Len(base) >= 2
    <3>1. \A l, m \in Nat : l >= 1 /\ l # 1 /\ m >= l => m >= 2
      OBVIOUS
    <3> QED
      BY <1>1, <1>3, <3>1, Zenon
  <2>2. Cut(base, MaxTokens) \in Seq(S) /\ IsMultiword(Cut(base, MaxTokens))
    BY <1>1, <2>1, CutIsMultiword
  <2> QED
    BY <1>3, <2>2 DEF SnakeName, base
<1> QED
  BY <1>2, <1>3

\* What a candidate with a number is made of.
LEMMA PresentNumbered ==
  ASSUME NEW S, Tokens(S), NEW base \in Seq(S), IsMultiword(base), NEW n \in Nat, n >= 2
  PROVE  /\ PresentCandidate(base, n) \in Seq(S)
         /\ IsMultiword(PresentCandidate(base, n))
         /\ Last(PresentCandidate(base, n)) = Number(n)
<1>1. Len(base) \in 2..MaxTokens /\ ~IsNumber(base[1])
  BY NamesAssumption DEF IsMultiword
<1>2. CASE Last(base) = Field
  <2> DEFINE rest == <<Field, Number(n)>>
             front == Front(base)
             m == MaxTokens - 2
  <2>1. rest \in Seq(S) /\ Len(rest) = 2 /\ Last(rest) = Number(n)
    BY DEF Tokens, Last
  <2>2. /\ front \in Seq(S) /\ Len(front) = Len(base) - 1 /\ front[1] = base[1]
    <3>1. Len(base) - 1 \in Int /\ \A i \in 1..(Len(base) - 1) : base[i] \in S
      BY <1>1
    <3>2. /\ SubSeq(base, 1, Len(base) - 1) \in Seq(S)
          /\ Len(SubSeq(base, 1, Len(base) - 1)) = Len(base) - 1
          /\ SubSeq(base, 1, Len(base) - 1)[1] = base[1]
      BY <1>1, <3>1, SubSeqProperties
    <3> QED
      BY <3>2 DEF Front
  <2>3. m \in Nat /\ m >= 1 /\ m + 2 <= MaxTokens
    BY NamesAssumption
  <2> HIDE DEF rest, front, m
  <2>4. /\ front \in Seq(S) /\ Len(front) >= 1 /\ ~IsNumber(front[1])
        /\ m \in Nat /\ m >= 1
        /\ rest \in Seq(S) /\ Len(rest) >= 1 /\ m + Len(rest) <= MaxTokens
    BY <1>1, <2>1, <2>2, <2>3
  <2>5. /\ Cut(front, m) \o rest \in Seq(S)
        /\ IsMultiword(Cut(front, m) \o rest)
        /\ Last(Cut(front, m) \o rest) = Last(rest)
    BY ONLY <2>4, ExtendedIsMultiword
  <2>6. PresentCandidate(base, n) = Cut(front, m) \o rest
    BY <1>2 DEF PresentCandidate, rest, front, m
  <2> QED
    BY <2>1, <2>5, <2>6
<1>3. CASE Last(base) # Field
  <2> DEFINE rest == <<Number(n)>>
             m == MaxTokens - 1
  <2>1. rest \in Seq(S) /\ Len(rest) = 1 /\ Last(rest) = Number(n)
    BY DEF Tokens, Last
  <2>2. m \in Nat /\ m >= 1 /\ m + 1 <= MaxTokens
    BY NamesAssumption
  <2> HIDE DEF rest, m
  <2>3. /\ base \in Seq(S) /\ Len(base) >= 1 /\ ~IsNumber(base[1])
        /\ m \in Nat /\ m >= 1
        /\ rest \in Seq(S) /\ Len(rest) >= 1 /\ m + Len(rest) <= MaxTokens
    BY <1>1, <2>1, <2>2, NamesAssumption
  <2>4. /\ Cut(base, m) \o rest \in Seq(S)
        /\ IsMultiword(Cut(base, m) \o rest)
        /\ Last(Cut(base, m) \o rest) = Last(rest)
    BY ONLY <2>3, ExtendedIsMultiword
  <2>5. PresentCandidate(base, n) = Cut(base, m) \o rest
    BY <1>3 DEF PresentCandidate, rest, m
  <2> QED
    BY <2>1, <2>4, <2>5
<1> QED
  BY <1>2, <1>3

LEMMA LegacyNumbered ==
  ASSUME NEW S, Tokens(S), NEW base \in Seq(S), NEW n \in Nat, n >= 2
  PROVE  Last(LegacyCandidate(base, n)) = Number(n)
<1> DEFINE front == Cut(base, MaxTokens - 1)
<1>1. front \in Seq(S) /\ Len(front) \in Nat
  BY CutProperties, NamesAssumption
<1> HIDE DEF front
<1>2. Number(n) \in S
  BY DEF Tokens
<1>3. /\ Len(front \o <<Number(n)>>) = Len(front) + 1
      /\ (front \o <<Number(n)>>)[Len(front) + 1] = Number(n)
  BY <1>1, <1>2
<1> QED
  BY <1>3 DEF LegacyCandidate, Last, front

LEMMA FitNameIsMultiword ==
  ASSUME NEW S, NEW name \in Seq(S), Len(name) >= 2, ~IsNumber(name[1])
  PROVE  FitName(name) \in Seq(S) /\ IsMultiword(FitName(name))
<1> DEFINE m == MaxTokens - 1
<1>1. /\ m \in Nat /\ m >= 1 /\ m + 1 <= MaxTokens /\ Last(name) \in S
      /\ Len(name) >= 1
  BY NamesAssumption DEF Last
<1> HIDE DEF m
<1>2. /\ Append(Cut(name, m), Last(name)) \in Seq(S)
      /\ IsMultiword(Append(Cut(name, m), Last(name)))
  BY <1>1, AppendedIsMultiword
<1>3. CASE Len(name) <= MaxTokens
  BY <1>3, NamesAssumption DEF FitName, IsMultiword
<1>4. CASE ~(Len(name) <= MaxTokens)
  BY <1>2, <1>4 DEF FitName, m
<1> QED
  BY <1>3, <1>4

LEMMA AsciiName ==
  ASSUME NEW S, \A s \in S : IsAscii(s), NEW name \in Seq(S), IsMultiword(name)
  PROVE  IsSafe(name)
BY DEF IsSafe, AllAscii

\* The name that a proposal tries first.
LEMMA CanonicalNameIsMultiword ==
  ASSUME NEW h, IsSequence(ProposeTokens(h))
  PROVE  /\ IsSequence(CanonicalName(h)) /\ IsMultiword(CanonicalName(h))
         /\ AllAscii(ProposeTokens(h)) => IsSafe(CanonicalName(h))
<1> DEFINE S == Range(ProposeTokens(h)) \cup {Word("col"), Word("source"), Field, Digest(h, 0)}
                  \cup {Number(n) : n \in Nat}
           tokens == Prefixed(ProposeTokens(h), "source")
<1>1. CASE h \in DOMAIN Aliases
  BY <1>1, AliasesAssumption DEF CanonicalName, IsSafe
<1>2. CASE h \notin DOMAIN Aliases /\ ProposeTokens(h) = <<>>
  <2> DEFINE name == <<Word("source"), Field, Digest(h, 0)>>
  <2>1. tokens = <<>>
    BY <1>2 DEF Prefixed
  <2>2. CanonicalName(h) = name
    BY <1>2, <2>1 DEF CanonicalName
  <2>3. name \in Seq({Word("source"), Field, Digest(h, 0)}) /\ Len(name) = 3
        /\ Head(name)[1] = "word"
    BY DEF Word
  <2> HIDE DEF name
  <2>4. name \in Seq(Range(name))
    BY <2>3, SeqOfRange
  <2> QED
    <3>1. IsMultiword(name)
      BY <2>3, NamesAssumption DEF IsMultiword, IsNumber
    <3>2. \A s \in {Word("source"), Field, Digest(h, 0)} : IsAscii(s)
      BY DEF IsAscii, Word, Field, Digest
    <3> QED
      BY <2>2, <2>3, <2>4, <3>1, <3>2, AsciiName DEF IsSequence
<1>3. CASE h \notin DOMAIN Aliases /\ ProposeTokens(h) # <<>>
  <2>9. AllAscii(ProposeTokens(h)) => \A s \in S : IsAscii(s)
    BY DEF AllAscii, IsAscii, Word, Field, Digest, Number, Range
  <2>1. Tokens(S) /\ ProposeTokens(h) \in Seq(S) /\ Field \in S
    <3>1. Range(ProposeTokens(h)) \subseteq S
      OBVIOUS
    <3>2. ProposeTokens(h) \in Seq(S)
      BY <3>1, SeqMonotonic DEF IsSequence
    <3> QED
      BY <3>2 DEF Tokens
  <2> HIDE DEF S
  <2>2. /\ tokens \in Seq(S) /\ ~IsNumber(tokens[1])
        /\ Len(tokens) \in Nat /\ Len(tokens) >= 1
    <3>1. Len(ProposeTokens(h)) \in Nat /\ Len(ProposeTokens(h)) >= 1
      BY <1>3, <2>1, EmptySeq
    <3> QED
      BY <1>3, <2>1, <3>1, PrefixedProperties
  <2> HIDE DEF tokens
  <2>3. tokens # <<>>
    BY <2>2
  <2> DEFINE longer == Append(tokens, Field)
  <2>4. longer \in Seq(S) /\ Len(longer) >= 2 /\ ~IsNumber(longer[1])
    BY <2>1, <2>2, AppendProperties
  <2>5. \/ CanonicalName(h) = FitName(longer)
        \/ CanonicalName(h) = FitName(tokens) /\ Len(tokens) # 1
    BY <1>3, <2>3 DEF CanonicalName, tokens
  <2> HIDE DEF longer
  <2>6. FitName(longer) \in Seq(S) /\ IsMultiword(FitName(longer))
    BY <2>4, FitNameIsMultiword
  <2>7. CASE Len(tokens) # 1
    <3> DEFINE l == Len(tokens)
    <3>1. l \in Nat /\ l >= 1 /\ l # 1
      BY <2>2, <2>7
    <3> HIDE DEF l
    <3>2. l >= 2
      BY <3>1
    <3>3. FitName(tokens) \in Seq(S) /\ IsMultiword(FitName(tokens))
      BY <2>2, <3>2, FitNameIsMultiword DEF l
    <3> QED
      BY <2>5, <2>6, <2>9, <3>3, SeqOfRange, AsciiName DEF IsSequence
  <2>8. CASE Len(tokens) = 1
    BY <2>5, <2>6, <2>8, <2>9, SeqOfRange, AsciiName DEF IsSequence
  <2> QED
    BY <2>7, <2>8
<1> QED
  BY <1>1, <1>2, <1>3

\* The name it gives instead when that one is in use.
LEMMA CollisionNameIsMultiword ==
  ASSUME NEW base, IsSequence(base), IsMultiword(base), NEW h, NEW position
  PROVE  /\ IsMultiword(CollisionName(base, h, position))
         /\ AllAscii(base) => IsSafe(CollisionName(base, h, position))
<1> DEFINE S == Range(base) \cup {Digest(h, position)}
           m == MaxTokens - 1
<1>1. base \in Seq(S) /\ Digest(h, position) \in S
  BY SeqMonotonic DEF IsSequence
<1>2. /\ m \in Nat /\ m >= 1 /\ m + 1 <= MaxTokens
      /\ Len(base) >= 1 /\ ~IsNumber(base[1])
  BY <1>1, NamesAssumption DEF IsMultiword
<1>4. AllAscii(base) => \A s \in S : IsAscii(s)
  BY DEF AllAscii, IsAscii, Digest, Range
<1> HIDE DEF S, m
<1>3. /\ Append(Cut(base, m), Digest(h, position)) \in Seq(S)
      /\ IsMultiword(Append(Cut(base, m), Digest(h, position)))
  BY <1>1, <1>2, AppendedIsMultiword
<1>5. CollisionName(base, h, position) = Append(Cut(base, m), Digest(h, position))
  BY DEF CollisionName, m
<1> QED
  BY <1>3, <1>4, <1>5, AsciiName

-----------------------------------------------------------------------------
(* The search for a name that is not in use.                               *)

Candidate(scheme, h, n) ==
  IF scheme = "present" THEN PresentCandidate(SnakeName(LoadTokens(h)), n)
                        ELSE LegacyCandidate(LegacyBase(LoadTokens(h)), n)

\* The tokens of the names of a header.
NameTokens(h) ==
  Range(LoadTokens(h)) \cup {Word("col"), Word("source"), Field} \cup {Number(n) : n \in Nat}

LEMMA NameTokensAre ==
  ASSUME NEW h, IsSequence(LoadTokens(h))
  PROVE  Tokens(NameTokens(h)) /\ LoadTokens(h) \in Seq(NameTokens(h))
<1>1. Range(LoadTokens(h)) \subseteq NameTokens(h)
  BY DEF NameTokens
<1>2. LoadTokens(h) \in Seq(NameTokens(h))
  BY <1>1, SeqMonotonic DEF IsSequence
<1>3. Tokens(NameTokens(h))
  BY DEF Tokens, NameTokens
<1> QED
  BY <1>2, <1>3

LEMMA LegacyBaseIsSequence ==
  ASSUME NEW S, Tokens(S), NEW tokens \in Seq(S), tokens # <<>>
  PROVE  LegacyBase(tokens) \in Seq(S)
<1>1. Prefixed(tokens, "col") \in Seq(S)
  BY PrefixedProperties
<1> QED
  BY <1>1, CutProperties, NamesAssumption DEF LegacyBase

LEMMA CandidateIsName ==
  ASSUME NEW h, IsSequence(LoadTokens(h)), LoadTokens(h) # <<>>, AllAscii(LoadTokens(h)),
         NEW n \in Nat, n >= 1
  PROVE  IsSafe(Candidate("present", h, n))
<1> DEFINE base == SnakeName(LoadTokens(h))
<1>4. \A s \in NameTokens(h) : IsAscii(s)
  BY DEF NameTokens, AllAscii, IsAscii, Word, Field, Number, Range
<1>1. /\ Tokens(NameTokens(h)) /\ base \in Seq(NameTokens(h)) /\ IsMultiword(base)
  BY NameTokensAre, SnakeNameIsMultiword
<1> HIDE DEF base
<1>2. CASE n = 1
  BY <1>1, <1>2, <1>4, AsciiName DEF Candidate, PresentCandidate, base
<1>3. CASE n # 1
  <2>1. n >= 2
    BY <1>3
  <2>2. /\ PresentCandidate(base, n) \in Seq(NameTokens(h))
        /\ IsMultiword(PresentCandidate(base, n))
    BY <1>1, <2>1, PresentNumbered
  <2>3. IsSafe(PresentCandidate(base, n))
    BY <1>4, <2>2, AsciiName
  <2> QED
    BY <2>3 DEF Candidate, base
<1> QED
  BY <1>2, <1>3

\* A numbered candidate ends in its number, so no two of them are the same.
LEMMA CandidateIsNumbered ==
  ASSUME NEW scheme, NEW h, IsSequence(LoadTokens(h)), LoadTokens(h) # <<>>,
         NEW n \in Nat, n >= 2
  PROVE  Last(Candidate(scheme, h, n)) = Number(n)
<1>1. Tokens(NameTokens(h)) /\ LoadTokens(h) \in Seq(NameTokens(h))
  BY NameTokensAre
<1>2. CASE scheme = "present"
  <2> DEFINE base == SnakeName(LoadTokens(h))
  <2>1. base \in Seq(NameTokens(h)) /\ IsMultiword(base)
    BY <1>1, SnakeNameIsMultiword
  <2> HIDE DEF base
  <2>2. Last(PresentCandidate(base, n)) = Number(n)
    BY <1>1, <2>1, PresentNumbered
  <2> QED
    BY <1>2, <2>2 DEF Candidate, base
<1>3. CASE scheme # "present"
  <2> DEFINE base == LegacyBase(LoadTokens(h))
  <2>1. base \in Seq(NameTokens(h))
    BY <1>1, LegacyBaseIsSequence
  <2> HIDE DEF base
  <2>2. Last(LegacyCandidate(base, n)) = Number(n)
    BY <1>1, <2>1, LegacyNumbered
  <2> QED
    BY <1>3, <2>2 DEF Candidate, base
<1> QED
  BY <1>2, <1>3

\* Candidates that were all in use are at most as many as the names, the
\* first one, which has no number, left aside.
LEMMA SearchIsShort ==
  ASSUME NEW scheme, NEW h, IsSequence(LoadTokens(h)), LoadTokens(h) # <<>>,
         NEW names, IsSequence(names), NEW tried \in Nat \ {0},
         \A n \in 1..(tried - 1) : Candidate(scheme, h, n) \in Range(names)
  PROVE  tried <= Len(names) + 2
<1> DEFINE numbered == 2..(tried - 1)
           places == 1..Len(names)
           f == [n \in numbered |->
                   CHOOSE k \in places : names[k] = Candidate(scheme, h, n)]
<1>1. Len(names) \in Nat /\ DOMAIN names = places
  BY DEF IsSequence
<1>2. ASSUME NEW n \in numbered
      PROVE  f[n] \in places /\ names[f[n]] = Candidate(scheme, h, n)
  <2>1. PICK k \in places : names[k] = Candidate(scheme, h, n)
    BY <1>1 DEF Range
  <2> QED
    BY <2>1
<1>3. ASSUME NEW m \in numbered, NEW n \in numbered, f[m] = f[n]
      PROVE  m = n
  <2>1. Candidate(scheme, h, m) = Candidate(scheme, h, n)
    BY <1>2, <1>3
  <2>2. Number(m) = Number(n)
    BY <2>1, CandidateIsNumbered
  <2> QED
    BY <2>2 DEF Number
<1>4. f \in [numbered -> places]
  BY <1>2
<1> HIDE DEF f
<1>5. f \in Injection(numbered, places)
  BY <1>3, <1>4 DEF Injection, IsInjective
<1>6. IsFiniteSet(places) /\ Cardinality(places) = Len(names)
  BY <1>1, FS_Interval, SMTT(20)
<1>7. Cardinality(numbered) = IF 2 > tried - 1 THEN 0 ELSE tried - 1 - 2 + 1
  BY FS_Interval
<1>8. Cardinality(numbered) <= Cardinality(places)
  BY <1>5, <1>6, FS_Injection
<1> QED
  BY <1>1, <1>6, <1>7, <1>8

-----------------------------------------------------------------------------
(* The names are unique and proper, and the search for one ends.           *)

Schemes == {"present", "legacy", "proposed"}

\* What the identifier policy says of the name of a header.
Proper(scheme, h, name) ==
  /\ scheme = "present" => IsSafe(name)
  /\ scheme = "proposed" =>
       IsMultiword(name) /\ (AllAscii(ProposeTokens(h)) => IsSafe(name))

\* Beside what is claimed: the lists are one of the inputs and the names of
\* its headers in order, and while a name is searched for every candidate
\* before the present one is in use.
NamesInv ==
  /\ DOMAIN named = Schemes
  /\ headers = <<>> \/ headers \in HeaderLists
  /\ attempt \in Nat \ {0}
  /\ \A scheme \in Schemes :
       /\ IsSequence(named[scheme]) /\ Len(named[scheme]) <= Len(headers)
       /\ IsInjective(named[scheme])
  /\ \A i \in DOMAIN named.present : Proper("present", headers[i], named.present[i])
  /\ \A i \in DOMAIN named.proposed : Proper("proposed", headers[i], named.proposed[i])
  /\ naming \in {"present", "legacy"} =>
       \A i \in DOMAIN headers : LoadTokens(headers[i]) # <<>>
  /\ naming = "proposed" => attempt = 1
  /\ naming \in {"present", "legacy"} =>
       IF Complete(naming) THEN attempt = 1
       ELSE \A n \in 1..(attempt - 1) :
              Candidate(naming, Header(naming), n) \in Range(named[naming])

\* Nothing is named yet.
Fresh ==
  /\ headers = <<>> \/ headers \in HeaderLists
  /\ named = NoNames /\ attempt = 1
  /\ loadable => \A i \in DOMAIN headers : LoadTokens(headers[i]) # <<>>
  /\ \/ naming = "idle"
     \/ naming = "present" /\ loadable
     \/ naming = "proposed" /\ ~loadable

LEMMA FreshNames == Fresh => NamesInv
<1> SUFFICES ASSUME Fresh PROVE NamesInv
  OBVIOUS
<1> USE DEF Fresh
<1>1. Len(headers) \in Nat
  BY HeadersAssumption DEF IsSequence
<1>2. DOMAIN named = Schemes /\ \A scheme \in Schemes : named[scheme] = <<>>
  BY DEF NoNames, Schemes
<1>3. IsSequence(<<>>) /\ Len(<<>>) = 0 /\ IsInjective(<<>>) /\ Range(<<>>) = {}
  BY DEF IsSequence, IsInjective, Range
<1>4. 1..(attempt - 1) = {}
  OBVIOUS
<1>5. DOMAIN named.present = {} /\ DOMAIN named.proposed = {}
  BY <1>2 DEF Schemes
<1> QED
  BY <1>1, <1>2, <1>3, <1>4, <1>5 DEF NamesInv

\* A name that is not in use is added.
LEMMA NameAdded ==
  ASSUME NEW names, IsSequence(names), IsInjective(names), NEW name, name \notin Range(names)
  PROVE  /\ IsSequence(Append(names, name)) /\ IsInjective(Append(names, name))
         /\ Len(Append(names, name)) = Len(names) + 1
         /\ Range(Append(names, name)) = Range(names) \cup {name}
         /\ DOMAIN Append(names, name) = DOMAIN names \cup {Len(names) + 1}
         /\ \A i \in DOMAIN names : Append(names, name)[i] = names[i]
         /\ Append(names, name)[Len(names) + 1] = name
         /\ DOMAIN names = 1..Len(names) /\ Len(names) \in Nat
<1> DEFINE S == Range(names) \cup {name}
           longer == Append(names, name)
<1>1. names \in Seq(S) /\ name \in S
  BY SeqMonotonic DEF IsSequence
<1>2. /\ longer \in Seq(S) /\ Len(longer) = Len(names) + 1
      /\ \A i \in 1..Len(names) : longer[i] = names[i]
      /\ longer[Len(names) + 1] = name
  BY <1>1, AppendProperties
<1>3. DOMAIN names = 1..Len(names) /\ DOMAIN longer = 1..(Len(names) + 1) /\ Len(names) \in Nat
  BY <1>1, <1>2, LenProperties
<1> HIDE DEF longer
<1>4. IsInjective(longer)
  <2> SUFFICES ASSUME NEW i \in DOMAIN longer, NEW j \in DOMAIN longer,
                      longer[i] = longer[j]
               PROVE  i = j
    BY DEF IsInjective
  <2>1. CASE i \in DOMAIN names /\ j \in DOMAIN names
    BY <1>2, <1>3, <2>1 DEF IsInjective
  <2>2. \A k \in DOMAIN names : names[k] # name
    BY DEF Range
  <2>3. CASE ~(i \in DOMAIN names /\ j \in DOMAIN names)
    BY <1>2, <1>3, <2>2, <2>3
  <2> QED
    BY <2>1, <2>3
<1>5. Range(longer) = S
  BY <1>2, <1>3 DEF Range
<1>6. IsSequence(longer)
  BY <1>2, SeqOfRange DEF IsSequence
<1>7. DOMAIN longer = DOMAIN names \cup {Len(names) + 1}
  BY <1>3
<1> QED
  BY <1>2, <1>3, <1>4, <1>5, <1>6, <1>7 DEF longer

\* The header whose name is made next.
LEMMA HeaderIsRead ==
  ASSUME NamesInv, NEW scheme \in Schemes, ~Complete(scheme)
  PROVE  /\ Len(named[scheme]) \in Nat /\ Len(headers) \in Nat
         /\ Len(named[scheme]) + 1 <= Len(headers)
         /\ Len(named[scheme]) + 1 \in DOMAIN headers
         /\ IsSequence(LoadTokens(Header(scheme)))
         /\ IsSequence(ProposeTokens(Header(scheme)))
         /\ AllAscii(LoadTokens(Header(scheme)))
<1>1. Len(named[scheme]) \in Nat /\ Len(named[scheme]) <= Len(headers)
  BY DEF NamesInv, IsSequence
<1>2. headers # <<>>
  BY <1>1 DEF Complete
<1>3. headers \in HeaderLists /\ IsSequence(headers)
  BY <1>2, HeadersAssumption DEF NamesInv
<1>4. Len(headers) \in Nat /\ DOMAIN headers = 1..Len(headers)
  BY <1>3 DEF IsSequence
<1>5. Len(named[scheme]) + 1 <= Len(headers)
  BY <1>1, <1>4 DEF Complete
<1>6. Len(named[scheme]) + 1 \in DOMAIN headers
  BY <1>1, <1>4, <1>5
<1> QED
  BY <1>1, <1>3, <1>4, <1>5, <1>6, HeadersAssumption DEF Header

\* Adding a proper name leaves all names proper and unique.
LEMMA SchemeAdded ==
  ASSUME NamesInv, NEW scheme \in Schemes, ~Complete(scheme), NEW name,
         name \notin Range(named[scheme]), Proper(scheme, Header(scheme), name),
         named' = [named EXCEPT ![scheme] = Append(@, name)], headers' = headers
  PROVE  /\ DOMAIN named' = Schemes
         /\ \A other \in Schemes :
              /\ IsSequence(named'[other]) /\ Len(named'[other]) <= Len(headers')
              /\ IsInjective(named'[other])
         /\ \A other \in {"present", "proposed"} : \A i \in DOMAIN named'[other] :
              Proper(other, headers'[i], named'[other][i])
<1>1. /\ DOMAIN named = Schemes /\ DOMAIN named' = Schemes
      /\ named'[scheme] = Append(named[scheme], name)
      /\ \A other \in Schemes : other # scheme => named'[other] = named[other]
  BY DEF NamesInv
<1>2. /\ IsSequence(named'[scheme]) /\ IsInjective(named'[scheme])
      /\ Len(named'[scheme]) = Len(named[scheme]) + 1
      /\ Range(named'[scheme]) = Range(named[scheme]) \cup {name}
  BY <1>1, NameAdded DEF NamesInv
<1>3. Len(named'[scheme]) <= Len(headers')
  BY <1>2, HeaderIsRead
<1>4. ASSUME NEW other \in {"present", "proposed"}, NEW i \in DOMAIN named'[other]
      PROVE  Proper(other, headers[i], named'[other][i])
  <2>1. \A k \in DOMAIN named[other] : Proper(other, headers[k], named[other][k])
    BY DEF NamesInv
  <2>2. CASE other = scheme
    <3>1. /\ DOMAIN named'[other] = DOMAIN named[other] \cup {Len(named[other]) + 1}
          /\ \A k \in DOMAIN named[other] : named'[other][k] = named[other][k]
          /\ named'[other][Len(named[other]) + 1] = name
      BY <1>1, <2>2, NameAdded DEF NamesInv
    <3> QED
      BY <1>4, <2>1, <2>2, <3>1 DEF Header
  <2>3. CASE other # scheme
    BY <1>1, <1>4, <2>1, <2>3 DEF Schemes
  <2> QED
    BY <2>2, <2>3
<1> QED
  BY <1>1, <1>2, <1>3, <1>4 DEF NamesInv

LEMMA TryPreserves ==
  ASSUME NamesInv, NEW scheme \in {"present", "legacy"},
         Try(scheme, Candidate(scheme, Header(scheme), attempt))
  PROVE  NamesInv'
<1> DEFINE name == Candidate(scheme, Header(scheme), attempt)
<1>1. /\ scheme \in Schemes /\ naming = scheme /\ ~Complete(scheme)
      /\ naming' = naming /\ headers' = headers
      /\ attempt \in Nat /\ attempt >= 1
  BY DEF Try, Schemes, NamesInv
<1>2. /\ Len(named[scheme]) + 1 \in DOMAIN headers
      /\ IsSequence(LoadTokens(Header(scheme))) /\ LoadTokens(Header(scheme)) # <<>>
      /\ AllAscii(LoadTokens(Header(scheme)))
  BY <1>1, HeaderIsRead DEF NamesInv, Header
<1>3. Proper(scheme, Header(scheme), name)
  BY <1>1, <1>2, CandidateIsName DEF Proper
<1>4. \A n \in 1..(attempt - 1) : Candidate(scheme, Header(scheme), n) \in Range(named[scheme])
  BY <1>1 DEF NamesInv
<1> HIDE DEF name
<1>5. CASE name \in Range(named[scheme])
  <2>1. attempt' = attempt + 1 /\ named' = named
    BY <1>5 DEF Try, name
  <2>2. Complete(scheme)' = Complete(scheme) /\ Header(scheme)' = Header(scheme)
    BY <1>1, <2>1 DEF Complete, Header
  <2>3. \A n \in 1..(attempt' - 1) :
          Candidate(scheme, Header(scheme), n) \in Range(named[scheme])
    <3> TAKE n \in 1..(attempt' - 1)
    <3>1. n = attempt \/ n \in 1..(attempt - 1)
      BY <1>1, <2>1
    <3> QED
      BY <1>4, <1>5, <3>1 DEF name
  <2> QED
    BY <1>1, <2>1, <2>2, <2>3 DEF NamesInv, Complete, Header
<1>6. CASE name \notin Range(named[scheme])
  <2>1. attempt' = 1 /\ named' = [named EXCEPT ![scheme] = Append(@, name)]
    BY <1>6 DEF Try, name
  <2>2. /\ DOMAIN named' = Schemes
        /\ \A other \in Schemes :
             /\ IsSequence(named'[other]) /\ Len(named'[other]) <= Len(headers')
             /\ IsInjective(named'[other])
        /\ \A other \in {"present", "proposed"} : \A i \in DOMAIN named'[other] :
             Proper(other, headers'[i], named'[other][i])
    BY <1>1, <1>3, <1>6, <2>1, SchemeAdded
  <2>3. 1..(attempt' - 1) = {}
    BY <2>1
  <2> QED
    BY <1>1, <2>1, <2>2, <2>3 DEF NamesInv
<1> QED
  BY <1>5, <1>6

LEMMA ProposePreserves == NamesInv /\ ProposeName => NamesInv'
<1> SUFFICES ASSUME NamesInv, ProposeName PROVE NamesInv'
  OBVIOUS
<1> DEFINE h == Header("proposed")
           base == CanonicalName(h)
           used == Range(named.proposed)
           target == IF base \notin used THEN base
                     ELSE CollisionName(base, h, Len(named.proposed))
<1>1. /\ naming = "proposed" /\ ~Complete("proposed") /\ "proposed" \in Schemes
      /\ headers' = headers /\ attempt' = attempt
  BY DEF ProposeName, Schemes
<1>2. /\ IsSequence(base) /\ IsMultiword(base)
      /\ AllAscii(ProposeTokens(h)) => IsSafe(base)
  BY <1>1, HeaderIsRead, CanonicalNameIsMultiword
<1>7. /\ IsMultiword(CollisionName(base, h, Len(named.proposed)))
      /\ AllAscii(base) => IsSafe(CollisionName(base, h, Len(named.proposed)))
  BY <1>2, CollisionNameIsMultiword
<1>3. Proper("proposed", h, target)
  BY <1>2, <1>7 DEF Proper, IsSafe
<1>4. \/ target \in used /\ naming' = "INVALID_INPUT" /\ named' = named
      \/ /\ target \notin used /\ naming' = naming
         /\ named' = [named EXCEPT !["proposed"] = Append(@, target)]
  BY DEF ProposeName
<1> HIDE DEF target
<1>5. CASE target \in used
  BY <1>1, <1>4, <1>5 DEF NamesInv
<1>6. CASE target \notin used
  <2>1. /\ DOMAIN named' = Schemes
        /\ \A other \in Schemes :
             /\ IsSequence(named'[other]) /\ Len(named'[other]) <= Len(headers')
             /\ IsInjective(named'[other])
        /\ \A other \in {"present", "proposed"} : \A i \in DOMAIN named'[other] :
             Proper(other, headers'[i], named'[other][i])
    BY <1>1, <1>3, <1>4, <1>6, SchemeAdded
  <2> QED
    BY <1>1, <1>4, <1>6, <2>1 DEF NamesInv
<1> QED
  BY <1>5, <1>6

LEMMA NextSchemePreserves == NamesInv /\ NextScheme => NamesInv'
<1> SUFFICES ASSUME NamesInv, NextScheme PROVE NamesInv'
  OBVIOUS
<1>1. headers' = headers /\ named' = named /\ attempt' = attempt
  BY DEF NextScheme
<1>2. CASE naming = "proposed"
  BY <1>1, <1>2 DEF NextScheme, NamesInv
<1>3. CASE naming \in {"present", "legacy"} /\ Complete(naming)
  <2>1. attempt = 1
    BY <1>3 DEF NamesInv
  <2>2. 1..(attempt' - 1) = {}
    BY <1>1, <2>1
  <2> QED
    BY <1>1, <1>3, <2>1, <2>2 DEF NextScheme, NamesInv
<1> QED
  BY <1>2, <1>3 DEF NextScheme

LEMMA NamesStepPreserves == NamesInv /\ NamesNext => NamesInv'
<1> SUFFICES ASSUME NamesInv, NamesNext PROVE NamesInv'
  OBVIOUS
<1>1. CASE TryPresent
  <2>1. Try("present", Candidate("present", Header("present"), attempt))
    BY <1>1 DEF TryPresent, Candidate
  <2> QED
    BY <2>1, TryPreserves
<1>2. CASE TryLegacy
  <2>1. Try("legacy", Candidate("legacy", Header("legacy"), attempt))
    BY <1>2 DEF TryLegacy, Candidate
  <2> QED
    BY <2>1, TryPreserves
<1>3. CASE CreateNewTable
  BY <1>3 DEF CreateNewTable, NamesInv
<1> QED
  BY <1>1, <1>2, <1>3, ProposePreserves, NextSchemePreserves DEF NamesNext

\* A list of headers is opened, or everything is forgotten.
LEMMA FreshPreserves == Fresh' => NamesInv'
  BY FreshNames, PTL

LEMMA DocumentsNamesStep == NamesInv /\ [Next]_vars => NamesInv'
<1> SUFFICES ASSUME NamesInv, [Next]_vars PROVE NamesInv'
  OBVIOUS
<1>1. ASSUME UNCHANGED nameVars PROVE NamesInv'
  BY <1>1 DEF nameVars, NamesInv, Complete, Header
<1>2. CASE Return
  <2>1. Fresh'
    BY <1>2 DEF Return, ForgetNames, Fresh
  <2> QED
    BY <2>1, FreshPreserves
<1>3. CASE NameColumns
  <2>1. PICK list \in HeaderLists : OpenNames(list)
    BY <1>3 DEF NameColumns
  <2>2. Fresh'
    BY <2>1 DEF OpenNames, Fresh
  <2> QED
    BY <2>2, FreshPreserves
<1>4. CASE Step
  BY <1>1, <1>4, NamesStepPreserves
  DEF Step, ReadStep, MimeStep, SpanStep, CommentStep
<1>5. CASE \/ BeginInspection \/ SourceReturned \/ ParseSource \/ HtmlReturned
           \/ ExtractTables \/ BeginConversion \/ TypesReturned \/ MapColumns
  BY <1>1, <1>5
  DEF BeginInspection, SourceReturned, ParseSource, HtmlReturned, ExtractTables,
      BeginConversion, TypesReturned, MapColumns, ReadStep, MimeStep, SpanStep,
      TypeStep, CommentStep
<1>6. CASE UNCHANGED vars
  BY <1>1, <1>6 DEF vars
<1> QED
  BY <1>2, <1>3, <1>4, <1>5, <1>6 DEF Next

\* All candidates before the present one are in use, and no two are the
\* same, so there are not many of them.
LEMMA NamesInvImplies == NamesInv => NamesUnique
<1> SUFFICES ASSUME NamesInv PROVE NamesUnique
  OBVIOUS
<1>1. ASSUME naming \in Schemes PROVE attempt <= Len(named[naming]) + 2
  <2>1. /\ IsSequence(named[naming]) /\ Len(named[naming]) \in Nat
        /\ attempt \in Nat \ {0}
    BY <1>1 DEF NamesInv, IsSequence
  <2>2. CASE attempt = 1
    BY <2>1, <2>2
  <2>3. CASE naming \in {"present", "legacy"} /\ ~Complete(naming)
    <3>1. /\ IsSequence(LoadTokens(Header(naming))) /\ LoadTokens(Header(naming)) # <<>>
      BY <1>1, <2>3, HeaderIsRead DEF NamesInv, Header
    <3>2. \A n \in 1..(attempt - 1) :
            Candidate(naming, Header(naming), n) \in Range(named[naming])
      BY <2>3 DEF NamesInv
    <3> QED
      BY <2>1, <3>1, <3>2, SearchIsShort
  <2> QED
    BY <1>1, <2>2, <2>3 DEF NamesInv, Schemes
<1>2. \A name \in Range(named.present) : IsSafe(name)
  BY DEF NamesInv, Proper, Range
<1> QED
  BY <1>1, <1>2 DEF NamesInv, NamesUnique, Proper

\* No two columns of a table get one name, a load's names satisfy the
\* identifier policy and so do a proposal's but for letters that are not
\* ASCII, and a free one is found after at most one try per name given and
\* one more: for tables of any width, headers of any length and any number of
\* tokens that fit into a name.
THEOREM NamesAreUnique == Spec => []NamesUnique
<1>1. Init => NamesInv
  <2>1. Init => Fresh
    BY DEF Init, NamesIdle, Fresh
  <2> QED
    BY <2>1, FreshNames
<1> QED
  BY <1>1, DocumentsNamesStep, NamesInvImplies, PTL DEF Spec

-----------------------------------------------------------------------------
(* Where no two headers come to one name, each gets the name tried first.  *)

FirstName(scheme, h) ==
  IF scheme = "present" THEN SnakeName(LoadTokens(h))
  ELSE IF scheme = "legacy" THEN LegacyBase(LoadTokens(h)) ELSE CanonicalName(h)

NoCollision(scheme) ==
  \A i, j \in DOMAIN headers :
    i # j => FirstName(scheme, headers[i]) # FirstName(scheme, headers[j])

FirstNames(scheme) ==
  /\ \A i \in DOMAIN named[scheme] : named[scheme][i] = FirstName(scheme, headers[i])
  /\ naming = scheme => attempt = 1

PresentNames ==
  \A i \in DOMAIN named.present : \E n \in Nat \ {0} :
    named.present[i] = PresentCandidate(SnakeName(LoadTokens(headers[i])), n)

Answers == {"legacy_column", "duplicate_column", "created"}

\* Which names are complete when.
Stages ==
  /\ loadable => \A i \in DOMAIN headers : LoadTokens(headers[i]) # <<>>
  /\ naming \in {"present", "legacy"} \cup Answers => loadable
  /\ loadable /\ naming \in {"legacy", "proposed", "named"} \cup Answers => Complete("present")
  /\ loadable /\ naming \in {"proposed", "named"} \cup Answers => Complete("legacy")
  /\ naming \in {"named"} \cup Answers => Complete("proposed")
  /\ naming = "legacy_column" => TakenForLegacy
  /\ naming = "duplicate_column" => Range(named.present) \cap LineageColumns # {}

MadeInv ==
  /\ NamesInv
  /\ \A scheme \in Schemes : NoCollision(scheme) => FirstNames(scheme)
  /\ PresentNames
  /\ Stages

LEMMA FirstCandidate ==
  ASSUME NEW scheme \in {"present", "legacy"}, NEW h
  PROVE  Candidate(scheme, h, 1) = FirstName(scheme, h)
BY DEF Candidate, FirstName, PresentCandidate, LegacyCandidate

\* A first name that no other header has is free.
LEMMA FirstIsFree ==
  ASSUME MadeInv, NEW scheme \in Schemes, ~Complete(scheme), NoCollision(scheme)
  PROVE  FirstName(scheme, Header(scheme)) \notin Range(named[scheme])
<1>1. /\ Len(named[scheme]) \in Nat /\ DOMAIN named[scheme] = 1..Len(named[scheme])
      /\ Len(headers) \in Nat
      /\ Len(named[scheme]) + 1 \in DOMAIN headers
      /\ Len(named[scheme]) + 1 <= Len(headers)
  BY HeaderIsRead DEF MadeInv, NamesInv, IsSequence
<1>2. \A i \in DOMAIN named[scheme] : i \in DOMAIN headers
  <2>1. headers # <<>>
    BY <1>1
  <2>2. DOMAIN headers = 1..Len(headers)
    BY <2>1, HeadersAssumption DEF MadeInv, NamesInv, IsSequence
  <2> QED
    BY <1>1, <2>2
<1>3. ASSUME NEW i \in DOMAIN named[scheme]
      PROVE  named[scheme][i] # FirstName(scheme, Header(scheme))
  <2>1. i # Len(named[scheme]) + 1
    BY <1>1
  <2>2. FirstName(scheme, headers[i]) # FirstName(scheme, headers[Len(named[scheme]) + 1])
    BY <1>1, <1>2, <2>1 DEF NoCollision
  <2>3. named[scheme][i] = FirstName(scheme, headers[i])
    BY DEF MadeInv, FirstNames
  <2> QED
    BY <2>2, <2>3 DEF Header
<1> QED
  BY <1>3 DEF Range

\* The first name is added for the header it is of.
LEMMA FirstAdded ==
  ASSUME MadeInv, NEW scheme \in Schemes, ~Complete(scheme), NoCollision(scheme),
         named' = [named EXCEPT ![scheme] = Append(@, FirstName(scheme, Header(scheme)))],
         headers' = headers
  PROVE  \A i \in DOMAIN named'[scheme] :
           named'[scheme][i] = FirstName(scheme, headers'[i])
<1> DEFINE name == FirstName(scheme, Header(scheme))
<1>1. /\ IsSequence(named[scheme]) /\ IsInjective(named[scheme])
      /\ name \notin Range(named[scheme])
  BY FirstIsFree DEF MadeInv, NamesInv
<1>2. named'[scheme] = Append(named[scheme], name)
  BY DEF MadeInv, NamesInv
<1>3. name = FirstName(scheme, headers[Len(named[scheme]) + 1])
  BY DEF Header
<1> HIDE DEF name
<1>4. /\ DOMAIN named'[scheme] = DOMAIN named[scheme] \cup {Len(named[scheme]) + 1}
      /\ \A i \in DOMAIN named[scheme] : named'[scheme][i] = named[scheme][i]
      /\ named'[scheme][Len(named[scheme]) + 1] = name
  BY <1>1, <1>2, NameAdded
<1>5. \A i \in DOMAIN named[scheme] : named[scheme][i] = FirstName(scheme, headers[i])
  BY DEF MadeInv, FirstNames
<1> QED
  BY <1>3, <1>4, <1>5

LEMMA TryMakes ==
  ASSUME MadeInv, NamesInv', NEW scheme \in {"present", "legacy"},
         Try(scheme, Candidate(scheme, Header(scheme), attempt))
  PROVE  MadeInv'
<1> DEFINE name == Candidate(scheme, Header(scheme), attempt)
<1>1. /\ scheme \in Schemes /\ naming = scheme /\ ~Complete(scheme)
      /\ naming' = naming /\ headers' = headers /\ loadable' = loadable
      /\ DOMAIN named = Schemes /\ attempt \in Nat \ {0}
      /\ IsSequence(named[scheme]) /\ IsInjective(named[scheme])
  BY DEF Try, Schemes, MadeInv, NamesInv
<1>2. \/ name \in Range(named[scheme]) /\ attempt' = attempt + 1 /\ named' = named
      \/ /\ name \notin Range(named[scheme]) /\ attempt' = 1
         /\ named' = [named EXCEPT ![scheme] = Append(@, name)]
  BY DEF Try
<1> HIDE DEF name
<1>3. \A other \in Schemes \ {scheme} : named'[other] = named[other]
  BY <1>1, <1>2
<1>4. ASSUME NEW other \in Schemes, NoCollision(other)'
      PROVE  FirstNames(other)'
  <2>1. NoCollision(other)
    BY <1>1, <1>4 DEF NoCollision
  <2>2. CASE other # scheme
    BY <1>1, <1>3, <2>1, <2>2 DEF MadeInv, FirstNames
  <2>3. CASE other = scheme
    <3>1. attempt = 1
      BY <1>1, <2>1, <2>3 DEF MadeInv, FirstNames
    <3>2. name = FirstName(scheme, Header(scheme))
      BY <3>1, FirstCandidate DEF name
    <3>3. name \notin Range(named[scheme])
      BY <1>1, <2>1, <2>3, <3>2, FirstIsFree
    <3>4. /\ attempt' = 1
          /\ named' = [named EXCEPT ![scheme] = Append(@, FirstName(scheme, Header(scheme)))]
      BY <1>2, <3>2, <3>3
    <3>5. \A i \in DOMAIN named'[scheme] :
            named'[scheme][i] = FirstName(scheme, headers'[i])
      BY <1>1, <2>1, <2>3, <3>4, FirstAdded
    <3> QED
      BY <2>3, <3>4, <3>5 DEF FirstNames
  <2> QED
    BY <2>2, <2>3
<1>5. PresentNames'
  <2>1. CASE named'.present = named.present
    BY <1>1, <2>1 DEF MadeInv, PresentNames
  <2>2. CASE scheme = "present" /\ name \notin Range(named.present)
    <3>1. named'.present = Append(named.present, name)
      BY <1>1, <1>2, <2>2
    <3>2. /\ DOMAIN named'.present = DOMAIN named.present \cup {Len(named.present) + 1}
          /\ \A i \in DOMAIN named.present : named'.present[i] = named.present[i]
          /\ named'.present[Len(named.present) + 1] = name
      BY <1>1, <2>2, <3>1, NameAdded
    <3>3. name = PresentCandidate(SnakeName(LoadTokens(headers[Len(named.present) + 1])), attempt)
      BY <2>2 DEF name, Candidate, Header
    <3> QED
      BY <1>1, <3>2, <3>3 DEF MadeInv, PresentNames
  <2> QED
    BY <1>1, <1>2, <1>3, <2>1, <2>2 DEF Schemes
<1>6. Stages'
  <2>1. CASE scheme = "present"
    BY <1>1, <2>1 DEF MadeInv, Stages, Answers
  <2>2. CASE scheme = "legacy"
    <3>1. Complete("present")' = Complete("present")
      BY <1>1, <1>3, <2>2 DEF Complete, Schemes
    <3> QED
      BY <1>1, <2>2, <3>1 DEF MadeInv, Stages, Answers
  <2> QED
    BY <2>1, <2>2
<1> QED
  BY <1>4, <1>5, <1>6 DEF MadeInv

LEMMA ProposeMakes == MadeInv /\ NamesInv' /\ ProposeName => MadeInv'
<1> SUFFICES ASSUME MadeInv, NamesInv', ProposeName PROVE MadeInv'
  OBVIOUS
<1> DEFINE h == Header("proposed")
           base == CanonicalName(h)
           used == Range(named.proposed)
           target == IF base \notin used THEN base
                     ELSE CollisionName(base, h, Len(named.proposed))
<1>1. /\ naming = "proposed" /\ ~Complete("proposed") /\ "proposed" \in Schemes
      /\ headers' = headers /\ loadable' = loadable /\ attempt' = attempt
      /\ DOMAIN named = Schemes
  BY DEF ProposeName, Schemes, MadeInv, NamesInv
<1>2. \/ target \in used /\ naming' = "INVALID_INPUT" /\ named' = named
      \/ /\ target \notin used /\ naming' = naming
         /\ named' = [named EXCEPT !["proposed"] = Append(@, target)]
  BY DEF ProposeName
<1>3. base = FirstName("proposed", h)
  BY DEF FirstName
<1>4. base \notin used => target = base
  OBVIOUS
<1> HIDE DEF target, base
<1>5. named'.present = named.present /\ named'.legacy = named.legacy
  BY <1>1, <1>2 DEF Schemes
<1>6. ASSUME NEW other \in Schemes, NoCollision(other)'
      PROVE  FirstNames(other)'
  <2>1. NoCollision(other)
    BY <1>1, <1>6 DEF NoCollision
  <2>2. CASE other # "proposed"
    BY <1>1, <1>2, <1>5, <2>1, <2>2 DEF MadeInv, FirstNames, Schemes
  <2>3. CASE other = "proposed"
    <3>1. base \notin used
      BY <1>1, <1>3, <2>1, <2>3, FirstIsFree
    <3>2. named' = [named EXCEPT !["proposed"] = Append(@, FirstName("proposed", Header("proposed")))]
      BY <1>2, <1>3, <1>4, <3>1
    <3>3. \A i \in DOMAIN named'["proposed"] :
            named'["proposed"][i] = FirstName("proposed", headers'[i])
      BY <1>1, <2>1, <2>3, <3>2, FirstAdded
    <3>4. attempt' = 1
      BY <1>1, <2>1, <2>3 DEF MadeInv, FirstNames
    <3> QED
      BY <2>3, <3>3, <3>4 DEF FirstNames
  <2> QED
    BY <2>2, <2>3
<1>7. PresentNames'
  BY <1>1, <1>5 DEF MadeInv, PresentNames
<1>8. Stages'
  <2>1. /\ Complete("present")' = Complete("present")
        /\ Complete("legacy")' = Complete("legacy")
    BY <1>1, <1>5 DEF Complete
  <2> QED
    BY <1>1, <1>2, <2>1 DEF MadeInv, Stages, Answers
<1> QED
  BY <1>6, <1>7, <1>8 DEF MadeInv

LEMMA NextSchemeMakes == MadeInv /\ NamesInv' /\ NextScheme => MadeInv'
<1> SUFFICES ASSUME MadeInv, NamesInv', NextScheme PROVE MadeInv'
  OBVIOUS
<1>1. /\ headers' = headers /\ named' = named /\ attempt' = attempt /\ loadable' = loadable
      /\ \/ naming = "present" /\ Complete("present") /\ naming' = "legacy"
         \/ naming = "legacy" /\ Complete("legacy") /\ naming' = "proposed"
         \/ naming = "proposed" /\ Complete("proposed") /\ naming' = "named"
  BY DEF NextScheme
<1>2. attempt = 1
  BY <1>1 DEF MadeInv, NamesInv
<1>3. \A scheme \in Schemes : Complete(scheme)' = Complete(scheme)
  BY <1>1 DEF Complete
<1>4. Stages'
  BY <1>1, <1>3 DEF MadeInv, Stages, Answers, Schemes
<1>5. PresentNames'
  BY <1>1 DEF MadeInv, PresentNames
<1>6. ASSUME NEW scheme \in Schemes, NoCollision(scheme)'
      PROVE  FirstNames(scheme)'
  BY <1>1, <1>2, <1>6 DEF MadeInv, FirstNames, NoCollision
<1> QED
  BY <1>4, <1>5, <1>6 DEF MadeInv

LEMMA CreateMakes == MadeInv /\ NamesInv' /\ CreateNewTable => MadeInv'
<1> SUFFICES ASSUME MadeInv, NamesInv', CreateNewTable PROVE MadeInv'
  OBVIOUS
<1>1. /\ headers' = headers /\ named' = named /\ attempt' = attempt /\ loadable' = loadable
      /\ naming = "named"
      /\ \/ ~loadable /\ naming' = "invalid_header"
         \/ /\ loadable /\ Range(named.present) \cap LineageColumns # {}
            /\ naming' = "duplicate_column"
         \/ loadable /\ TakenForLegacy /\ naming' = "legacy_column"
         \/ loadable /\ naming' = "created"
  BY DEF CreateNewTable
<1>2. \A scheme \in Schemes : Complete(scheme)' = Complete(scheme)
  BY <1>1 DEF Complete
<1>3. TakenForLegacy' = TakenForLegacy
  BY <1>1 DEF TakenForLegacy
<1>4. Stages'
  BY <1>1, <1>2, <1>3 DEF MadeInv, Stages, Answers, Schemes
<1>5. PresentNames'
  BY <1>1 DEF MadeInv, PresentNames
<1>6. ASSUME NEW scheme \in Schemes, NoCollision(scheme)'
      PROVE  FirstNames(scheme)'
  BY <1>1, <1>6 DEF MadeInv, FirstNames, NoCollision, Schemes
<1> QED
  BY <1>4, <1>5, <1>6 DEF MadeInv

LEMMA FreshMakes == Fresh => MadeInv
<1> SUFFICES ASSUME Fresh PROVE MadeInv
  OBVIOUS
<1>1. NamesInv
  BY FreshNames
<1>2. \A scheme \in Schemes : named[scheme] = <<>>
  BY DEF Fresh, NoNames, Schemes
<1>3. DOMAIN <<>> = {}
  OBVIOUS
<1>4. PresentNames /\ \A scheme \in Schemes : FirstNames(scheme)
  BY <1>2, <1>3 DEF Fresh, PresentNames, FirstNames, Schemes
<1>5. Stages
  BY DEF Fresh, Stages, Answers
<1> QED
  BY <1>1, <1>4, <1>5 DEF MadeInv

LEMMA FreshMakesLater == Fresh' => MadeInv'
  BY FreshMakes, PTL

LEMMA DocumentsMakesStep == MadeInv /\ [Next]_vars => MadeInv'
<1> SUFFICES ASSUME MadeInv, [Next]_vars PROVE MadeInv'
  OBVIOUS
<1>1. NamesInv'
  BY DocumentsNamesStep DEF MadeInv
<1>2. ASSUME UNCHANGED nameVars PROVE MadeInv'
  BY <1>1, <1>2
  DEF nameVars, MadeInv, NoCollision, FirstNames, PresentNames, Stages, Complete, TakenForLegacy
<1>3. CASE Return
  <2>1. Fresh'
    BY <1>3 DEF Return, ForgetNames, Fresh
  <2> QED
    BY <2>1, FreshMakesLater
<1>4. CASE NameColumns
  <2>1. PICK list \in HeaderLists : OpenNames(list)
    BY <1>4 DEF NameColumns
  <2>2. Fresh'
    BY <2>1 DEF OpenNames, Fresh
  <2> QED
    BY <2>2, FreshMakesLater
<1>5. CASE NamesNext
  <2>1. CASE TryPresent
    <3>1. Try("present", Candidate("present", Header("present"), attempt))
      BY <2>1 DEF TryPresent, Candidate
    <3> QED
      BY <1>1, <3>1, TryMakes
  <2>2. CASE TryLegacy
    <3>1. Try("legacy", Candidate("legacy", Header("legacy"), attempt))
      BY <2>2 DEF TryLegacy, Candidate
    <3> QED
      BY <1>1, <3>1, TryMakes
  <2> QED
    BY <1>1, <1>5, <2>1, <2>2, ProposeMakes, NextSchemeMakes, CreateMakes DEF NamesNext
<1>6. CASE Step
  BY <1>2, <1>5, <1>6 DEF Step, ReadStep, MimeStep, SpanStep, CommentStep
<1>7. CASE \/ BeginInspection \/ SourceReturned \/ ParseSource \/ HtmlReturned
           \/ ExtractTables \/ BeginConversion \/ TypesReturned \/ MapColumns
  BY <1>2, <1>7
  DEF BeginInspection, SourceReturned, ParseSource, HtmlReturned, ExtractTables,
      BeginConversion, TypesReturned, MapColumns, ReadStep, MimeStep, SpanStep,
      TypeStep, CommentStep
<1>8. CASE UNCHANGED vars
  BY <1>2, <1>8 DEF vars
<1> QED
  BY <1>3, <1>4, <1>6, <1>7, <1>8 DEF Next

LEMMA MadeAlways == Spec => []MadeInv
<1>1. Init => MadeInv
  <2>1. Init => Fresh
    BY DEF Init, NamesIdle, Fresh
  <2> QED
    BY <2>1, FreshMakes
<1> QED
  BY <1>1, DocumentsMakesStep, PTL DEF Spec

-----------------------------------------------------------------------------
(* What a new table is refused for.                                        *)

LEMMA OneWayOfMany ==
  ASSUME NEW tokens, Len(tokens) # 1
  PROVE  SnakeName(tokens) = LegacyBase(tokens)
BY DEF SnakeName, LegacyBase

\* A lone token is kept by an earlier release and given a second by this one.
LEMMA LoneToken ==
  ASSUME NEW S, Tokens(S), NEW tokens \in Seq(S), Len(tokens) = 1
  PROVE  /\ LegacyBase(tokens) \in Seq(S)
         /\ \/ Len(LegacyBase(tokens)) = 1
            \/ Len(LegacyBase(tokens)) = 2 /\ IsNumber(Last(LegacyBase(tokens)))
         /\ Len(SnakeName(tokens)) >= 2 /\ Last(SnakeName(tokens)) = Field
<1> DEFINE base == Prefixed(tokens, "col")
           n == MaxTokens - 1
           rest == <<Field>>
<1>1. tokens # <<>> /\ Head(tokens) = tokens[1]
  <2>1. tokens # <<>>
    <3>1. Len(<<>>) = 0
      OBVIOUS
    <3>2. Len(tokens) # Len(<<>>)
      BY <3>1
    <3> QED
      BY <3>2, Zenon
  <2>2. Head(tokens) = tokens[1]
    OBVIOUS
  <2> QED
    BY <2>1, <2>2
<1>2. base \in Seq(S) /\ ~IsNumber(base[1])
  BY <1>1, PrefixedProperties
<1>3. \/ Len(base) = 1
      \/ Len(base) = 2 /\ IsNumber(base[2])
  <2>1. CASE IsNumber(Head(tokens))
    <3>1. base = <<Word("col")>> \o tokens
      BY <1>1, <2>1 DEF Prefixed
    <3>2. <<Word("col")>> \in Seq(S)
      BY DEF Tokens
    <3>3. /\ Len(<<Word("col")>> \o tokens) = 2
          /\ (<<Word("col")>> \o tokens)[2] = tokens[1]
      BY <3>2
    <3> QED
      BY <1>1, <2>1, <3>1, <3>3
  <2>2. CASE ~IsNumber(Head(tokens))
    BY <1>1, <2>2 DEF Prefixed
  <2> QED
    BY <2>1, <2>2
<1>4. /\ n \in Nat /\ n >= 1 /\ n + 1 <= MaxTokens
      /\ rest \in Seq(S) /\ Len(rest) = 1 /\ Last(rest) = Field
  BY NamesAssumption DEF Tokens, Last
<1> HIDE DEF base, n, rest
<1>5. /\ Cut(base, MaxTokens) \in Seq(S) /\ Len(Cut(base, MaxTokens)) = Len(base)
      /\ \A i \in 1..Len(base) : Cut(base, MaxTokens)[i] = base[i]
  BY <1>2, <1>3, CutProperties, NamesAssumption
<1>6. /\ base \in Seq(S) /\ Len(base) >= 1 /\ ~IsNumber(base[1])
      /\ n \in Nat /\ n >= 1
      /\ rest \in Seq(S) /\ Len(rest) >= 1 /\ n + Len(rest) <= MaxTokens
  BY <1>2, <1>3, <1>4
<1>7. /\ IsMultiword(Cut(base, n) \o rest)
      /\ Last(Cut(base, n) \o rest) = Last(rest)
  BY ONLY <1>6, ExtendedIsMultiword
<1>8. SnakeName(tokens) = Cut(base, n) \o rest /\ LegacyBase(tokens) = Cut(base, MaxTokens)
  BY DEF SnakeName, LegacyBase, base, n, rest
<1>9. Len(SnakeName(tokens)) >= 2
  BY <1>7, <1>8, NamesAssumption DEF IsMultiword
<1>10. Last(SnakeName(tokens)) = Field
  BY <1>4, <1>7, <1>8
<1>11. CASE Len(base) = 1
  BY <1>5, <1>8, <1>9, <1>10, <1>11
<1>12. CASE Len(base) = 2 /\ IsNumber(base[2])
  <2>1. Len(LegacyBase(tokens)) = 2 /\ 2 \in 1..Len(base)
    BY <1>5, <1>8, <1>12
  <2>2. LegacyBase(tokens)[2] = base[2]
    BY <1>5, <1>8, <2>1
  <2>3. Last(LegacyBase(tokens)) = base[2]
    BY <2>1, <2>2 DEF Last
  <2> QED
    BY <1>5, <1>8, <1>9, <1>10, <1>12, <2>1, <2>3
<1> QED
  BY <1>3, <1>11, <1>12

LEMMA LineageTokens ==
  ASSUME NEW name \in LineageColumns
  PROVE  Len(name) >= 2 /\ ~IsNumber(Last(name))
BY DEF LineageColumns, Word, IsNumber, Last

\* What a load takes for an earlier release's column is one: a name that an
\* earlier release would have given to two headers.
LEMMA LegacyIsShared ==
  ASSUME NEW S, Tokens(S), NEW t \in Seq(S), LegacyBase(t) # SnakeName(t)
  PROVE  /\ LegacyBase(t) \notin LineageColumns
         /\ \A T : \A u \in Seq(T) :
              Tokens(T) /\ LegacyBase(t) = SnakeName(u) => LegacyBase(u) = LegacyBase(t)
<1>1. Len(t) = 1
  BY OneWayOfMany
<1> DEFINE name == LegacyBase(t)
<1>2. \/ Len(name) = 1
      \/ Len(name) = 2 /\ IsNumber(Last(name))
  BY <1>1, LoneToken
<1> HIDE DEF name
<1>3. name \notin LineageColumns
  <2> SUFFICES ASSUME name \in LineageColumns PROVE FALSE
    OBVIOUS
  <2>1. Len(name) >= 2 /\ ~IsNumber(Last(name))
    BY LineageTokens
  <2>2. Len(name) = 1
    BY <1>2, <2>1
  <2> QED
    BY <2>1, <2>2
<1>4. ASSUME NEW T, NEW u \in Seq(T), Tokens(T), name = SnakeName(u)
      PROVE  LegacyBase(u) = name
  <2>1. CASE Len(u) = 1
    <3>1. Len(name) >= 2 /\ Last(name) = Field
      BY <1>4, <2>1, LoneToken
    <3>2. ~IsNumber(Field)
      BY DEF IsNumber, Field, Word
    <3>3. Len(name) = 1
      BY <1>2, <3>1, <3>2
    <3> QED
      BY <3>1, <3>3
  <2>2. CASE Len(u) # 1
    BY <1>4, <2>2, OneWayOfMany
  <2> QED
    BY <2>1, <2>2
<1> QED
  BY <1>3, <1>4 DEF name

\* A header that has a name for a load is a sequence of tokens.
LEMMA HeadersHaveTokens ==
  ASSUME MadeInv, NEW i \in DOMAIN headers
  PROVE  /\ i \in 1..Len(headers) /\ Len(headers) \in Nat
         /\ IsSequence(LoadTokens(headers[i])) /\ IsSequence(ProposeTokens(headers[i]))
<1>1. headers \in HeaderLists
  BY DEF MadeInv, NamesInv
<1> QED
  BY <1>1, HeadersAssumption DEF IsSequence

LEMMA MadeRefuses == MadeInv => NewTableRefused
<1> SUFFICES ASSUME MadeInv PROVE NewTableRefused
  OBVIOUS
<1>1. ASSUME naming \in Answers
      PROVE  /\ loadable /\ Len(headers) \in Nat
             /\ \A scheme \in Schemes : DOMAIN named[scheme] = DOMAIN headers
  <2>1. loadable /\ \A scheme \in Schemes : Len(named[scheme]) = Len(headers)
    BY <1>1 DEF MadeInv, Stages, Schemes, Complete
  <2>2. DOMAIN headers = 1..Len(headers) /\ Len(headers) \in Nat
    BY HeadersAssumption DEF MadeInv, NamesInv, IsSequence
  <2>3. \A scheme \in Schemes : DOMAIN named[scheme] = 1..Len(named[scheme])
    BY DEF MadeInv, NamesInv, IsSequence
  <2> QED
    BY <2>1, <2>2, <2>3
<1>2. ASSUME naming = "legacy_column", NoCollision("present"), NoCollision("legacy")
      PROVE  FALSE
  <2>1. /\ \A i \in DOMAIN headers : named.present[i] = SnakeName(LoadTokens(headers[i]))
        /\ \A i \in DOMAIN headers : named.legacy[i] = LegacyBase(LoadTokens(headers[i]))
    BY <1>1, <1>2 DEF MadeInv, FirstNames, FirstName, Answers, Schemes
  <2>2. PICK i \in DOMAIN headers :
          /\ named.legacy[i] # named.present[i]
          /\ named.legacy[i] \in Range(named.present) \cup LineageColumns
    BY <1>2 DEF MadeInv, Stages, TakenForLegacy
  <2> DEFINE t == LoadTokens(headers[i])
  <2>3. Tokens(NameTokens(headers[i])) /\ t \in Seq(NameTokens(headers[i]))
    BY HeadersHaveTokens, NameTokensAre
  <2>4. LegacyBase(t) # SnakeName(t)
    BY <2>1, <2>2
  <2> HIDE DEF t
  <2>5. /\ LegacyBase(t) \notin LineageColumns
        /\ \A T : \A u \in Seq(T) :
             Tokens(T) /\ LegacyBase(t) = SnakeName(u) => LegacyBase(u) = LegacyBase(t)
    BY <2>3, <2>4, LegacyIsShared
  <2>6. PICK j \in DOMAIN headers : named.present[j] = LegacyBase(t)
    BY <1>1, <1>2, <2>1, <2>2, <2>5 DEF t, Range, Answers, Schemes
  <2>7. /\ Tokens(NameTokens(headers[j]))
        /\ LoadTokens(headers[j]) \in Seq(NameTokens(headers[j]))
    BY HeadersHaveTokens, NameTokensAre
  <2>8. LegacyBase(LoadTokens(headers[j])) = LegacyBase(t)
    BY <2>1, <2>5, <2>6, <2>7
  <2>9. i = j
    BY <1>2, <2>8 DEF NoCollision, FirstName, t
  <2> QED
    BY <2>1, <2>2, <2>6, <2>9 DEF t
<1>3. ASSUME naming = "duplicate_column"
      PROVE  \E i \in DOMAIN headers : \E n \in 1..Len(headers) :
               PresentCandidate(SnakeName(LoadTokens(headers[i])), n) \in LineageColumns
  <2>1. PICK i \in DOMAIN headers : named.present[i] \in LineageColumns
    BY <1>1, <1>3 DEF MadeInv, Stages, Range, Answers, Schemes
  <2>2. PICK n \in Nat \ {0} :
          named.present[i] = PresentCandidate(SnakeName(LoadTokens(headers[i])), n)
    BY <1>1, <1>3, <2>1 DEF MadeInv, PresentNames, Answers, Schemes
  <2>3. CASE n = 1
    <3>1. 1 \in 1..Len(headers)
      BY HeadersHaveTokens
    <3> QED
      BY <2>1, <2>2, <2>3, <3>1
  <2>4. CASE n # 1
    <3>1. n \in Nat /\ n >= 2
      BY <2>4
    <3>2. IsSequence(LoadTokens(headers[i])) /\ LoadTokens(headers[i]) # <<>>
      BY <1>1, <1>3, HeadersHaveTokens DEF MadeInv, Stages, Answers
    <3>3. Last(Candidate("present", headers[i], n)) = Number(n)
      BY <3>1, <3>2, CandidateIsNumbered
    <3>4. IsNumber(Last(named.present[i]))
      BY <2>2, <3>3 DEF Candidate, IsNumber, Number
    <3> QED
      BY <2>1, <3>4, LineageTokens
  <2> QED
    BY <2>3, <2>4
<1>4. ASSUME Distinct(LAMBDA h : SnakeName(LoadTokens(h))) PROVE NoCollision("present")
  BY <1>4 DEF Distinct, NoCollision, FirstName
<1>5. ASSUME Distinct(LAMBDA h : LegacyBase(LoadTokens(h))) PROVE NoCollision("legacy")
  BY <1>5 DEF Distinct, NoCollision, FirstName
<1> QED
  BY <1>2, <1>3, <1>4, <1>5 DEF NewTableRefused

\* A load into a table that does not exist yet is refused as if the table
\* were an earlier release's only when two headers come to one name, and for
\* a duplicate column only when a header comes to a lineage column's name,
\* whatever the headers and their number.
THEOREM RefusalsHaveReasons == Spec => []NewTableRefused
  BY MadeAlways, MadeRefuses, PTL

-----------------------------------------------------------------------------
(* A plain header has one name in a proposal and in a load.                *)

LEMMA PlainName ==
  ASSUME NEW h, Plain(h), IsSequence(LoadTokens(h))
  PROVE  SnakeName(LoadTokens(h)) = CanonicalName(h)
<1> DEFINE t == LoadTokens(h)
           S == Range(t) \cup {Field}
<1>1. /\ ProposeTokens(h) = t /\ Len(t) \in 1..MaxTokens /\ ~IsNumber(Head(t))
      /\ h \notin DOMAIN Aliases /\ t \notin Reserved
  BY DEF Plain
<1>2. t \in Seq(S) /\ Field \in S
  BY SeqMonotonic DEF IsSequence
<1> HIDE DEF t, S
<1>3. t # <<>>
  <2>1. Len(<<>>) = 0
    OBVIOUS
  <2>2. Len(t) # Len(<<>>)
    BY <1>1, <2>1, NamesAssumption
  <2> QED
    BY <2>2, Zenon
<1>4. Prefixed(t, "col") = t /\ Prefixed(t, "source") = t
  BY <1>1 DEF Prefixed
<1>5. \A n \in Nat : n >= Len(t) => Cut(t, n) = t
  <2> SUFFICES ASSUME NEW n \in Nat, n >= Len(t) PROVE Cut(t, n) = t
    OBVIOUS
  <2>1. /\ Cut(t, n) \in Seq(S) /\ Len(Cut(t, n)) = Len(t)
        /\ \A i \in 1..Len(t) : Cut(t, n)[i] = t[i]
    BY <1>2, CutProperties
  <2> QED
    BY <1>2, <2>1, SeqEqual
<1>6. CASE Len(t) = 1
  <2>1. /\ SnakeName(t) = Cut(t, MaxTokens - 1) \o <<Field>>
        /\ CanonicalName(h) = FitName(Append(t, Field))
    BY <1>1, <1>3, <1>4, <1>6 DEF SnakeName, CanonicalName
  <2>2. Cut(t, MaxTokens - 1) = t
    BY <1>5, <1>6, NamesAssumption
  <2>3. t \o <<Field>> = Append(t, Field) /\ Len(Append(t, Field)) = 2
    BY <1>2, <1>6, AppendIsConcat, AppendProperties
  <2>4. FitName(Append(t, Field)) = Append(t, Field)
    BY <2>3, NamesAssumption DEF FitName
  <2> QED
    BY <2>1, <2>2, <2>3, <2>4 DEF t
<1>7. CASE Len(t) # 1
  <2>1. SnakeName(t) = Cut(t, MaxTokens) /\ CanonicalName(h) = FitName(t)
    BY <1>1, <1>3, <1>4, <1>7 DEF SnakeName, CanonicalName
  <2>2. Cut(t, MaxTokens) = t
    BY <1>1, <1>5, NamesAssumption
  <2>3. FitName(t) = t
    BY <1>1, NamesAssumption DEF FitName
  <2> QED
    BY <2>1, <2>2, <2>3 DEF t
<1> QED
  BY <1>6, <1>7

LEMMA MadeAgrees == MadeInv => ProposalNamesLoad
<1> SUFFICES ASSUME MadeInv, naming = "created",
                    NoCollision("present"), NoCollision("proposed"),
                    NEW i \in DOMAIN headers, Plain(headers[i])
             PROVE  named.proposed[i] = named.present[i]
  BY DEF ProposalNamesLoad, Distinct, NoCollision, FirstName
<1>1. Len(named.present) = Len(headers) /\ Len(named.proposed) = Len(headers)
  BY DEF MadeInv, Stages, Complete, Answers
<1>2. DOMAIN named.present = 1..Len(headers) /\ DOMAIN named.proposed = 1..Len(headers)
  BY <1>1 DEF MadeInv, NamesInv, IsSequence, Schemes
<1>3. i \in 1..Len(headers) /\ IsSequence(LoadTokens(headers[i]))
  BY HeadersHaveTokens
<1>4. /\ named.present[i] = SnakeName(LoadTokens(headers[i]))
      /\ named.proposed[i] = CanonicalName(headers[i])
  BY <1>2, <1>3 DEF MadeInv, FirstNames, FirstName, Schemes
<1> QED
  BY <1>3, <1>4, PlainName

\* Where no two headers of a table come to one name, a plain header has the
\* same name in the proposal and in the table a load creates.
THEOREM ProposalsNameLoads == Spec => []ProposalNamesLoad
  BY MadeAlways, MadeAgrees, PTL
-----------------------------------------------------------------------------
(* The comments of the columns.                                            *)

\* Of mappings that are alike one is kept.
LEMMA DedupedProperties ==
  ASSUME NEW ms, IsSequence(ms)
  PROVE  /\ IsSequence(Deduped(ms)) /\ IsInjective(Deduped(ms))
         /\ Range(Deduped(ms)) \subseteq Range(ms)
<1> DEFINE firsts == Firsts(ms)
           place(n) == Nth(n, firsts)
           kept == Deduped(ms)
<1>1. Len(ms) \in Nat /\ DOMAIN ms = 1..Len(ms)
  BY DEF IsSequence
<1>2. firsts \in SUBSET (1..Len(ms))
  BY <1>1 DEF Firsts
<1>3. /\ Cardinality(firsts) \in Nat
      /\ \A n \in 1..Cardinality(firsts) :
           place(n) \in firsts /\ Rank(place(n), firsts) = n
  BY <1>1, <1>2, NthOfSome
<1>4. /\ DOMAIN kept = 1..Cardinality(firsts)
      /\ kept = [n \in 1..Cardinality(firsts) |-> ms[place(n)]]
  BY DEF Deduped
<1>5. ASSUME NEW n \in 1..Cardinality(firsts)
      PROVE  place(n) \in firsts /\ Rank(place(n), firsts) = n /\ kept[n] = ms[place(n)]
  BY <1>3, <1>4
<1> HIDE DEF firsts, place, kept
<1>6. ASSUME NEW m \in DOMAIN kept, NEW n \in DOMAIN kept, kept[m] = kept[n]
      PROVE  m = n
  <2>1. place(m) \in firsts /\ place(n) \in firsts /\ ms[place(m)] = ms[place(n)]
    BY <1>4, <1>5, <1>6
  <2>2. place(m) = place(n)
    BY <1>2, <2>1 DEF firsts, Firsts
  <2> QED
    BY <1>4, <1>5, <2>2
<1>7. Range(kept) \subseteq Range(ms)
  BY <1>1, <1>2, <1>4, <1>5 DEF Range
<1>8. kept \in Seq(Range(kept))
  BY <1>3, <1>4 DEF Range
<1> QED
  BY <1>6, <1>7, <1>8 DEF IsSequence, IsInjective, kept

\* Columns are named before their comments are attached and created after,
\* and no other column is typed meanwhile.
After == {"named", "invalid_header"} \cup Answers

CallInv ==
  /\ returned = "types" => typing = "idle" /\ naming = "idle"
  /\ naming # "idle" => typing = "idle" /\ headers \in HeaderLists
  /\ mapping # "idle" => naming \in After

\* The comments meant for column k by the first n mappings.
Seen(n) == {document.mappings[i] : i \in 1..n}
MeantBy(k, n) == {m.comment : m \in {m \in Seen(n) : Candidates(m) = {k}}}

\* After n mappings every column has the comments these mean for it.
CommentsSoFar(n) ==
  /\ DOMAIN comments = DOMAIN headers
  /\ \A k \in DOMAIN comments :
       /\ IsSequence(comments[k]) /\ IsInjective(comments[k])
       /\ Range(comments[k]) = MeantBy(k, n)
       /\ document.format # "pptx" => Len(comments[k]) <= 1
  /\ \A m \in Seen(n) :
       \/ Candidates(m) = {} /\ m.source \in unmatched
       \/ Cardinality(Candidates(m)) = 1

DocumentRead ==
  /\ IsSequence(document.mappings) /\ IsInjective(document.mappings)
  /\ \A m \in Mappings : IsText(m.source)
  /\ document.format = "pptx" =>
       \A m, n \in Mappings : m.comment = n.comment => m = n

CommentsInv ==
  mapping # "idle" =>
    /\ DocumentRead
    /\ resolved \in 0..Len(document.mappings)
    /\ CommentsSoFar(resolved)
    /\ mapping \in {"attach", "commented", "ambiguous", "conflicting"}
    /\ mapping = "commented" => resolved = Len(document.mappings)
    /\ mapping = "ambiguous" => \E m \in Mappings : Cardinality(Candidates(m)) > 1
    /\ mapping = "conflicting" => \E k \in DOMAIN comments : Cardinality(Meant(k)) > 1

LEMMA CallStep == CallInv /\ [Next]_vars => CallInv'
<1> SUFFICES ASSUME CallInv, [Next]_vars PROVE CallInv'
  OBVIOUS
<1> USE DEF CallInv
<1>1. CASE Return
  BY <1>1 DEF Return, ForgetNames, ForgetTypes, ForgetComments
<1>2. CASE NameColumns
  <2>1. PICK list \in HeaderLists : OpenNames(list)
    BY <1>2 DEF NameColumns
  <2> QED
    BY <1>2, <2>1 DEF NameColumns, OpenNames, NameStep, typeVars, commentVars, After, Answers
<1>3. CASE MapColumns
  BY <1>3 DEF MapColumns, CommentStep, OpenMappings, nameVars, typeVars, After
<1>4. CASE Step /\ UNCHANGED returned
  <2>1. CASE NamesNext /\ MappingSettled /\ NameStep
    <3>1. headers' = headers /\ typing' = typing /\ mapping' = mapping /\ naming # "idle"
      BY <2>1 DEF NameStep, typeVars, commentVars, NamesNext, TryPresent, TryLegacy, Try,
                  ProposeName, NextScheme, CreateNewTable
    <3>2. ASSUME naming \in After PROVE naming' \in After
      BY <2>1, <3>2
      DEF After, Answers, NamesNext, TryPresent, TryLegacy, Try, ProposeName, NextScheme,
          CreateNewTable
    <3> QED
      BY <1>4, <3>1, <3>2
  <2>2. CASE CommentsNext /\ CommentStep
    BY <1>4, <2>2 DEF CommentsNext, CommentStep, ResolveMapping, FinishMappings, nameVars, typeVars
  <2>3. CASE ReadStep \/ MimeStep \/ SpanStep
    BY <1>4, <2>3 DEF ReadStep, MimeStep, SpanStep, nameVars, typeVars, commentVars
  <2> QED
    BY <1>4, <2>1, <2>2, <2>3 DEF Step
<1>5. CASE BeginConversion \/ TypesReturned
  <2>1. UNCHANGED nameVars /\ UNCHANGED commentVars
    BY <1>5 DEF BeginConversion, TypesReturned, TypeStep
  <2>2. CASE BeginConversion
    BY <2>1, <2>2 DEF BeginConversion, Idle, nameVars, commentVars, After, Answers
  <2>3. CASE TypesReturned
    BY <2>1, <2>3 DEF TypesReturned, ForgetTypes, nameVars, commentVars
  <2> QED
    BY <1>5, <2>2, <2>3
<1>6. CASE BeginInspection \/ SourceReturned \/ ParseSource \/ HtmlReturned \/ ExtractTables
  BY <1>6 DEF BeginInspection, SourceReturned, ParseSource, HtmlReturned, ExtractTables,
              ReadStep, MimeStep, SpanStep, nameVars, typeVars, commentVars
<1>7. CASE UNCHANGED vars
  BY <1>7 DEF vars, nameVars, typeVars, commentVars
<1> QED
  BY <1>1, <1>2, <1>3, <1>4, <1>5, <1>6, <1>7 DEF Next

\* What a mapping means depends on the headers and their names alone.
LEMMA CandidatesKept ==
  ASSUME headers' = headers, named'.present = named.present
  PROVE  \A m : Candidates(m)' = Candidates(m)
  BY DEF Candidates, TargetCandidates, SourceCandidates

LEMMA CommentsUndisturbed ==
  ASSUME CommentsInv, headers' = headers, named'.present = named.present,
         UNCHANGED commentVars
  PROVE  CommentsInv'
<1>1. /\ mapping' = mapping /\ document' = document /\ resolved' = resolved
      /\ comments' = comments /\ unmatched' = unmatched
  BY DEF commentVars
<1>2. \A m : Candidates(m)' = Candidates(m)
  BY CandidatesKept
<1>3. \A k, n : MeantBy(k, n)' = MeantBy(k, n) /\ Seen(n)' = Seen(n)
  BY <1>1, <1>2 DEF MeantBy, Seen
<1>4. (\A k : Meant(k)' = Meant(k)) /\ Mappings' = Mappings
  BY <1>1, <1>2 DEF Meant, Mappings
<1>5. CommentsSoFar(resolved)' = CommentsSoFar(resolved)
  BY <1>1, <1>2, <1>3 DEF CommentsSoFar
<1>6. DocumentRead' = DocumentRead
  BY <1>1, <1>4 DEF DocumentRead
<1> QED
  BY <1>1, <1>2, <1>4, <1>5, <1>6 DEF CommentsInv

\* The columns are those of a list of headers, so there are not many of them.
LEMMA CandidatesAreFinite ==
  ASSUME NamesInv, NEW m
  PROVE  /\ IsFiniteSet(Candidates(m)) /\ Cardinality(Candidates(m)) \in Nat
         /\ Candidates(m) \in SUBSET DOMAIN headers
<1>1. IsSequence(headers)
  <2>1. CASE headers = <<>>
    BY <2>1 DEF IsSequence
  <2>2. CASE headers \in HeaderLists
    BY <2>2, HeadersAssumption
  <2> QED
    BY <2>1, <2>2 DEF NamesInv
<1>2. DOMAIN headers = 1..Len(headers) /\ Len(headers) \in Nat
  BY <1>1 DEF IsSequence
<1>3. IsFiniteSet(DOMAIN headers)
  BY <1>2, FS_Interval
<1>4. Candidates(m) \in SUBSET DOMAIN headers
  BY DEF Candidates, TargetCandidates, SourceCandidates
<1> HIDE DEF Candidates
<1>5. IsFiniteSet(Candidates(m))
  BY <1>3, <1>4, FS_Subset
<1> QED
  BY <1>4, <1>5, FS_CardinalityType

\* A mapping reference is opened.
LEMMA OpenMakesComments ==
  ASSUME CallInv, MapColumns, NamesInv
  PROVE  CommentsInv'
<1>1. PICK doc \in MappingDocuments(headers) : OpenMappings(doc)
  BY DEF MapColumns
<1> DEFINE ms == doc.mappings
<1>2. headers \in HeaderLists /\ headers' = headers
  BY DEF CallInv, MapColumns, CommentStep, nameVars
<1>3. /\ DOMAIN doc = {"format", "mappings"} /\ IsSequence(ms)
      /\ \A i \in DOMAIN ms : IsText(ms[i].source)
      /\ doc.format = "pptx" =>
           \A i, j \in DOMAIN ms : ms[i].comment = ms[j].comment => ms[i] = ms[j]
  BY <1>2, MappingsAssumption
<1>4. /\ document'.mappings = Deduped(ms) /\ document'.format = doc.format
      /\ mapping' = "attach" /\ resolved' = 0 /\ unmatched' = {}
      /\ comments' = [k \in DOMAIN headers |-> <<>>]
  BY <1>1, <1>3 DEF OpenMappings
<1> DEFINE kept == Deduped(ms)
<1>5. IsSequence(kept) /\ IsInjective(kept) /\ Range(kept) \subseteq Range(ms)
  BY <1>3, DedupedProperties
<1>6. Mappings' = Range(kept)
  BY <1>4 DEF Mappings
<1>7. \A m \in Range(kept) : \E i \in DOMAIN ms : m = ms[i]
  BY <1>5 DEF Range
<1> HIDE DEF kept, ms
<1>8. DocumentRead'
  BY <1>3, <1>4, <1>5, <1>6, <1>7 DEF DocumentRead, kept
<1>9. resolved' \in 0..Len(document'.mappings)
  BY <1>4, <1>5 DEF IsSequence, kept
<1>10. Seen(0)' = {} /\ \A k : MeantBy(k, 0)' = {}
  BY DEF Seen, MeantBy
<1>11. IsSequence(<<>>) /\ IsInjective(<<>>) /\ Range(<<>>) = {} /\ Len(<<>>) = 0
  BY DEF IsSequence, IsInjective, Range
<1>12. DOMAIN comments' = DOMAIN headers' /\ \A k \in DOMAIN comments' : comments'[k] = <<>>
  BY <1>2, <1>4
<1>13. CommentsSoFar(0)'
  <2>1. ASSUME NEW k \in DOMAIN comments'
        PROVE  /\ IsSequence(comments'[k]) /\ IsInjective(comments'[k])
               /\ Range(comments'[k]) = MeantBy(k, 0)' /\ Len(comments'[k]) <= 1
    BY <1>10, <1>11, <1>12
  <2>2. \A m : m \notin Seen(0)'
    BY <1>10
  <2> QED
    BY <1>12, <2>1, <2>2 DEF CommentsSoFar
<1> QED
  BY <1>4, <1>8, <1>9, <1>13 DEF CommentsInv

\* One mapping more is seen.
LEMMA SeenGrows ==
  ASSUME NEW n \in Nat
  PROVE  /\ Seen(n + 1) = Seen(n) \cup {document.mappings[n + 1]}
         /\ \A k : MeantBy(k, n + 1) =
              MeantBy(k, n) \cup
                (IF Candidates(document.mappings[n + 1]) = {k}
                   THEN {document.mappings[n + 1].comment} ELSE {})
<1>1. 1..(n + 1) = 1..n \cup {n + 1}
  OBVIOUS
<1>2. Seen(n + 1) = Seen(n) \cup {document.mappings[n + 1]}
  BY <1>1 DEF Seen
<1> HIDE DEF Candidates
<1> QED
  BY <1>2, Zenon DEF MeantBy

LEMMA MeantIsFinite ==
  ASSUME DocumentRead, NEW k
  PROVE  /\ IsFiniteSet(Meant(k))
         /\ \A c, d \in Meant(k) : c # d => Cardinality(Meant(k)) > 1
<1> DEFINE places == DOMAIN document.mappings
           f == [i \in places |-> document.mappings[i].comment]
<1>1. Len(document.mappings) \in Nat /\ places = 1..Len(document.mappings)
  BY DEF DocumentRead, IsSequence
<1>2. IsFiniteSet(places)
  BY <1>1, FS_Interval
<1>3. f \in Surjection(places, {f[i] : i \in places})
  BY DEF Surjection
<1>4. IsFiniteSet({f[i] : i \in places})
  BY <1>2, <1>3, FS_Surjection
<1>5. Meant(k) \in SUBSET {f[i] : i \in places}
  BY DEF Meant, Mappings, Range
<1>6. IsFiniteSet(Meant(k))
  BY <1>4, <1>5, FS_Subset
<1>7. ASSUME NEW c \in Meant(k), NEW d \in Meant(k), c # d
      PROVE  Cardinality(Meant(k)) > 1
  <2>1. {c} \in SUBSET Meant(k) /\ {c} # Meant(k) /\ Cardinality({c}) = 1
    BY <1>7, FS_Singleton
  <2>2. Cardinality({c}) <= Cardinality(Meant(k)) /\ Cardinality({c}) # Cardinality(Meant(k))
    BY <1>6, <2>1, FS_Subset
  <2>3. Cardinality(Meant(k)) \in Nat
    BY <1>6, FS_CardinalityType
  <2> QED
    BY <2>1, <2>2, <2>3
<1> QED
  BY <1>6, <1>7

\* A mapping without a column, or one that gives a column its first or one
\* more comment.
LEMMA MappingResolved ==
  ASSUME DocumentRead, resolved \in 0..Len(document.mappings), CommentsSoFar(resolved),
         NamesInv, ResolveMapping, resolved' = resolved + 1,
         headers' = headers, named' = named
  PROVE  CommentsSoFar(resolved)'
<1>0. PICK n, m : n = resolved /\ m = document.mappings[resolved + 1]
  OBVIOUS
<1>1. document' = document /\ n \in Nat /\ n < Len(document.mappings)
  BY <1>0 DEF ResolveMapping, DocumentRead, IsSequence
<1>2. \A x : Candidates(x)' = Candidates(x)
  BY CandidatesKept
<1>3. \A k, j : MeantBy(k, j)' = MeantBy(k, j) /\ Seen(j)' = Seen(j)
  BY <1>1, <1>2 DEF MeantBy, Seen
<1>4. /\ Seen(n + 1) = Seen(n) \cup {m}
      /\ \A k : MeantBy(k, n + 1) =
           MeantBy(k, n) \cup (IF Candidates(m) = {k} THEN {m.comment} ELSE {})
  BY <1>0, <1>1, SeenGrows
<1>5. SUFFICES CommentsSoFar(n + 1)'
  BY <1>0
<1>6. CASE Candidates(m) = {}
  <2>1. comments' = comments /\ unmatched' = unmatched \cup {m.source}
    BY <1>0, <1>6, FS_EmptySet DEF ResolveMapping
  <2>2. Seen(n + 1)' = Seen(n) \cup {m} /\ \A k : MeantBy(k, n + 1)' = MeantBy(k, n)
    BY <1>3, <1>4, <1>6
  <2>3. \A x \in Seen(n + 1)' :
          \/ Candidates(x)' = {} /\ x.source \in unmatched'
          \/ Cardinality(Candidates(x)') = 1
    BY <1>0, <1>2, <1>6, <2>1, <2>2 DEF CommentsSoFar
  <2>4. ASSUME NEW k \in DOMAIN comments'
        PROVE  /\ IsSequence(comments'[k]) /\ IsInjective(comments'[k])
               /\ Range(comments'[k]) = MeantBy(k, n + 1)'
               /\ document'.format # "pptx" => Len(comments'[k]) <= 1
    BY <1>0, <1>1, <2>1, <2>2 DEF CommentsSoFar
  <2> QED
    BY <1>0, <2>1, <2>3, <2>4 DEF CommentsSoFar
<1>7. ASSUME NEW k \in Candidates(m), Candidates(m) = {k}, Comment(k, m.comment)
      PROVE  CommentsSoFar(n + 1)'
  <2>1. k \in DOMAIN comments /\ unmatched' = unmatched /\ Cardinality(Candidates(m)) = 1
    BY <1>7, CandidatesAreFinite, FS_Singleton DEF Comment, CommentsSoFar
  <2>2. /\ comments[k] \in {<<>>, <<m.comment>>} \/ document.format = "pptx"
        /\ comments' = [comments EXCEPT ![k] =
                          IF @ = <<m.comment>> THEN @ ELSE Append(@, m.comment)]
    BY <1>7 DEF Comment
  <2>3. \A j \in DOMAIN comments : j # k =>
          comments'[j] = comments[j] /\ MeantBy(j, n + 1) = MeantBy(j, n)
    BY <1>4, <1>7, <2>2
  <2>4. MeantBy(k, n + 1) = MeantBy(k, n) \cup {m.comment}
    BY <1>4, <1>7
  <2>5. /\ IsSequence(comments[k]) /\ IsInjective(comments[k])
        /\ Range(comments[k]) = MeantBy(k, n)
        /\ document.format # "pptx" => Len(comments[k]) <= 1
    BY <1>0, <2>1 DEF CommentsSoFar
  <2>6. /\ IsSequence(comments'[k]) /\ IsInjective(comments'[k])
        /\ Range(comments'[k]) = MeantBy(k, n + 1)
        /\ document.format # "pptx" => Len(comments'[k]) <= 1
    <3>1. CASE comments[k] = <<m.comment>>
      <4>1. comments'[k] = comments[k] /\ m.comment \in Range(comments[k])
        BY <2>1, <2>2, <3>1 DEF Range
      <4> QED
        BY <2>4, <2>5, <4>1
    <3>2. CASE comments[k] # <<m.comment>>
      <4>1. comments'[k] = Append(comments[k], m.comment)
        BY <2>1, <2>2, <3>2
      <4>2. m.comment \notin Range(comments[k])
        <5>1. CASE document.format # "pptx"
          <6>1. comments[k] = <<>>
            BY <2>2, <3>2, <5>1
          <6> QED
            BY <6>1 DEF Range
        <5>2. CASE document.format = "pptx"
          <6>1. m \notin Seen(n)
            BY <1>0, <1>1 DEF DocumentRead, IsSequence, IsInjective, Seen
          <6>2. m \in Mappings /\ Seen(n) \subseteq Mappings
            BY <1>0, <1>1 DEF DocumentRead, IsSequence, Seen, Mappings, Range
          <6>3. \A x \in Seen(n) : x.comment # m.comment
            BY <5>2, <6>1, <6>2 DEF DocumentRead
          <6>4. m.comment \notin MeantBy(k, n)
            BY <6>3 DEF MeantBy
          <6> QED
            BY <2>5, <6>4
        <5> QED
          BY <5>1, <5>2
      <4>3. /\ IsSequence(comments'[k]) /\ IsInjective(comments'[k])
            /\ Len(comments'[k]) = Len(comments[k]) + 1
            /\ Range(comments'[k]) = Range(comments[k]) \cup {m.comment}
        BY <2>5, <4>1, <4>2, NameAdded
      <4>4. document.format # "pptx" => Len(comments[k]) = 0
        BY <2>2, <3>2
      <4> QED
        BY <2>4, <2>5, <4>3, <4>4
    <3> QED
      BY <3>1, <3>2
  <2>7. DOMAIN comments' = DOMAIN headers' /\ DOMAIN comments' = DOMAIN comments
    BY <2>2 DEF CommentsSoFar
  <2>8. ASSUME NEW j \in DOMAIN comments
        PROVE  /\ IsSequence(comments'[j]) /\ IsInjective(comments'[j])
               /\ Range(comments'[j]) = MeantBy(j, n + 1)
               /\ document.format # "pptx" => Len(comments'[j]) <= 1
    BY <1>0, <2>3, <2>6 DEF CommentsSoFar
  <2>9. \A x \in Seen(n + 1) :
          \/ Candidates(x) = {} /\ x.source \in unmatched
          \/ Cardinality(Candidates(x)) = 1
    BY <1>0, <1>4, <2>1 DEF CommentsSoFar
  <2> QED
    BY <1>1, <1>2, <1>3, <2>1, <2>7, <2>8, <2>9 DEF CommentsSoFar
<1> QED
  BY <1>0, <1>6, <1>7 DEF ResolveMapping

LEMMA ResolvePreserves ==
  ASSUME NamesInv, CommentsInv, ResolveMapping, headers' = headers, named' = named
  PROVE  CommentsInv'
<1> DEFINE m == document.mappings[resolved + 1]
<1>1. /\ document' = document /\ mapping = "attach" /\ DocumentRead
      /\ resolved \in Nat /\ Len(document.mappings) \in Nat /\ resolved < Len(document.mappings)
      /\ resolved \in 0..Len(document.mappings) /\ CommentsSoFar(resolved)
  BY DEF ResolveMapping, CommentsInv, DocumentRead, IsSequence
<1>2. m \in Mappings
  BY <1>1 DEF DocumentRead, IsSequence, Mappings, Range
<1>3. \A x : Candidates(x)' = Candidates(x)
  BY CandidatesKept
<1>4. DocumentRead' /\ Mappings' = Mappings
  BY <1>1 DEF DocumentRead, Mappings
<1>5. \A k, n : MeantBy(k, n)' = MeantBy(k, n) /\ Seen(n)' = Seen(n)
  BY <1>1, <1>3 DEF MeantBy, Seen
<1>6. \A k : Meant(k)' = Meant(k)
  BY <1>3, <1>4 DEF Meant
<1> HIDE DEF m
<1>7. CASE resolved' = resolved + 1 /\ mapping' = mapping
  <2>1. CommentsSoFar(resolved)'
    BY <1>1, <1>7, MappingResolved
  <2> QED
    BY <1>1, <1>4, <1>7, <2>1 DEF CommentsInv
<1>8. ASSUME resolved' = resolved, comments' = comments, unmatched' = unmatched
      PROVE  CommentsSoFar(resolved)'
  BY <1>1, <1>3, <1>5, <1>8 DEF CommentsSoFar
<1>9. CASE /\ Cardinality(Candidates(m)) > 1 /\ mapping' = "ambiguous"
           /\ UNCHANGED <<resolved, comments, unmatched>>
  BY <1>1, <1>2, <1>3, <1>4, <1>8, <1>9 DEF CommentsInv
<1>10. ASSUME NEW k \in Candidates(m), Candidates(m) = {k},
              comments[k] \notin {<<>>, <<m.comment>>}, document.format # "pptx",
              mapping' = "conflicting", UNCHANGED <<resolved, comments, unmatched>>
       PROVE  CommentsInv'
  <2>1. k \in DOMAIN comments
    BY <1>1, <1>10, CandidatesAreFinite DEF CommentsSoFar
  <2>2. /\ IsSequence(comments[k]) /\ Len(comments[k]) <= 1
        /\ Range(comments[k]) = MeantBy(k, resolved)
    BY <1>1, <1>10, <2>1 DEF CommentsSoFar
  <2>3. Len(comments[k]) \in Nat /\ comments[k] # <<>>
    BY <1>10, <2>2, LenProperties DEF IsSequence
  <2>4. PICK c : comments[k] = <<c>>
    <3>1. comments[k] \in Seq(Range(comments[k])) /\ Len(comments[k]) # 0
      BY <2>2, <2>3, EmptySeq DEF IsSequence
    <3>2. \A n \in Nat : n <= 1 => n = 0 \/ n = 1
      OBVIOUS
    <3>3. Len(comments[k]) = 1
      BY <2>2, <2>3, <3>1, <3>2, Zenon
    <3>4. comments[k] = <<comments[k][1]>>
      BY <3>1, <3>3
    <3> QED
      BY <3>4
  <2>5. c \in MeantBy(k, resolved) /\ c # m.comment
    BY <1>10, <2>2, <2>4 DEF Range
  <2>6. Seen(resolved) \subseteq Mappings
    BY <1>1 DEF Seen, Mappings, Range, DocumentRead, IsSequence
  <2>7. c \in Meant(k)
    BY <2>5, <2>6 DEF Meant, MeantBy
  <2>8. m.comment \in Meant(k)
    BY <1>2, <1>10 DEF Meant
  <2>9. Cardinality(Meant(k)) > 1
    BY <1>1, <2>5, <2>7, <2>8, MeantIsFinite
  <2>10. \E j \in DOMAIN comments' : Cardinality(Meant(j))' > 1
    BY <1>6, <1>10, <2>1, <2>9
  <2> QED
    BY <1>1, <1>4, <1>8, <1>10, <2>10 DEF CommentsInv
<1> QED
  BY <1>1, <1>7, <1>9, <1>10 DEF ResolveMapping, Comment, m

LEMMA CommentsStep == NamesInv /\ CallInv /\ CommentsInv /\ [Next]_vars => CommentsInv'
<1> SUFFICES ASSUME NamesInv, CallInv, CommentsInv, [Next]_vars PROVE CommentsInv'
  OBVIOUS
<1>1. ASSUME UNCHANGED nameVars, UNCHANGED commentVars PROVE CommentsInv'
  BY <1>1, CommentsUndisturbed DEF nameVars
<1>2. ASSUME mapping' = "idle" PROVE CommentsInv'
  BY <1>2 DEF CommentsInv
<1>3. CASE Return
  BY <1>2, <1>3 DEF Return, ForgetComments
<1>4. CASE NameColumns
  BY <1>2, <1>4 DEF NameColumns, NameStep, commentVars, CallInv, After, Answers
<1>5. CASE MapColumns
  BY <1>5, OpenMakesComments
<1>6. CASE Step
  <2>1. CASE NamesNext /\ MappingSettled /\ NameStep
    <3>1. CASE naming \in After
      <4>1. headers' = headers /\ named' = named
        BY <2>1, <3>1
        DEF After, Answers, NamesNext, TryPresent, TryLegacy, Try, ProposeName, NextScheme,
            CreateNewTable
      <4> QED
        BY <2>1, <4>1, CommentsUndisturbed DEF NameStep
    <3>2. CASE naming \notin After
      BY <1>2, <2>1, <3>2 DEF CallInv, NameStep, commentVars
    <3> QED
      BY <3>1, <3>2
  <2>2. CASE CommentsNext /\ CommentStep
    <3>1. headers' = headers /\ named' = named
      BY <2>2 DEF CommentStep, nameVars
    <3>2. CASE ResolveMapping
      BY <3>1, <3>2, ResolvePreserves
    <3>3. CASE FinishMappings
      <4>1. /\ mapping = "attach" /\ mapping' = "commented"
            /\ document' = document /\ resolved' = resolved /\ comments' = comments
            /\ unmatched' = unmatched /\ resolved = Len(document.mappings)
        BY <3>3 DEF FinishMappings
      <4>2. \A x : Candidates(x)' = Candidates(x)
        BY <3>1, CandidatesKept
      <4>3. \A k, n : MeantBy(k, n)' = MeantBy(k, n) /\ Seen(n)' = Seen(n)
        BY <4>1, <4>2 DEF MeantBy, Seen
      <4>4. CommentsSoFar(resolved)'
        BY <3>1, <4>1, <4>2, <4>3 DEF CommentsInv, CommentsSoFar
      <4>5. DocumentRead'
        BY <4>1 DEF CommentsInv, DocumentRead, Mappings
      <4> QED
        BY <4>1, <4>4, <4>5 DEF CommentsInv
    <3> QED
      BY <2>2, <3>2, <3>3 DEF CommentsNext
  <2>3. CASE ReadStep \/ MimeStep \/ SpanStep
    BY <1>1, <2>3 DEF ReadStep, MimeStep, SpanStep
  <2> QED
    BY <1>6, <2>1, <2>2, <2>3 DEF Step
<1>7. CASE \/ BeginInspection \/ SourceReturned \/ ParseSource \/ HtmlReturned
           \/ ExtractTables \/ BeginConversion \/ TypesReturned
  BY <1>1, <1>7
  DEF BeginInspection, SourceReturned, ParseSource, HtmlReturned, ExtractTables,
      BeginConversion, TypesReturned, ReadStep, MimeStep, SpanStep, TypeStep
<1>8. CASE UNCHANGED vars
  BY <1>1, <1>8 DEF vars
<1> QED
  BY <1>3, <1>4, <1>5, <1>6, <1>7, <1>8 DEF Next

\* The comments of a column are in the order of their mappings.
OrderInv == mapping # "idle" => \A k \in DOMAIN comments : InOrder(comments[k])

LEMMA CommentInOrder ==
  ASSUME NamesInv, CommentsInv, OrderInv, mapping = "attach", NEW m,
         m = document.mappings[resolved + 1], resolved < Len(document.mappings),
         NEW k \in Candidates(m), Candidates(m) = {k}, Comment(k, m.comment),
         document' = document
  PROVE  \A j \in DOMAIN comments' : InOrder(comments'[j])
<1> DEFINE ms == document.mappings
           n == resolved
<1>1. /\ DocumentRead /\ CommentsSoFar(n) /\ n \in Nat /\ n + 1 \in DOMAIN ms
      /\ DOMAIN ms = 1..Len(ms) /\ Len(ms) \in Nat
  BY DEF CommentsInv, DocumentRead, IsSequence
<1>3. \A j \in DOMAIN comments : InOrder(comments[j])
  BY DEF OrderInv
<1> DEFINE same == /\ DOMAIN comments' = DOMAIN comments
                   /\ \A j \in DOMAIN comments : comments'[j] = comments[j]
<1>4. CASE same
  BY <1>3, <1>4
<1>5. CASE ~same
  <2>1. /\ comments[k] \in {<<>>, <<m.comment>>} \/ document.format = "pptx"
        /\ comments' = [comments EXCEPT ![k] = Append(@, m.comment)]
        /\ k \in DOMAIN comments /\ comments[k] # <<m.comment>>
    <3>1. k \in DOMAIN comments
      BY <1>1, CandidatesAreFinite DEF CommentsSoFar
    <3>2. \/ comments' = comments
          \/ /\ comments[k] \in {<<>>, <<m.comment>>} \/ document.format = "pptx"
             /\ comments' = [comments EXCEPT ![k] =
                               IF @ = <<m.comment>> THEN @ ELSE Append(@, m.comment)]
      BY DEF Comment
    <3>3. comments[k] # <<m.comment>>
      BY <1>5, <3>1, <3>2
    <3> QED
      BY <1>5, <3>1, <3>2, <3>3
  <2>2. /\ IsSequence(comments[k]) /\ Range(comments[k]) = MeantBy(k, n)
        /\ document.format # "pptx" => Len(comments[k]) <= 1
    BY <1>1, <2>1 DEF CommentsSoFar
  <2>3. PICK old : old = comments[k]
    OBVIOUS
  <2>4. PICK new : new = comments'[k]
    OBVIOUS
  <2>5. Len(old) \in Nat /\ DOMAIN old = 1..Len(old) /\ old \in Seq(Range(old))
    BY <2>2, <2>3 DEF IsSequence
  <2>6. /\ DOMAIN new = 1..(Len(old) + 1) /\ new[Len(old) + 1] = m.comment
        /\ \A p \in 1..Len(old) : new[p] = old[p]
    <3>1. new = Append(old, m.comment)
      BY <2>1, <2>3, <2>4
    <3>2. old \in Seq(Range(old) \cup {m.comment})
      BY <2>5, SeqMonotonic
    <3> QED
      BY <2>5, <3>1, <3>2, AppendProperties
  <2>7. InOrder(new)
    <3> SUFFICES ASSUME NEW p \in DOMAIN new, NEW q \in DOMAIN new,
                        NEW i \in DOMAIN ms, NEW j \in DOMAIN ms, p < q,
                        ms[i].comment = new[p], ms[j].comment = new[q]
                 PROVE  i < j
      BY DEF InOrder
    <3>1. p \in 1..Len(old) /\ new[p] = old[p]
      BY <2>5, <2>6
    <3>2. CASE q \in 1..Len(old)
      <4>1. InOrder(old)
        BY <1>3, <2>1, <2>3
      <4> QED
        BY <2>5, <2>6, <3>1, <3>2, <4>1 DEF InOrder
    <3>3. CASE q = Len(old) + 1
      <4>1. document.format = "pptx"
        <5>1. CASE comments[k] = <<>>
          BY <2>3, <3>1, <5>1
        <5> QED
          BY <2>1, <5>1
      <4>2. \A x, y \in DOMAIN ms : ms[x].comment = ms[y].comment => x = y
        BY <1>1, <4>1 DEF DocumentRead, IsInjective, Mappings, Range
      <4>3. j = n + 1
        BY <1>1, <2>6, <3>3, <4>2
      <4>4. PICK x \in 1..n : ms[x].comment = old[p]
        <5>1. old[p] \in MeantBy(k, n)
          BY <2>2, <2>3, <2>5, <3>1 DEF Range
        <5>2. PICK seen \in Seen(n) : seen.comment = old[p]
          BY <5>1, Zenon DEF MeantBy
        <5> QED
          BY <5>2 DEF Seen
      <4>5. x \in DOMAIN ms
        BY <1>1
      <4>6. i = x
        BY <3>1, <4>2, <4>4, <4>5
      <4> QED
        BY <1>1, <4>3, <4>6
    <3> QED
      BY <2>5, <2>6, <3>2, <3>3
  <2>8. \A j \in DOMAIN comments' : j # k => comments'[j] = comments[j] /\ j \in DOMAIN comments
    BY <2>1
  <2> QED
    BY <1>3, <2>4, <2>7, <2>8
<1> QED
  BY <1>4, <1>5

LEMMA OrderStep ==
  NamesInv /\ CallInv /\ CommentsInv /\ OrderInv /\ [Next]_vars => OrderInv'
<1> SUFFICES ASSUME NamesInv, CallInv, CommentsInv, OrderInv, [Next]_vars PROVE OrderInv'
  OBVIOUS
<1>1. ASSUME comments' = comments, document' = document, mapping # "idle" PROVE OrderInv'
  BY <1>1 DEF OrderInv, InOrder
<1>2. ASSUME mapping' = "idle" PROVE OrderInv'
  BY <1>2 DEF OrderInv
<1>3. ASSUME UNCHANGED commentVars PROVE OrderInv'
  BY <1>1, <1>2, <1>3 DEF commentVars
<1>4. CASE MapColumns
  <2>1. \A k \in DOMAIN comments' : comments'[k] = <<>>
    BY <1>4 DEF MapColumns, OpenMappings
  <2> QED
    BY <2>1 DEF OrderInv, InOrder
<1>5. CASE Return
  BY <1>2, <1>5 DEF Return, ForgetComments
<1>6. CASE Step
  <2>1. CASE CommentsNext
    <3>1. CASE FinishMappings
      BY <1>1, <3>1 DEF FinishMappings
    <3>2. CASE ResolveMapping
      <4>1. PICK m : m = document.mappings[resolved + 1]
        OBVIOUS
      <4>2. mapping = "attach" /\ resolved < Len(document.mappings) /\ document' = document
        BY <3>2 DEF ResolveMapping
      <4>3. CASE comments' = comments
        BY <1>1, <4>2, <4>3
      <4>4. ASSUME NEW k \in Candidates(m), Candidates(m) = {k}, Comment(k, m.comment)
            PROVE  OrderInv'
        <5>1. \A j \in DOMAIN comments' : InOrder(comments'[j])
          BY <4>1, <4>2, <4>4, CommentInOrder
        <5> QED
          BY <4>2, <5>1 DEF OrderInv, InOrder
      <4> QED
        BY <3>2, <4>1, <4>3, <4>4 DEF ResolveMapping
    <3> QED
      BY <2>1, <3>1, <3>2 DEF CommentsNext
  <2>2. CASE UNCHANGED commentVars
    BY <1>3, <2>2
  <2> QED
    BY <1>6, <2>1, <2>2 DEF Step, NameStep, ReadStep, MimeStep, SpanStep
<1>7. CASE \/ BeginInspection \/ SourceReturned \/ ParseSource \/ HtmlReturned
           \/ ExtractTables \/ BeginConversion \/ TypesReturned \/ NameColumns
  BY <1>3, <1>7
  DEF BeginInspection, SourceReturned, ParseSource, HtmlReturned, ExtractTables,
      BeginConversion, TypesReturned, NameColumns, ReadStep, MimeStep, SpanStep, TypeStep,
      NameStep
<1>8. CASE UNCHANGED vars
  BY <1>3, <1>8 DEF vars
<1> QED
  BY <1>4, <1>5, <1>6, <1>7, <1>8 DEF Next

LEMMA CommentsAlways == Spec => [](NamesInv /\ CallInv /\ CommentsInv /\ OrderInv)
<1>1. Init => NamesInv /\ CallInv /\ CommentsInv /\ OrderInv
  <2>1. Init => Fresh
    BY DEF Init, NamesIdle, Fresh
  <2>2. Init => CallInv /\ CommentsInv /\ OrderInv
    BY DEF Init, NamesIdle, CommentsIdle, CallInv, CommentsInv, OrderInv
  <2> QED
    BY <2>1, <2>2, FreshNames
<1> QED
  BY <1>1, DocumentsNamesStep, CallStep, CommentsStep, OrderStep, PTL DEF Spec

\* When all mappings are resolved those seen are those of the document.
LEMMA AllSeen ==
  ASSUME DocumentRead, resolved = Len(document.mappings)
  PROVE  Seen(resolved) = Mappings /\ \A k : MeantBy(k, resolved) = Meant(k)
<1>1. Seen(resolved) = Mappings
  BY DEF Seen, Mappings, Range, DocumentRead, IsSequence
<1> QED
  BY <1>1 DEF MeantBy, Meant

LEMMA CommentsInvImplies == CommentsInv /\ OrderInv => CommentsExact
<1> SUFFICES ASSUME CommentsInv, OrderInv, mapping = "commented"
             PROVE  /\ \A k \in DOMAIN comments :
                         /\ IsInjective(comments[k]) /\ Range(comments[k]) = Meant(k)
                         /\ InOrder(comments[k])
                    /\ \A m \in Mappings :
                         \/ Candidates(m) = {} /\ m.source \in unmatched
                         \/ Cardinality(Candidates(m)) = 1
                    /\ document.format # "pptx" =>
                         \A k \in DOMAIN comments : Cardinality(Meant(k)) <= 1
  BY DEF CommentsInv, CommentsExact
<1>1. /\ DocumentRead /\ CommentsSoFar(resolved)
      /\ Seen(resolved) = Mappings /\ \A k : MeantBy(k, resolved) = Meant(k)
  BY AllSeen DEF CommentsInv
<1>2. ASSUME document.format # "pptx", NEW k \in DOMAIN comments
      PROVE  Cardinality(Meant(k)) <= 1
  <2>1. /\ IsSequence(comments[k]) /\ Len(comments[k]) <= 1
        /\ Range(comments[k]) = Meant(k)
    BY <1>1, <1>2 DEF CommentsSoFar
  <2>2. Len(comments[k]) = 0 \/ Len(comments[k]) = 1
    <3>1. Len(comments[k]) \in Nat
      BY <2>1, LenProperties DEF IsSequence
    <3>2. \A n \in Nat : n <= 1 => n = 0 \/ n = 1
      OBVIOUS
    <3> QED
      BY <2>1, <3>1, <3>2, Zenon
  <2>3. Meant(k) = {} \/ \E c : Meant(k) = {c}
    <3>1. DOMAIN comments[k] = 1..Len(comments[k])
      BY <2>1, LenProperties DEF IsSequence
    <3>2. Meant(k) = {comments[k][i] : i \in 1..Len(comments[k])}
      BY <2>1, <3>1 DEF Range
    <3>3. 1..0 = {} /\ 1..1 = {1}
      OBVIOUS
    <3>4. CASE Len(comments[k]) = 0
      BY <3>2, <3>3, <3>4
    <3>5. CASE Len(comments[k]) = 1
      <4>1. Meant(k) = {comments[k][1]}
        BY <3>2, <3>3, <3>5
      <4> QED
        BY <4>1
    <3> QED
      BY <2>2, <3>4, <3>5
  <2> QED
    <3>1. CASE Meant(k) = {}
      BY <3>1, FS_EmptySet
    <3>2. ASSUME NEW c, Meant(k) = {c} PROVE Cardinality(Meant(k)) = 1
      BY <3>2, FS_Singleton
    <3> QED
      BY <2>3, <3>1, <3>2
<1> QED
  BY <1>1, <1>2 DEF CommentsSoFar, OrderInv

\* Whatever the mappings and their order, each column has every comment
\* meant for it once and in their order, none is dropped, and a reference is
\* refused exactly where it is ambiguous or in conflict.
THEOREM CommentsAreExact == Spec => []CommentsExact
  BY CommentsAlways, CommentsInvImplies, PTL

-----------------------------------------------------------------------------
(* A mapping that spells a header finds its column.                        *)

LEMMA SpelledAlike ==
  ASSUME NEW g, IsText(g), NEW h, IsText(h), Folded(g) = Folded(h)
  PROVE  Folded(Suffix(g)) = Folded(Suffix(h))
<1> DEFINE dots(x) == {i \in DOMAIN x : x[i] = Dot}
           last(d) == IF d = {} THEN 0 ELSE CHOOSE i \in d : \A j \in d : j <= i
           from(x) == last(dots(x))
<1>1. /\ Len(g) \in Nat /\ DOMAIN g = 1..Len(g) /\ Len(h) \in Nat /\ DOMAIN h = 1..Len(h)
  BY DEF IsText, IsSequence
<1>2. DOMAIN g = DOMAIN h /\ \A i \in DOMAIN g : g[i].fold = h[i].fold
  <2>1. DOMAIN Folded(g) = DOMAIN g /\ DOMAIN Folded(h) = DOMAIN h
    BY DEF Folded
  <2>2. /\ \A i \in DOMAIN g : Folded(g)[i] = g[i].fold
        /\ \A i \in DOMAIN h : Folded(h)[i] = h[i].fold
    BY DEF Folded
  <2> QED
    BY <2>1, <2>2
<1>3. Len(g) = Len(h)
  <2>1. \A m, n \in Nat : 1..m = 1..n => m = n
    <3> SUFFICES ASSUME NEW m \in Nat, NEW n \in Nat, m < n PROVE 1..m # 1..n
      OBVIOUS
    <3>1. n \in 1..n /\ n \notin 1..m
      OBVIOUS
    <3> QED
      BY <3>1
  <2> QED
    BY <1>1, <1>2, <2>1, Zenon
<1>4. dots(g) = dots(h)
  BY <1>2 DEF IsText
<1>5. from(g) = from(h) /\ from(g) \in Nat
  <2>1. dots(g) \subseteq 1..Len(g)
    BY <1>1
  <2>2. from(g) \in Nat
    <3>1. CASE dots(g) = {}
      BY <3>1
    <3>2. CASE dots(g) # {}
      <4>1. \E i \in dots(g) : \A j \in dots(g) : j <= i
        <5> HIDE DEF dots
        <5> QED
          BY <1>1, <2>1, <3>2, LastOfSome
      <4> QED
        BY <2>1, <3>2, <4>1
    <3> QED
      BY <3>1, <3>2
  <2>3. from(g) = from(h)
    <3> HIDE DEF last, dots
    <3> QED
      BY <1>4
  <2> QED
    BY <2>2, <2>3
<1>6. Suffix(g) = SubSeq(g, 1 + from(g), Len(g)) /\ Suffix(h) = SubSeq(h, 1 + from(h), Len(h))
  BY DEF Suffix
<1> HIDE DEF from, last, dots
<1>7. ASSUME NEW x, IsText(x), Len(x) = Len(g), NEW a \in Nat
      PROVE  SubSeq(x, 1 + a, Len(x)) = [i \in 1..(Len(g) - a) |-> x[a + i]]
  BY <1>1, <1>7
<1>8. /\ Suffix(g) = [i \in 1..(Len(g) - from(g)) |-> g[from(g) + i]]
      /\ Suffix(h) = [i \in 1..(Len(g) - from(g)) |-> h[from(g) + i]]
  BY <1>3, <1>5, <1>6, <1>7, SMTT(20)
<1>9. \A i \in 1..(Len(g) - from(g)) : g[from(g) + i].fold = h[from(g) + i].fold
  BY <1>1, <1>2, <1>5
<1> QED
  BY <1>8, <1>9 DEF Folded

LEMMA HeaderIsCandidate ==
  ASSUME DocumentRead, NEW m \in Mappings, NEW k \in DOMAIN headers,
         IsText(headers[k]), m.target = <<>>, Folded(m.source) = Folded(headers[k])
  PROVE  k \in Candidates(m)
<1>1. Folded(Suffix(headers[k])) = Folded(Suffix(m.source))
  BY SpelledAlike DEF DocumentRead
<1> QED
  BY <1>1 DEF Candidates, SourceCandidates

LEMMA CommentsInvFinds == NamesInv /\ CallInv /\ CommentsInv => HeaderFindsColumn
<1> SUFFICES ASSUME NamesInv, CallInv, CommentsInv, mapping = "commented",
                    NEW m \in Mappings, NEW k \in DOMAIN headers,
                    m.target = <<>>, Folded(m.source) = Folded(headers[k])
             PROVE  m.comment \in Range(comments[k])
  BY DEF HeaderFindsColumn
<1>1. /\ DocumentRead /\ CommentsSoFar(resolved)
      /\ Seen(resolved) = Mappings /\ \A j : MeantBy(j, resolved) = Meant(j)
  BY AllSeen DEF CommentsInv
<1>2. IsText(headers[k])
  BY MappingsAssumption DEF CallInv, After, Answers
<1>3. k \in Candidates(m)
  BY <1>1, <1>2, HeaderIsCandidate
<1>4. Cardinality(Candidates(m)) = 1
  BY <1>1, <1>3 DEF CommentsSoFar
<1>5. Candidates(m) = {k}
  BY <1>3, <1>4, CandidatesAreFinite, FS_Singleton
<1>6. m.comment \in Meant(k)
  BY <1>5 DEF Meant
<1> QED
  BY <1>1, <1>6 DEF CommentsSoFar

\* A mapping that spells the header of a column describes this column, or
\* the reference is refused.
THEOREM HeadersFindColumns == Spec => []HeaderFindsColumn
  BY CommentsAlways, CommentsInvFinds, PTL

-----------------------------------------------------------------------------
(* The walk over the parts of a message.                                   *)

\* The parts that follow the first n of a message and hang from one of these
\* or from the message itself.
Waiting(m, n) ==
  {j \in Parts(m) : j > n /\ \A k \in (n + 1)..(j - 1) : Depth(m, k) >= Depth(m, j)}

\* The stack after n parts: what waits, the first on top, with its depth.
StackHolds(m, s, n) ==
  /\ s \in Seq([part : Nat, depth : Nat])
  /\ \A k \in DOMAIN s : s[k].part \in Waiting(m, n) /\ s[k].depth = Depth(m, s[k].part)
  /\ \A j \in Waiting(m, n) : \E k \in DOMAIN s : s[k].part = j
  /\ \A j, k \in DOMAIN s : j < k => s[k].part < s[j].part

LEMMA MessageIsTree ==
  ASSUME NEW m \in Messages
  PROVE  /\ Len(m.parts) \in Nat /\ Parts(m) = 1..Len(m.parts) /\ Depth(m, 0) = 0
         /\ \A i \in Parts(m) : /\ Depth(m, i) \in Nat \ {0} /\ Depth(m, i) = m.parts[i].depth
                                /\ Depth(m, i) <= Depth(m, i - 1) + 1
  BY MessagesAssumption DEF Parts, Depth

\* When a part is visited its children take its place before all others.
LEMMA WaitingAfterVisit ==
  ASSUME NEW m \in Messages, NEW n \in Parts(m)
  PROVE  /\ Waiting(m, n) = (Waiting(m, n - 1) \ {n}) \cup Children(m, n)
         /\ \A c \in Children(m, n), j \in Waiting(m, n - 1) \ {n} : c < j
<1>1. /\ Parts(m) = 1..Len(m.parts) /\ Len(m.parts) \in Nat
      /\ \A i \in Parts(m) : Depth(m, i) \in Nat /\ Depth(m, i) <= Depth(m, i - 1) + 1
  BY MessageIsTree
<1>2. ASSUME NEW j \in Waiting(m, n), j \notin Children(m, n)
      PROVE  j \in Waiting(m, n - 1) \ {n}
  <2>1. /\ j \in Parts(m) /\ j > n
        /\ \A k \in (n + 1)..(j - 1) : Depth(m, k) >= Depth(m, j)
    BY <1>2 DEF Waiting
  <2>2. Depth(m, j) <= Depth(m, n)
    <3> SUFFICES ASSUME Depth(m, j) > Depth(m, n) PROVE FALSE
      BY <1>1, <2>1
    <3>1. Depth(m, n + 1) <= Depth(m, n) + 1
      <4>1. n + 1 \in Parts(m) /\ (n + 1) - 1 = n
        BY <1>1, <2>1
      <4> QED
        BY <1>1, <4>1
    <3>2. Depth(m, j) <= Depth(m, n + 1)
      <4>1. j = n + 1 \/ n + 1 \in (n + 1)..(j - 1)
        BY <1>1, <2>1
      <4>2. n + 1 \in Parts(m)
        BY <1>1, <2>1
      <4> QED
        BY <1>1, <2>1, <4>1, <4>2
    <3>3. Depth(m, j) = Depth(m, n) + 1
      <4>1. n + 1 \in Parts(m)
        BY <1>1, <2>1
      <4> QED
        BY <1>1, <2>1, <3>1, <3>2, <4>1
    <3>4. \A k \in (n + 1)..(j - 1) : Depth(m, k) > Depth(m, n)
      <4>1. \A k \in (n + 1)..(j - 1) : k \in Parts(m)
        BY <1>1, <2>1
      <4> QED
        BY <1>1, <2>1, <4>1
    <3> QED
      BY <1>2, <2>1, <3>3, <3>4 DEF Children
  <2>3. \A k \in ((n - 1) + 1)..(j - 1) : k = n \/ k \in (n + 1)..(j - 1)
    BY <1>1, <2>1
  <2>4. j > n - 1 /\ j # n
    BY <1>1, <2>1
  <2>5. \A k \in ((n - 1) + 1)..(j - 1) : Depth(m, k) >= Depth(m, j)
    BY <1>1, <2>1, <2>2, <2>3
  <2> QED
    BY <2>1, <2>4, <2>5 DEF Waiting
<1>3. ASSUME NEW j \in Waiting(m, n - 1), j # n
      PROVE  j \in Waiting(m, n) /\ Depth(m, j) <= Depth(m, n)
  <2>1. /\ j \in Parts(m) /\ j > n - 1
        /\ \A k \in ((n - 1) + 1)..(j - 1) : Depth(m, k) >= Depth(m, j)
    BY DEF Waiting
  <2>2. j > n /\ n \in ((n - 1) + 1)..(j - 1)
        /\ \A k \in (n + 1)..(j - 1) : k \in ((n - 1) + 1)..(j - 1)
    BY <1>1, <1>3, <2>1
  <2> QED
    BY <1>1, <2>1, <2>2 DEF Waiting
<1>4. ASSUME NEW c \in Children(m, n)
      PROVE  /\ c \in Waiting(m, n) /\ c > n /\ Depth(m, c) = Depth(m, n) + 1
             /\ c \in Parts(m) /\ \A k \in (n + 1)..(c - 1) : Depth(m, k) > Depth(m, n)
  <2>1. /\ c \in Parts(m) /\ c > n /\ Depth(m, c) = Depth(m, n) + 1
        /\ \A k \in (n + 1)..(c - 1) : Depth(m, k) > Depth(m, n)
    BY DEF Children
  <2>2. \A k \in (n + 1)..(c - 1) : k \in Parts(m)
    BY <1>1, <2>1
  <2>3. \A k \in (n + 1)..(c - 1) : Depth(m, k) >= Depth(m, c)
    BY <1>1, <2>1, <2>2
  <2> QED
    BY <2>1, <2>3 DEF Waiting
<1>5. ASSUME NEW c \in Children(m, n), NEW j \in Waiting(m, n - 1), j # n
      PROVE  c < j
  <2>1. j \in Waiting(m, n) /\ Depth(m, j) <= Depth(m, n)
    BY <1>3, <1>5
  <2>2. j \in Parts(m) /\ j > n
    BY <2>1 DEF Waiting
  <2>3. j # c /\ j \notin (n + 1)..(c - 1)
    BY <1>1, <1>4, <2>1, <2>2
  <2> QED
    BY <1>1, <1>4, <2>2, <2>3
<1> QED
  BY <1>2, <1>3, <1>4, <1>5

LEMMA WaitingAtFirst ==
  ASSUME NEW m \in Messages
  PROVE  Waiting(m, 0) = Children(m, 0)
<1>1. /\ Parts(m) = 1..Len(m.parts) /\ Len(m.parts) \in Nat /\ Depth(m, 0) = 0
      /\ \A i \in Parts(m) : Depth(m, i) \in Nat \ {0} /\ Depth(m, i) <= Depth(m, i - 1) + 1
  BY MessageIsTree
<1>2. ASSUME NEW j \in Waiting(m, 0) PROVE j \in Children(m, 0)
  <2>1. j \in Parts(m) /\ j > 0 /\ \A k \in 1..(j - 1) : Depth(m, k) >= Depth(m, j)
    BY DEF Waiting
  <2>2. 1 \in Parts(m) /\ Depth(m, 1) <= 1
    <3>1. 1 \in Parts(m) /\ 1 - 1 = 0
      BY <1>1, <2>1
    <3> QED
      BY <1>1, <3>1
  <2>3. Depth(m, j) = 1
    <3>1. j = 1 \/ 1 \in 1..(j - 1)
      BY <1>1, <2>1
    <3> QED
      BY <1>1, <2>1, <2>2, <3>1
  <2>4. \A k \in (0 + 1)..(j - 1) : Depth(m, k) > Depth(m, 0)
    <3>1. \A k \in (0 + 1)..(j - 1) : k \in Parts(m)
      BY <1>1, <2>1
    <3> QED
      BY <1>1, <3>1
  <2> QED
    BY <1>1, <2>1, <2>3, <2>4 DEF Children
<1>3. ASSUME NEW j \in Children(m, 0) PROVE j \in Waiting(m, 0)
  <2>1. j \in Parts(m) /\ j > 0 /\ Depth(m, j) = 1
    BY <1>1 DEF Children
  <2>2. \A k \in (0 + 1)..(j - 1) : k \in Parts(m)
    BY <1>1, <2>1
  <2> QED
    BY <1>1, <2>1, <2>2 DEF Waiting
<1> QED
  BY <1>2, <1>3

\* The next part is on top until all have been visited.
LEMMA NextWaits ==
  ASSUME NEW m \in Messages, NEW n \in Nat, n < Len(m.parts)
  PROVE  n + 1 \in Waiting(m, n) /\ \A j \in Waiting(m, n) : n + 1 <= j
  BY MessageIsTree DEF Waiting

\* The children of an entity are put on the stack, the first on top.
Pushed(s, below, m, i, depth) ==
  /\ s \in Seq([part : Nat, depth : Nat]) /\ Len(s) >= Len(below)
  /\ \A k \in 1..Len(below) : s[k] = below[k]
  /\ \A k \in (Len(below) + 1)..Len(s) :
       s[k].part \in Children(m, i) /\ s[k].depth = depth
  /\ \A j \in Children(m, i) : \E k \in (Len(below) + 1)..Len(s) : s[k].part = j
  /\ \A j, k \in (Len(below) + 1)..Len(s) : j < k => s[k].part < s[j].part

LEMMA PushProperties ==
  ASSUME NEW m \in Messages, NEW i \in 0..Len(m.parts), NEW depth \in Nat,
         NEW below \in Seq([part : Nat, depth : Nat])
  PROVE  Pushed(Push(below, m, i, depth), below, m, i, depth)
<1> DEFINE children == Children(m, i)
           count == Cardinality(children)
           place(k) == Nth(count + 1 - k, children)
           pushed == [k \in 1..count |-> [part |-> place(k), depth |-> depth]]
           s == Push(below, m, i, depth)
           n == Len(below)
<1>1. Len(m.parts) \in Nat /\ children \in SUBSET (1..Len(m.parts))
  BY MessageIsTree DEF Children
<1>2. /\ count \in Nat
      /\ \A k \in 1..count : Nth(k, children) \in children /\ Rank(Nth(k, children), children) = k
      /\ \A j \in children : /\ Rank(j, children) \in 1..count
                             /\ Nth(Rank(j, children), children) = j
      /\ \A j, k \in children : j < k => Rank(j, children) < Rank(k, children)
  BY <1>1, NthOfSome
<1>3. /\ \A k \in 1..count : place(k) \in children /\ place(k) \in Nat
      /\ \A j \in children : \E k \in 1..count : place(k) = j
      /\ \A j, k \in 1..count : j < k => place(k) < place(j)
  <2>1. \A k \in 1..count : count + 1 - k \in 1..count /\ count + 1 - (count + 1 - k) = k
    BY <1>2
  <2>2. \A k \in 1..count : place(k) \in children /\ Rank(place(k), children) = count + 1 - k
    BY <1>2, <2>1
  <2>3. \A j \in children : \E k \in 1..count : place(k) = j
    <3> TAKE j \in children
    <3>1. count + 1 - Rank(j, children) \in 1..count
          /\ count + 1 - (count + 1 - Rank(j, children)) = Rank(j, children)
      BY <1>2
    <3>2. place(count + 1 - Rank(j, children)) = j
      BY <1>2, <3>1
    <3> QED
      BY <3>1, <3>2
  <2>4. ASSUME NEW j \in 1..count, NEW k \in 1..count, j < k
        PROVE  place(k) < place(j)
    <3> DEFINE p == place(j)
               q == place(k)
    <3>1. p \in children /\ q \in children
          /\ Rank(q, children) < Rank(p, children)
      BY <1>2, <2>2, <2>4
    <3> HIDE DEF p, q
    <3>2. p # q /\ ~(p < q) /\ p \in Nat /\ q \in Nat
      BY <1>1, <1>2, <3>1
    <3>3. q < p
      BY <3>2
    <3> QED
      BY <3>3 DEF p, q
  <2> QED
    BY <1>1, <2>2, <2>3, <2>4
<1>4. s = below \o pushed
  BY DEF Push
<1> HIDE DEF children, count, place
<1>5. pushed \in Seq([part : Nat, depth : Nat]) /\ Len(pushed) = count
      /\ \A k \in 1..count : pushed[k].part = place(k) /\ pushed[k].depth = depth
  <2>1. pushed \in [1..count -> [part : Nat, depth : Nat]]
    BY <1>3
  <2> QED
    BY <1>2, <2>1
<1> HIDE DEF pushed, s
<1>6. /\ s \in Seq([part : Nat, depth : Nat]) /\ Len(s) = n + count /\ n \in Nat
      /\ \A k \in 1..n : s[k] = below[k]
      /\ \A k \in 1..count : s[n + k] = pushed[k]
  <2>1. below \in Seq([part : Nat, depth : Nat]) /\ pushed \in Seq([part : Nat, depth : Nat])
    BY <1>5
  <2>2. /\ below \o pushed \in Seq([part : Nat, depth : Nat])
        /\ Len(below \o pushed) = Len(below) + Len(pushed) /\ Len(below) \in Nat
        /\ \A k \in 1..Len(below) : (below \o pushed)[k] = below[k]
        /\ \A k \in 1..Len(pushed) : (below \o pushed)[Len(below) + k] = pushed[k]
    BY ONLY <2>1, ConcatProperties
  <2> QED
    BY <1>4, <1>5, <2>2
<1> HIDE DEF n
<1>14. n \in Nat /\ count \in Nat
  BY <1>2, <1>6
<1>7. \A k \in (n + 1)..(n + count) : k - n \in 1..count /\ n + (k - n) = k
  BY ONLY <1>14
<1>8. \A k \in (n + 1)..(n + count) : s[k] = pushed[k - n]
  BY <1>6, <1>7
<1>9. \A k \in 1..count : n + k \in (n + 1)..(n + count) /\ (n + k) - n = k
  BY <1>2, <1>6
<1>10. \A j \in children : \E k \in (n + 1)..(n + count) : s[k].part = j
  BY <1>3, <1>5, <1>6, <1>9
<1>11. ASSUME NEW j \in (n + 1)..(n + count), NEW k \in (n + 1)..(n + count), j < k
       PROVE  s[k].part < s[j].part
  <2>1. j - n \in 1..count /\ k - n \in 1..count /\ j - n < k - n
    BY <1>2, <1>6, <1>11
  <2>2. place(k - n) < place(j - n)
    BY <1>3, <2>1
  <2> QED
    BY <1>5, <1>8, <2>1, <2>2
<1>12. \A k \in (n + 1)..(n + count) : s[k].part \in children /\ s[k].depth = depth
  BY <1>3, <1>5, <1>7, <1>8
<1>13. n + count >= n
  BY <1>2, <1>6
<1> QED
  BY <1>6, <1>10, <1>11, <1>12, <1>13 DEF Pushed, n, s, children

LEMMA StackOpened ==
  ASSUME NEW m \in Messages
  PROVE  StackHolds(m, Push(<<>>, m, 0, 1), 0)
<1> DEFINE below == <<>>
           top == 0
           first == 1
           s == Push(below, m, top, first)
<1>1. Len(m.parts) \in Nat /\ Depth(m, 0) = 0
  BY MessageIsTree
<1>2. top \in 0..Len(m.parts) /\ first \in Nat /\ below \in Seq([part : Nat, depth : Nat])
  BY <1>1
<1>8. Len(below) = 0
  OBVIOUS
<1> HIDE DEF below, top, first
<1>3. /\ s \in Seq([part : Nat, depth : Nat])
      /\ \A k \in (Len(below) + 1)..Len(s) : s[k].part \in Children(m, top) /\ s[k].depth = first
      /\ \A j \in Children(m, top) : \E k \in (Len(below) + 1)..Len(s) : s[k].part = j
      /\ \A j, k \in (Len(below) + 1)..Len(s) : j < k => s[k].part < s[j].part
  <2>1. Pushed(s, below, m, top, first)
    BY ONLY <1>2, m \in Messages, PushProperties
  <2> QED
    BY <2>1 DEF Pushed
<1> HIDE DEF s
<1>4. DOMAIN s = (Len(below) + 1)..Len(s)
  BY <1>3, <1>8
<1>5. \A j \in Children(m, 0) : Depth(m, j) = first
  BY <1>1 DEF Children, first
<1>6. Waiting(m, 0) = Children(m, 0)
  BY WaitingAtFirst
<1>7. StackHolds(m, s, 0)
  BY <1>3, <1>4, <1>5, <1>6 DEF StackHolds, top
<1> QED
  BY <1>7 DEF s, below, top, first

\* A visit takes the next part from the stack and leaves what waits after it.
LEMMA StackVisited ==
  ASSUME NEW m \in Messages, NEW n \in Nat, n <= Len(m.parts),
         NEW s, s # <<>>, StackHolds(m, s, n)
  PROVE  /\ n < Len(m.parts) /\ Last(s) = [part |-> n + 1, depth |-> Depth(m, n + 1)]
         /\ StackHolds(m, Push(Front(s), m, Last(s).part, Last(s).depth + 1), n + 1)
<1> DEFINE Entries == [part : Nat, depth : Nat]
           next == Last(s)
           below == Front(s)
           t == Push(below, m, n + 1, next.depth + 1)
<1>1. /\ s \in Seq(Entries)
      /\ \A k \in DOMAIN s : s[k].part \in Waiting(m, n) /\ s[k].depth = Depth(m, s[k].part)
      /\ \A j \in Waiting(m, n) : \E k \in DOMAIN s : s[k].part = j
      /\ \A j, k \in DOMAIN s : j < k => s[k].part < s[j].part
  BY DEF StackHolds
<1>2. /\ Len(s) \in Nat \ {0} /\ DOMAIN s = 1..Len(s) /\ next = s[Len(s)]
      /\ next \in Entries /\ Len(s) \in DOMAIN s
  <2>1. next \in Entries
    BY <1>1, FrontOfSome
  <2> HIDE DEF Entries
  <2>2. Len(s) \in Nat \ {0} /\ DOMAIN s = 1..Len(s)
    BY <1>1
  <2> QED
    BY <2>1, <2>2 DEF Last
<1>3. /\ below \in Seq(Entries) /\ Len(below) = Len(s) - 1
      /\ \A k \in 1..(Len(s) - 1) : below[k] = s[k]
  BY <1>1, FrontOfSome
<1> HIDE DEF below, next
<1>4. n < Len(m.parts) /\ Len(m.parts) \in Nat
  <2>1. s[Len(s)].part \in Waiting(m, n)
    BY <1>1, <1>2
  <2> QED
    BY <2>1, MessageIsTree DEF Waiting
<1>5. n + 1 \in Waiting(m, n) /\ \A j \in Waiting(m, n) : n + 1 <= j /\ j \in Nat
  <2>1. \A j \in Waiting(m, n) : j \in Nat
    BY MessageIsTree DEF Waiting
  <2> QED
    BY <1>4, <2>1, NextWaits
<1>6. next.part = n + 1
  <2>1. PICK k \in DOMAIN s : s[k].part = n + 1
    BY <1>1, <1>5
  <2>2. next.part \in Waiting(m, n)
    BY <1>1, <1>2
  <2>3. k = Len(s)
    <3> SUFFICES ASSUME k # Len(s) PROVE FALSE
      OBVIOUS
    <3>3. k < Len(s)
      BY <1>2
    <3>1. next.part < n + 1
      BY <1>1, <1>2, <2>1, <3>3
    <3> QED
      BY <1>5, <2>2, <3>1
  <2> QED
    BY <1>2, <2>1, <2>3
<1>7. next.depth = Depth(m, n + 1)
  BY <1>1, <1>2, <1>6
<1>8. next = [part |-> n + 1, depth |-> Depth(m, n + 1)]
  BY <1>2, <1>6, <1>7
<1>9. n + 1 \in Parts(m) /\ n + 1 \in 0..Len(m.parts) /\ next.depth + 1 \in Nat /\ (n + 1) - 1 = n
  BY <1>2, <1>4, MessageIsTree
<1>10. /\ t \in Seq(Entries) /\ Len(t) >= Len(below)
       /\ \A k \in 1..Len(below) : t[k] = below[k]
       /\ \A k \in (Len(below) + 1)..Len(t) :
            t[k].part \in Children(m, n + 1) /\ t[k].depth = next.depth + 1
       /\ \A j \in Children(m, n + 1) : \E k \in (Len(below) + 1)..Len(t) : t[k].part = j
       /\ \A j, k \in (Len(below) + 1)..Len(t) : j < k => t[k].part < t[j].part
  <2> DEFINE i == n + 1
             depth == next.depth + 1
  <2>1. i \in 0..Len(m.parts) /\ depth \in Nat
    BY <1>9
  <2> HIDE DEF i, depth
  <2>2. Pushed(Push(below, m, i, depth), below, m, i, depth)
    BY <1>3, <2>1, PushProperties
  <2> QED
    BY <2>2 DEF Pushed, i, depth
<1>11. /\ Waiting(m, n + 1) = (Waiting(m, n) \ {n + 1}) \cup Children(m, n + 1)
       /\ \A c \in Children(m, n + 1), j \in Waiting(m, n) \ {n + 1} : c < j
  BY <1>9, WaitingAfterVisit
<1> HIDE DEF t
<1>20. /\ Len(s) \in Nat /\ Len(below) \in Nat /\ Len(t) \in Nat /\ Len(t) >= Len(below)
      /\ DOMAIN s = 1..Len(s) /\ DOMAIN t = 1..Len(t) /\ Len(below) = Len(s) - 1
  BY <1>2, <1>3, <1>10
<1>12. \A k \in DOMAIN t : k \in 1..Len(below) \/ k \in (Len(below) + 1)..Len(t)
  BY ONLY <1>20
<1>13. \A k \in 1..Len(below) : /\ k \in DOMAIN s /\ k \in DOMAIN t /\ k < Len(s)
                                /\ t[k] = s[k] /\ s[k].part \in Waiting(m, n) \ {n + 1}
  <2> TAKE k \in 1..Len(below)
  <2>1. k \in DOMAIN s /\ k \in DOMAIN t /\ k < Len(s) /\ Len(s) \in DOMAIN s
    BY ONLY <1>20, k \in 1..Len(below)
  <2>2. t[k] = s[k]
    BY <1>2, <1>3, <1>10
  <2>3. s[Len(s)].part < s[k].part /\ s[k].part \in Waiting(m, n)
    BY <1>1, <2>1
  <2> QED
    BY <1>2, <1>5, <1>6, <2>1, <2>2, <2>3
<1>14. \A j \in Children(m, n + 1) : Depth(m, j) = next.depth + 1
  BY <1>7 DEF Children
<1>15. \A k \in DOMAIN t : t[k].part \in Waiting(m, n + 1) /\ t[k].depth = Depth(m, t[k].part)
  BY <1>1, <1>10, <1>11, <1>12, <1>13, <1>14
<1>16. ASSUME NEW j \in Waiting(m, n + 1) PROVE \E k \in DOMAIN t : t[k].part = j
  <2>1. CASE j \in Children(m, n + 1)
    <3>1. PICK k \in (Len(below) + 1)..Len(t) : t[k].part = j
      BY <1>10, <2>1
    <3>2. k \in DOMAIN t
      BY ONLY <1>20, k \in (Len(below) + 1)..Len(t)
    <3> QED
      BY <3>1, <3>2
  <2>2. CASE j \notin Children(m, n + 1)
    <3>1. j \in Waiting(m, n) /\ j # n + 1
      BY <1>11, <2>2
    <3>2. PICK k \in DOMAIN s : s[k].part = j
      BY <1>1, <3>1
    <3>3. k \in 1..Len(below)
      BY <1>2, <1>3, <1>6, <3>1, <3>2
    <3> QED
      BY <1>13, <3>2, <3>3
  <2> QED
    BY <2>1, <2>2
<1>17. ASSUME NEW j \in DOMAIN t, NEW k \in DOMAIN t, j < k
       PROVE  t[k].part < t[j].part
  <2>1. CASE k \in 1..Len(below)
    <3>1. j \in 1..Len(below)
      BY ONLY <1>20, <1>17, <2>1, j \in DOMAIN t
    <3> QED
      BY <1>1, <1>13, <1>17, <2>1, <3>1
  <2>2. CASE k \in (Len(below) + 1)..Len(t) /\ j \in 1..Len(below)
    BY <1>10, <1>11, <1>13, <2>2
  <2>3. CASE k \in (Len(below) + 1)..Len(t) /\ j \in (Len(below) + 1)..Len(t)
    BY <1>10, <1>17, <2>3
  <2> QED
    BY <1>12, <2>1, <2>2, <2>3
<1>18. StackHolds(m, t, n + 1)
  BY <1>10, <1>15, <1>16, <1>17 DEF StackHolds
<1>19. StackHolds(m, Push(below, m, next.part, next.depth + 1), n + 1)
  BY <1>6, <1>18 DEF t
<1> QED
  BY <1>4, <1>8, <1>19 DEF below, next

\* The stages after the walk, and those after the choice of the root.
Walked == {"select", "related_type", "decode", "html"}
Rooted == {"related_type", "decode", "html"}

\* The root is what inspection may take for the page.
Chosen ==
  LET start == NormalizedId(message.top.start) IN
  /\ IsHtmlLeaf(message, root)
  /\ root # 0 => /\ root \in Parts(message) /\ message.top.type = "related"
                 /\ ~IsHtmlLeaf(message, 0)
  /\ root # 0 /\ start = "" => root = 1
  /\ root # 0 /\ start # "" =>
       {i \in Parts(message) : NormalizedId(message.parts[i].id) = start} = {root}

WithinDepth(n) == \A i \in 1..n : Depth(message, i) <= MaxDepth

\* While the tree is walked the stack holds what waits; afterwards all parts
\* have been visited, and once the root is chosen it is one that may be meant.
MimeInv ==
  /\ body_parts \in Seq(Nat) /\ Len(body_parts) <= MaxParts + 1
  /\ \A k \in DOMAIN body_parts : body_parts[k] = k
  /\ mime = "walk" =>
       /\ message \in Messages
       /\ Len(body_parts) <= MaxParts /\ Len(body_parts) <= Len(message.parts)
       /\ WithinDepth(Len(body_parts))
       /\ StackHolds(message, stack, Len(body_parts))
  /\ mime \in Walked =>
       /\ message \in Messages
       /\ Len(body_parts) <= MaxParts /\ Len(body_parts) = Len(message.parts)
       /\ WithinDepth(Len(body_parts)) /\ ~AmbiguousId
  /\ mime = "MIME_NESTING_TOO_DEEP" =>
       \E i \in Parts(message) : Depth(message, i) > MaxDepth
  /\ mime = "TOO_MANY_MIME_PARTS" => Len(message.parts) > MaxParts
  /\ mime \in Rooted => Chosen

LEMMA MimeInitially == MimeIdle => MimeInv
<1> SUFFICES ASSUME MimeIdle PROVE MimeInv
  OBVIOUS
<1>1. mime = "idle" /\ body_parts = <<>>
  BY DEF MimeIdle
<1>2. body_parts \in Seq(Nat) /\ Len(body_parts) = 0 /\ DOMAIN body_parts = {}
  BY <1>1
<1> QED
  BY <1>1, <1>2, BudgetAssumption DEF MimeInv, Walked, Rooted

LEMMA MimeForgotten == ForgetMessage => MimeInv'
<1> SUFFICES ASSUME ForgetMessage PROVE MimeInv'
  OBVIOUS
<1>1. mime' = "idle" /\ body_parts' = <<>>
  BY DEF ForgetMessage
<1>2. body_parts' \in Seq(Nat) /\ Len(body_parts') = 0 /\ DOMAIN body_parts' = {}
  BY <1>1
<1> QED
  BY <1>1, <1>2, BudgetAssumption DEF MimeInv, Walked, Rooted

LEMMA MimeUndisturbed == MimeInv /\ UNCHANGED mimeVars => MimeInv'
  BY DEF MimeInv, mimeVars, WithinDepth, AmbiguousId, PartId, Chosen

LEMMA MimeOpened ==
  ASSUME NEW m \in Messages, OpenMessage(m)
  PROVE  MimeInv'
<1>1. /\ message' = m /\ body_parts' = <<>>
      /\ \/ mime' = "MISSING_HTML_ROOT"
         \/ mime' = "walk" /\ stack' = Push(<<>>, m, 0, 1)
  BY DEF OpenMessage
<1>2. body_parts' \in Seq(Nat) /\ Len(body_parts') = 0 /\ DOMAIN body_parts' = {}
  BY <1>1
<1>3. Len(m.parts) \in Nat
  BY MessageIsTree
<1>4. StackHolds(m, Push(<<>>, m, 0, 1), 0)
  BY StackOpened
<1>5. WithinDepth(0)'
  BY DEF WithinDepth
<1> QED
  BY <1>1, <1>2, <1>3, <1>4, <1>5, BudgetAssumption DEF MimeInv, Walked, Rooted

LEMMA VisitPreserves == MimeInv /\ VisitPart => MimeInv'
<1> SUFFICES ASSUME MimeInv, VisitPart PROVE MimeInv'
  OBVIOUS
<1>1. /\ mime = "walk" /\ stack # <<>> /\ message \in Messages
      /\ body_parts \in Seq(Nat) /\ \A k \in DOMAIN body_parts : body_parts[k] = k
      /\ Len(body_parts) <= MaxParts /\ Len(body_parts) <= Len(message.parts)
      /\ WithinDepth(Len(body_parts)) /\ StackHolds(message, stack, Len(body_parts))
  BY DEF MimeInv, VisitPart
<1> PICK n \in Nat : n = Len(body_parts)
  BY <1>1
<1>2. /\ n < Len(message.parts)
      /\ Last(stack).part = n + 1 /\ Last(stack).depth = Depth(message, n + 1)
      /\ StackHolds(message,
           Push(Front(stack), message, Last(stack).part, Last(stack).depth + 1), n + 1)
  BY <1>1, StackVisited
<1>3. /\ Len(message.parts) \in Nat /\ n + 1 \in Parts(message)
      /\ Depth(message, n + 1) \in Nat
  BY <1>1, <1>2, MessageIsTree
<1>4. CASE Depth(message, n + 1) > MaxDepth
  <2>1. mime' = "MIME_NESTING_TOO_DEEP" /\ UNCHANGED <<message, body_parts>>
    BY <1>2, <1>4 DEF VisitPart, Refuse
  <2>2. \E i \in Parts(message)' : Depth(message, i)' > MaxDepth
    BY <1>3, <1>4, <2>1
  <2> QED
    BY <1>1, <2>1, <2>2, BudgetAssumption DEF MimeInv, Walked, Rooted
<1>5. CASE ~(Depth(message, n + 1) > MaxDepth)
  <2>1. /\ body_parts' = Append(body_parts, n + 1) /\ UNCHANGED message
        /\ stack' = Push(Front(stack), message, Last(stack).part, Last(stack).depth + 1)
        /\ mime' = IF n + 1 > MaxParts THEN "TOO_MANY_MIME_PARTS" ELSE "walk"
    BY <1>2, <1>5 DEF VisitPart
  <2>2. /\ body_parts' \in Seq(Nat) /\ Len(body_parts') = n + 1
        /\ \A k \in DOMAIN body_parts' : body_parts'[k] = k
    BY <1>1, <2>1
  <2>3. StackHolds(message, stack, Len(body_parts))'
    BY <1>2, <2>1, <2>2
  <2>4. WithinDepth(n + 1)'
    BY <1>1, <1>3, <1>5, <2>1, BudgetAssumption DEF WithinDepth
  <2> QED
    BY <1>1, <1>2, <1>3, <2>1, <2>2, <2>3, <2>4, BudgetAssumption
    DEF MimeInv, Walked, Rooted
<1> QED
  BY <1>4, <1>5

LEMMA ValidatePreserves == MimeInv /\ ValidateStructure => MimeInv'
<1> SUFFICES ASSUME MimeInv, ValidateStructure PROVE MimeInv'
  OBVIOUS
<1>1. /\ mime = "walk" /\ stack = <<>> /\ message \in Messages
      /\ body_parts \in Seq(Nat) /\ Len(body_parts) <= Len(message.parts)
      /\ StackHolds(message, stack, Len(body_parts))
      /\ UNCHANGED <<message, stack, body_parts, root, diagnosed>>
      /\ mime' \in {"INVALID_MIME", "AMBIGUOUS_HTML_ROOT", "select"}
      /\ mime' = "select" => ~AmbiguousId
  BY DEF MimeInv, ValidateStructure
<1>2. Len(body_parts) = Len(message.parts)
  <2> SUFFICES ASSUME Len(body_parts) < Len(message.parts) PROVE FALSE
    BY <1>1, MessageIsTree
  <2>1. Len(body_parts) \in Nat
    BY <1>1
  <2>2. Len(body_parts) + 1 \in Waiting(message, Len(body_parts))
    BY <1>1, <2>1, NextWaits
  <2> QED
    BY <1>1, <2>2 DEF StackHolds
<1>3. ~AmbiguousId => ~AmbiguousId'
  BY <1>1 DEF AmbiguousId, PartId
<1> QED
  BY <1>1, <1>2, <1>3 DEF MimeInv, Walked, Rooted, WithinDepth

\* After the walk the parts of the body are those of the message.
LEMMA BodyIsWhole ==
  ASSUME MimeInv, mime \in Walked
  PROVE  /\ message \in Messages /\ Range(body_parts) = Parts(message)
         /\ ~AmbiguousId
<1>1. /\ message \in Messages /\ Len(body_parts) = Len(message.parts) /\ ~AmbiguousId
      /\ body_parts \in Seq(Nat) /\ \A k \in DOMAIN body_parts : body_parts[k] = k
  BY DEF MimeInv
<1>2. Parts(message) = 1..Len(message.parts)
  BY <1>1, MessageIsTree
<1>3. DOMAIN body_parts = 1..Len(message.parts)
  BY <1>1
<1> QED
  BY <1>1, <1>2, <1>3 DEF Range

LEMMA SelectPreserves == MimeInv /\ SelectRoot => MimeInv'
<1> SUFFICES ASSUME MimeInv, SelectRoot PROVE MimeInv'
  OBVIOUS
<1>1. /\ mime = "select" /\ UNCHANGED <<message, stack, body_parts, diagnosed>>
      /\ mime' \in {"related_type", "INVALID_MIME", "MISSING_HTML_ROOT"}
  BY DEF SelectRoot
<1>2. message \in Messages /\ Range(body_parts) = Parts(message) /\ ~AmbiguousId
  BY <1>1, BodyIsWhole DEF Walked
<1>3. /\ Parts(message) = 1..Len(message.parts) /\ Len(message.parts) \in Nat
      /\ Depth(message, 0) = 0
      /\ \A i \in Parts(message) : /\ Depth(message, i) \in Nat \ {0}
                                   /\ Depth(message, i) <= Depth(message, i - 1) + 1
  BY <1>2, MessageIsTree
<1>4. ASSUME mime' = "related_type" PROVE Chosen'
  <2>1. CASE IsHtmlLeaf(message, 0)
    BY <1>1, <2>1 DEF SelectRoot, Chosen
  <2>2. CASE ~IsHtmlLeaf(message, 0)
    <3>1. /\ message.top.type = "related" /\ root' = CHOOSE i \in RootPart(message) : TRUE
          /\ \E i \in RootPart(message) : IsHtmlLeaf(message, i)
      BY <1>1, <1>4, <2>2 DEF SelectRoot
    <3>2. \A i \in RootPart(message) : i \in Parts(message) /\ i # 0
      BY <1>2, <1>3 DEF RootPart, Children
    <3>3. CASE NormalizedId(message.top.start) # ""
      <4>1. RootPart(message) =
              {i \in Parts(message) : PartId(i) = NormalizedId(message.top.start)}
        BY <1>2, <3>3 DEF RootPart
      <4>2. \A i, j \in RootPart(message) : i = j
        BY <1>2, <3>3, <4>1 DEF AmbiguousId
      <4>3. RootPart(message) = {root'} /\ IsHtmlLeaf(message, root')
        BY <3>1, <4>2
      <4>4. \A i \in Parts(message) : PartId(i) = NormalizedId(message.parts[i].id)
        BY <1>3 DEF PartId, Entity
      <4> QED
        BY <1>1, <2>2, <3>1, <3>2, <3>3, <4>1, <4>3, <4>4 DEF Chosen
    <3>4. CASE NormalizedId(message.top.start) = ""
      <4>1. RootPart(message) =
              {i \in Children(message, 0) : \A j \in Children(message, 0) : i <= j}
        BY <3>4 DEF RootPart
      <4>2. 1 \in Children(message, 0)
        <5>1. 1 \in Parts(message) /\ 1 - 1 = 0
          BY <1>3, <3>1, <3>2
        <5> QED
          BY <1>3, <5>1 DEF Children
      <4>3. \A i \in Children(message, 0) : i \in Nat /\ 1 <= i
        BY <1>3 DEF Children
      <4>4. RootPart(message) = {1}
        BY <4>1, <4>2, <4>3
      <4>5. root' = 1 /\ IsHtmlLeaf(message, root')
        BY <3>1, <4>4
      <4> QED
        BY <1>1, <2>2, <3>1, <3>2, <3>4, <4>4, <4>5 DEF Chosen
    <3> QED
      BY <3>3, <3>4
  <2> QED
    BY <2>1, <2>2
<1>5. ~AmbiguousId'
  BY <1>1, <1>2 DEF AmbiguousId, PartId
<1> QED
  BY <1>1, <1>4, <1>5 DEF MimeInv, Walked, Rooted, WithinDepth

LEMMA RootKept ==
  ASSUME MimeInv, mime \in Rooted,
         UNCHANGED <<message, stack, body_parts, root>>,
         mime' \in {"decode", "html", "INVALID_MIME", "UNKNOWN_CHARSET",
                    "HTML_DECODE_FAILED", "HTML_TOO_LARGE"}
  PROVE  MimeInv'
<1>1. ~AmbiguousId => ~AmbiguousId'
  BY DEF AmbiguousId, PartId
<1>2. Chosen => Chosen'
  BY DEF Chosen
<1> QED
  BY <1>1, <1>2 DEF MimeInv, Walked, Rooted, WithinDepth

LEMMA MimeStepPreserves == MimeInv /\ MimeNext => MimeInv'
<1> SUFFICES ASSUME MimeInv, MimeNext PROVE MimeInv'
  OBVIOUS
<1>1. CASE CheckRelatedType
  BY <1>1, RootKept DEF CheckRelatedType, Rooted
<1>2. CASE DecodeRoot
  BY <1>2, RootKept DEF DecodeRoot, Rooted
<1> QED
  BY <1>1, <1>2, VisitPreserves, ValidatePreserves, SelectPreserves DEF MimeNext

LEMMA DocumentsMimeStep == MimeInv /\ [Next]_vars => MimeInv'
<1> SUFFICES ASSUME MimeInv, [Next]_vars PROVE MimeInv'
  OBVIOUS
<1>1. CASE ParseSource
  BY <1>1, MimeOpened DEF ParseSource
<1>2. CASE HtmlReturned \/ Return
  BY <1>2, MimeForgotten DEF HtmlReturned, Return
<1>3. CASE \/ BeginInspection \/ SourceReturned \/ ExtractTables \/ BeginConversion
           \/ TypesReturned \/ NameColumns \/ MapColumns
  BY <1>3, MimeUndisturbed
  DEF BeginInspection, SourceReturned, ExtractTables, BeginConversion, TypesReturned,
      NameColumns, MapColumns, ReadStep, SpanStep, TypeStep, NameStep, CommentStep
<1>4. CASE Step
  BY <1>4, MimeStepPreserves, MimeUndisturbed
  DEF Step, ReadStep, SpanStep, NameStep, CommentStep
<1>5. CASE UNCHANGED vars
  BY <1>5, MimeUndisturbed DEF vars
<1> QED
  BY <1>1, <1>2, <1>3, <1>4, <1>5 DEF Next

LEMMA MimeAlways == Spec => []MimeInv
<1>1. Init => MimeInv
  BY MimeInitially DEF Init
<1> QED
  BY <1>1, DocumentsMimeStep, PTL DEF Spec

\* The walk visits every part of a message once and in document order, and
\* refuses exactly the messages over a budget, however deep they nest.
THEOREM WalksAreComplete == Spec => []WalkComplete
<1>1. MimeInv => WalkComplete
  <2> SUFFICES ASSUME MimeInv PROVE WalkComplete
    OBVIOUS
  <2>1. ASSUME mime \in Walked
        PROVE  /\ Range(body_parts) = Parts(message) /\ Len(body_parts) <= MaxParts
               /\ \A i \in Parts(message) : Depth(message, i) <= MaxDepth
    <3>1. message \in Messages /\ Range(body_parts) = Parts(message)
      BY <2>1, BodyIsWhole
    <3>2. Parts(message) = 1..Len(body_parts)
      BY <2>1, <3>1, MessageIsTree DEF MimeInv
    <3> QED
      BY <2>1, <3>1, <3>2 DEF MimeInv, WithinDepth
  <2> QED
    BY <2>1 DEF MimeInv, WalkComplete, Walked
<1> QED
  BY <1>1, MimeAlways, PTL

\* What inspection takes for the page is the only entity that can be meant,
\* whatever the ids, their spelling and the nesting of the parts.
THEOREM RootsAreNamed == Spec => []RootIsNamed
<1>1. MimeInv => RootIsNamed
  BY DEF MimeInv, RootIsNamed, Chosen, Rooted
<1> QED
  BY <1>1, MimeAlways, PTL

\* Loading reads the page that inspection takes, when it is not blank and the
\* message has no other.
THEOREM LoadsReadRoots == Spec => []LoadReadsRoot
<1>1. MimeInv => LoadReadsRoot
  <2> SUFFICES ASSUME MimeInv, mime = "html", Entity(message, root).size > 0,
                      \A i \in Parts(message) : IsHtmlLeaf(message, i) => i = root
               PROVE  ExtractHtml(message) = {root}
    BY DEF LoadReadsRoot
  <2>1. message \in Messages /\ Chosen
    BY DEF MimeInv, Walked, Rooted
  <2>2. /\ 0 \notin Parts(message) /\ \A i \in Parts(message) \cup {0} : i \in Nat
        /\ \A i \in Parts(message) \cup {0} : Entity(message, i).size \in Nat
    BY <2>1, MessageIsTree, MessagesAssumption
  <2>3. root \in Parts(message) \cup {0} /\ IsHtmlLeaf(message, root)
    BY <2>1 DEF Chosen
  <2>4. \A i \in Parts(message) \cup {0} : IsHtmlLeaf(message, i) => i = root
    BY <2>1, <2>2, <2>3 DEF Chosen
  <2>5. HtmlParts(message) = {root}
    BY <2>2, <2>3, <2>4 DEF HtmlParts, PayloadParts, IsHtmlLeaf, Multipart
  <2>6. {i \in {root} : \A j \in {root} :
           Entity(message, j).size <= Entity(message, i).size} = {root}
    BY <2>2, <2>3
  <2>7. First({root}) = {root}
    BY <2>2, <2>3 DEF First
  <2> QED
    BY <2>5, <2>6, <2>7 DEF ExtractHtml
<1> QED
  BY <1>1, MimeAlways, PTL

-----------------------------------------------------------------------------
(* The tables of a document.                                               *)

LEMMA DocumentsSpanStep == SpanInv /\ [Next]_vars => SpanInv'
<1> SUFFICES ASSUME SpanInv, [Next]_vars PROVE SpanInv'
  OBVIOUS
<1>1. CASE ExtractTables
  BY <1>1, TablesOpened DEF ExtractTables
<1>2. CASE Return
  BY <1>2, SpansForgotten DEF Return
<1>3. CASE \/ BeginInspection \/ SourceReturned \/ ParseSource \/ HtmlReturned
           \/ BeginConversion \/ TypesReturned \/ NameColumns \/ MapColumns
  BY <1>3, SpansUndisturbed
  DEF BeginInspection, SourceReturned, ParseSource, HtmlReturned, BeginConversion,
      TypesReturned, NameColumns, MapColumns, ReadStep, MimeStep, TypeStep, NameStep,
      CommentStep
<1>4. CASE Step
  BY <1>4, SpansStep, SpansUndisturbed
  DEF Step, ReadStep, MimeStep, NameStep, CommentStep
<1>5. CASE UNCHANGED vars
  BY <1>5, SpansUndisturbed DEF vars
<1> QED
  BY <1>1, <1>2, <1>3, <1>4, <1>5 DEF Next

LEMMA SpansAlways == Spec => []SpanInv
<1>1. Init => SpanInv
  BY SpansInitially DEF Init
<1> QED
  BY <1>1, DocumentsSpanStep, PTL DEF Spec

\* Inspection refuses a table exactly when its cells overlap or it exceeds a
\* budget, and computes its size without building it, for every table.
THEOREM ProjectionsAreExact == Spec => []ProjectionExact
<1>1. SpanInv => ProjectionExact
  BY SpansExact
<1> QED
  BY <1>1, SpansAlways, PTL

\* Every cell of an extracted table shows where its spans put it and nothing
\* shows anywhere else, for every table, however its cells reach into the rows
\* below it and below the last.
THEOREM GridsAreExact == Spec => []GridExact
<1>1. SpanInv => GridExact
  BY SpansExact
<1> QED
  BY <1>1, SpansAlways, PTL
=============================================================================
