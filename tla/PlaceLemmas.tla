---------------------------- MODULE PlaceLemmas -----------------------------
(***************************************************************************)
(* Facts about numbers, ranks and sequences that the proofs about several  *)
(* components need.                                                        *)
(***************************************************************************)
EXTENDS Places, SequencesExt, SequenceTheorems, FiniteSetTheorems, TLAPS

\* The places of the first of those alike are counted without a gap.
LEMMA RankIsBijection ==
  ASSUME NEW n \in Nat, NEW places \in SUBSET (1..n)
  PROVE  /\ Cardinality(places) \in Nat
         /\ \A k \in 1..Cardinality(places) : \E i \in places : Rank(i, places) = k
         /\ \A i, j \in places : Rank(i, places) = Rank(j, places) => i = j
<1> DEFINE upto(i) == {j \in places : j <= i}
           f == [i \in places |-> Rank(i, places)]
           many == Cardinality(places)
<1>1. IsFiniteSet(places) /\ many \in Nat /\ \A i \in places : i \in Nat
  <2>1. IsFiniteSet(1..n)
    BY FS_Interval
  <2>2. IsFiniteSet(places)
    BY <2>1, FS_Subset
  <2> QED
    BY <2>2, FS_CardinalityType
<1>2. ASSUME NEW i \in places
      PROVE  /\ IsFiniteSet(upto(i)) /\ upto(i) \in SUBSET places
             /\ Rank(i, places) = Cardinality(upto(i)) /\ Rank(i, places) \in 1..many
  <2>1. IsFiniteSet(upto(i)) /\ Cardinality(upto(i)) <= many
    BY <1>1, FS_Subset
  <2>2. Cardinality(upto(i)) \in Nat /\ Cardinality(upto(i)) # 0
    BY <2>1, FS_CardinalityType, FS_EmptySet
  <2> QED
    BY <1>1, <2>1, <2>2 DEF Rank
<1>3. ASSUME NEW i \in places, NEW j \in places, i < j
      PROVE  Rank(i, places) # Rank(j, places)
  <2>1. j \in upto(j) /\ j \notin upto(i)
    BY <1>1, <1>3
  <2>2. \A x \in places : x <= i => x <= j
    BY <1>1, <1>3
  <2>3. upto(i) \in SUBSET upto(j)
    BY <2>2
  <2>4. Cardinality(upto(j)) # Cardinality(upto(i))
    BY <1>2, <2>1, <2>3, FS_Subset
  <2> QED
    BY <1>2, <2>4
<1>4. \A i, j \in places : Rank(i, places) = Rank(j, places) => i = j
  BY <1>3
<1>5. f \in [places -> 1..many]
  BY <1>2
<1>6. f \in Injection(places, 1..many)
  BY <1>4, <1>5 DEF Injection, IsInjective
<1>7. IsFiniteSet(1..many) /\ Cardinality(1..many) = many
  BY <1>1, FS_Interval
<1>8. f \in Surjection(places, 1..many)
  BY <1>6, <1>7, FS_Injection
<1>9. \A k \in 1..many : \E i \in places : Rank(i, places) = k
  BY <1>8 DEF Surjection
<1> QED
  BY <1>1, <1>4, <1>9

LEMMA LastOfSome ==
  ASSUME NEW n \in Nat, NEW places \in SUBSET (1..n), places # {}
  PROVE  \E i \in places : \A j \in places : j <= i
<1> DEFINE upto(i) == {j \in places : j <= i}
<1>1. IsFiniteSet(places)
  <2>1. IsFiniteSet(1..n)
    BY FS_Interval
  <2> QED
    BY <2>1, FS_Subset
<1>2. Cardinality(places) \in Nat /\ Cardinality(places) # 0
  BY <1>1, FS_CardinalityType, FS_EmptySet
<1>3. PICK i \in places : Rank(i, places) = Cardinality(places)
  <2>1. \A k \in 1..Cardinality(places) : \E i \in places : Rank(i, places) = k
    BY RankIsBijection
  <2> QED
    BY <1>2, <2>1
<1>4. upto(i) \in SUBSET places /\ Cardinality(upto(i)) = Cardinality(places)
  BY <1>3 DEF Rank
<1>5. upto(i) = places
  BY <1>1, <1>4, FS_Subset
<1> QED
  BY <1>5


\* Every natural number is in a set that holds 0 and, with a number, the next.
LEMMA Induction ==
  ASSUME NEW S, 0 \in S, \A k \in Nat : k \in S => k + 1 \in S
  PROVE  Nat \subseteq S
<1> SUFFICES ASSUME NEW n \in Nat, n \notin S PROVE FALSE
  OBVIOUS
<1> DEFINE reached == {k \in 1..n : k - 1 \in S}
<1>1. n > 0 /\ 1 \in reached
  OBVIOUS
<1>2. PICK k \in reached : \A j \in reached : j <= k
  BY <1>1, LastOfSome
<1>3. k \in S
  <2>1. k - 1 \in Nat /\ k - 1 \in S /\ (k - 1) + 1 = k
    BY <1>2
  <2> QED
    BY <2>1
<1>4. k < n
  BY <1>2, <1>3
<1>5. k + 1 \in reached
  BY <1>2, <1>3, <1>4
<1> QED
  BY <1>2, <1>5

\* The n-th of some places.
LEMMA NthOfSome ==
  ASSUME NEW n \in Nat, NEW places \in SUBSET (1..n)
  PROVE  /\ Cardinality(places) \in Nat
         /\ \A k \in 1..Cardinality(places) :
              Nth(k, places) \in places /\ Rank(Nth(k, places), places) = k
         /\ \A i \in places : /\ Rank(i, places) \in 1..Cardinality(places)
                              /\ Nth(Rank(i, places), places) = i
         /\ \A i, j \in places : i < j => Rank(i, places) < Rank(j, places)
<1> DEFINE upto(i) == {j \in places : j <= i}
<1>1. /\ Cardinality(places) \in Nat
      /\ \A k \in 1..Cardinality(places) : \E i \in places : Rank(i, places) = k
      /\ \A i, j \in places : Rank(i, places) = Rank(j, places) => i = j
  BY RankIsBijection
<1>2. \A k \in 1..Cardinality(places) :
        Nth(k, places) \in places /\ Rank(Nth(k, places), places) = k
  BY <1>1 DEF Nth
<1>3. IsFiniteSet(places)
  <2>1. IsFiniteSet(1..n)
    BY FS_Interval
  <2> QED
    BY <2>1, FS_Subset
<1>4. ASSUME NEW i \in places
      PROVE  /\ IsFiniteSet(upto(i)) /\ Cardinality(upto(i)) = Rank(i, places)
             /\ Rank(i, places) \in 1..Cardinality(places)
  <2>1. upto(i) \in SUBSET places /\ i \in upto(i)
    OBVIOUS
  <2>2. IsFiniteSet(upto(i)) /\ Cardinality(upto(i)) <= Cardinality(places)
    BY <1>3, <2>1, FS_Subset
  <2>3. Cardinality(upto(i)) \in Nat /\ Cardinality(upto(i)) # 0
    BY <2>1, <2>2, FS_CardinalityType, FS_EmptySet
  <2> QED
    BY <1>1, <2>2, <2>3 DEF Rank
<1>5. ASSUME NEW i \in places, NEW j \in places, i < j
      PROVE  Rank(i, places) < Rank(j, places)
  <2>1. \A x \in places : x <= i => x <= j
    BY <1>5
  <2>2. upto(i) \in SUBSET upto(j)
    BY <2>1
  <2>3. Cardinality(upto(i)) <= Cardinality(upto(j))
    BY <1>4, <2>2, FS_Subset
  <2>4. Rank(i, places) # Rank(j, places)
    BY <1>1, <1>5
  <2> QED
    BY <1>4, <2>3, <2>4
<1>6. \A i \in places : Nth(Rank(i, places), places) = i
  BY <1>1, <1>2, <1>4
<1> QED
  BY <1>1, <1>2, <1>4, <1>5, <1>6
\* The front of a sequence and its last element.
LEMMA FrontOfSome ==
  ASSUME NEW S, NEW s \in Seq(S), s # <<>>
  PROVE  /\ Front(s) \in Seq(S) /\ Len(Front(s)) = Len(s) - 1
         /\ \A i \in 1..(Len(s) - 1) : Front(s)[i] = s[i]
         /\ Last(s) \in S /\ s = Append(Front(s), Last(s))
<1>1. Len(s) \in Nat /\ Len(s) > 0
  OBVIOUS
<1>2. /\ Front(s) \in Seq(S) /\ Len(Front(s)) = Len(s) - 1
      /\ \A i \in 1..(Len(s) - 1) : Front(s)[i] = s[i]
  <2> DEFINE m == Len(s) - 1
  <2>1. /\ m \in 0..Len(s) /\ 1 \in 1..(Len(s) + 1)
        /\ \A i \in 1..m : s[i] \in S /\ s[1 + i - 1] = s[i]
        /\ m - 1 + 1 = m
    BY <1>1
  <2>2. Front(s) = SubSeq(s, 1, m)
    BY DEF Front
  <2> HIDE DEF m
  <2>3. SubSeq(s, 1, m) = [i \in 1..m |-> s[i]]
    BY <2>1, SubSeqRestrict
  <2>4. m \in Nat /\ [i \in 1..m |-> s[i]] \in Seq(S)
    BY <1>1, <2>1
  <2>5. Len([i \in 1..m |-> s[i]]) = m
    BY <2>4
  <2> QED
    BY <2>2, <2>3, <2>4, <2>5 DEF m
<1>3. Last(s) \in S
  BY <1>1 DEF Last
<1>4. Append(Front(s), Last(s)) \in Seq(S)
  BY <1>2, <1>3
<1>5. Len(Append(Front(s), Last(s))) = Len(s)
  BY <1>1, <1>2
<1>6. \A i \in 1..Len(s) : Append(Front(s), Last(s))[i] = s[i]
  BY <1>1, <1>2 DEF Last
<1> QED
  BY <1>2, <1>3, <1>4, <1>5, <1>6

-----------------------------------------------------------------------------
(* FlattenSeq, one sequence after another.                                 *)

\* f is what the recursion of FlattenSeq makes of the first n sequences.
Flattens(ss, n, f) ==
  f = [i \in 1..n |-> IF i = 1 THEN ss[i] ELSE f[i - 1] \o ss[i]]

LEMMA FlattensExists ==
  ASSUME NEW ss PROVE \A n \in Nat : \E f : Flattens(ss, n, f)
<1> DEFINE P == {n \in Nat : \E f : Flattens(ss, n, f)}
<1>1. 0 \in P
  <2> DEFINE f == [i \in 1..0 |-> ss[i]]
  <2>1. Flattens(ss, 0, f)
    BY DEF Flattens
  <2> QED
    BY <2>1
<1>2. ASSUME NEW n \in Nat, n \in P PROVE n + 1 \in P
  <2>1. PICK f : Flattens(ss, n, f)
    BY <1>2
  <2> DEFINE g == [i \in 1..(n + 1) |-> IF i = 1 THEN ss[i] ELSE f[i - 1] \o ss[i]]
  <2>2. \A i \in 1..n : f[i] = IF i = 1 THEN ss[i] ELSE f[i - 1] \o ss[i]
    BY <2>1 DEF Flattens
  <2>3. \A i \in 1..n : g[i] = f[i]
    BY <2>2
  <2>4. \A i \in 1..(n + 1) : i # 1 => i - 1 \in 1..n
    OBVIOUS
  <2>5. g = [i \in 1..(n + 1) |-> IF i = 1 THEN ss[i] ELSE g[i - 1] \o ss[i]]
    BY <2>3, <2>4
  <2> HIDE DEF g
  <2>6. Flattens(ss, n + 1, g)
    BY <2>5 DEF Flattens
  <2> QED
    BY <2>6
<1> HIDE DEF P
<1>3. Nat \subseteq P
  BY <1>1, <1>2, Induction
<1> QED
  BY <1>3 DEF P

\* The sequences are appended one by one.
LEMMA FlattenSteps ==
  ASSUME NEW S, NEW ss \in Seq(Seq(S))
  PROVE  \E f \in [0..Len(ss) -> Seq(S)] :
           /\ f[0] = <<>> /\ FlattenSeq(ss) = f[Len(ss)]
           /\ \A i \in 1..Len(ss) : f[i] = f[i - 1] \o ss[i]
<1> DEFINE n == Len(ss)
           g == CHOOSE g : Flattens(ss, n, g)
           f == [i \in 0..n |-> IF i = 0 THEN <<>> ELSE g[i]]
<1>1. n \in Nat /\ \A i \in 1..n : ss[i] \in Seq(S)
  OBVIOUS
<1> HIDE DEF n
<1>2. Flattens(ss, n, g)
  BY <1>1, FlattensExists
<1>3. FlattenSeq(ss) = IF n = 0 THEN ss ELSE g[n]
  BY DEF FlattenSeq, Flattens, n
<1> HIDE DEF g
<1>4. \A i \in 1..n : g[i] = IF i = 1 THEN ss[i] ELSE g[i - 1] \o ss[i]
  BY <1>2 DEF Flattens
<1>8. f[0] = <<>> /\ \A i \in 1..n : f[i] = g[i]
  BY <1>1
<1>6. f[0] = <<>> /\ FlattenSeq(ss) = f[n]
  BY <1>1, <1>3, <1>8 DEF n
<1>9. f = [i \in 0..n |-> f[i]]
  OBVIOUS
<1> HIDE DEF f
<1>5. \A i \in 1..n : f[i] = f[i - 1] \o ss[i]
  <2> TAKE i \in 1..n
  <2>1. CASE i = 1
    <3>1. f[i - 1] = <<>> /\ f[i] = ss[i] /\ ss[i] \in Seq(S)
      BY <1>1, <1>4, <1>8, <2>1
    <3> QED
      BY <3>1, ConcatEmptySeq
  <2>2. CASE i # 1
    <3>1. i - 1 \in 1..n
      BY <1>1, <2>2
    <3> QED
      BY <1>4, <1>8, <2>2, <3>1
  <2> QED
    BY <2>1, <2>2
<1>7. f \in [0..n -> Seq(S)]
  <2> DEFINE P == {i \in Nat : i <= n => f[i] \in Seq(S)}
  <2>1. 0 \in P
    BY <1>1, <1>8, EmptySeq
  <2>2. ASSUME NEW i \in Nat, i \in P PROVE i + 1 \in P
    <3> SUFFICES ASSUME i + 1 <= n PROVE f[i + 1] \in Seq(S)
      OBVIOUS
    <3>1. f[i] \in Seq(S) /\ ss[i + 1] \in Seq(S) /\ i + 1 \in 1..n /\ (i + 1) - 1 = i
      BY <1>1, <2>2
    <3>2. f[i + 1] = f[i] \o ss[i + 1]
      BY <1>5, <3>1
    <3> QED
      BY ONLY <3>1, <3>2, ConcatProperties
  <2> HIDE DEF P
  <2>3. Nat \subseteq P
    BY <2>1, <2>2, Induction
  <2>4. \A i \in 0..n : i \in P
    BY <1>1, <2>3
  <2>5. \A i \in 0..n : f[i] \in Seq(S)
    BY <1>1, <2>4 DEF P
  <2> QED
    BY <1>9, <2>5
<1> QED
  BY <1>5, <1>6, <1>7 DEF n

LEMMA FlattenType ==
  ASSUME NEW S, NEW ss \in Seq(Seq(S))
  PROVE  FlattenSeq(ss) \in Seq(S)
<1>1. PICK f \in [0..Len(ss) -> Seq(S)] : FlattenSeq(ss) = f[Len(ss)]
  BY FlattenSteps
<1> QED
  BY <1>1

LEMMA FlattenAppend ==
  ASSUME NEW S, NEW ss \in Seq(Seq(S)), NEW s \in Seq(S)
  PROVE  FlattenSeq(Append(ss, s)) = FlattenSeq(ss) \o s
<1> DEFINE tt == Append(ss, s)
           n == Len(ss)
<1>1. /\ n \in Nat /\ tt \in Seq(Seq(S)) /\ Len(tt) = n + 1 /\ tt[n + 1] = s
      /\ \A i \in 1..n : tt[i] = ss[i]
  OBVIOUS
<1>2. PICK f : /\ f[0] = <<>> /\ FlattenSeq(ss) = f[n]
               /\ \A i \in 1..n : f[i] = f[i - 1] \o ss[i]
  BY FlattenSteps
<1> HIDE DEF tt, n
<1>3. PICK g \in [0..Len(tt) -> Seq(S)] :
               /\ g[0] = <<>> /\ FlattenSeq(tt) = g[Len(tt)]
               /\ \A i \in 1..Len(tt) : g[i] = g[i - 1] \o tt[i]
  BY ONLY <1>1, FlattenSteps
<1> DEFINE P == {i \in Nat : i <= n => f[i] = g[i]}
<1>4. 0 \in P
  BY <1>2, <1>3
<1>5. ASSUME NEW i \in Nat, i \in P PROVE i + 1 \in P
  <2> SUFFICES ASSUME i + 1 <= n PROVE f[i + 1] = g[i + 1]
    OBVIOUS
  <2>1. f[i] = g[i] /\ i + 1 \in 1..n /\ i + 1 \in 1..(n + 1) /\ (i + 1) - 1 = i
    BY <1>1, <1>5
  <2> QED
    BY <1>1, <1>2, <1>3, <2>1
<1> HIDE DEF P
<1>6. n \in P
  BY <1>1, <1>4, <1>5, Induction
<1>7. f[n] = g[n]
  BY <1>1, <1>6 DEF P
<1>8. n + 1 \in 1..(n + 1) /\ (n + 1) - 1 = n
  BY <1>1
<1> QED
  BY <1>1, <1>2, <1>3, <1>7, <1>8 DEF tt

LEMMA FlattenEmpty == FlattenSeq(<<>>) = <<>>
  BY DEF FlattenSeq
=============================================================================
