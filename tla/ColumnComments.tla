--------------------------- MODULE ColumnComments ---------------------------
(***************************************************************************)
(* attach_column_comments: the mappings of a reference document are        *)
(* resolved one by one against the columns of a load and become their      *)
(* comments.                                                               *)
(*                                                                         *)
(* Data: headers and names are those of ColumnNames.  A mapping is its     *)
(* source, written like a header (with Dot between table and field), the   *)
(* name of its target or none, and a comment.  Case is left out: all       *)
(* comparisons fold it, except for how to_snake_case separates words.      *)
(***************************************************************************)
EXTENDS ColumnNames, Places

CONSTANTS
  MappingDocuments(_)   \* for a table's headers, the [format, mappings] that
                        \* load_column_mapping reads

VARIABLES
  mapping,     \* "idle", "attach", "commented", or the error
  document,    \* the mapping document
  resolved,    \* number of mappings resolved
  comments,    \* comments[k]: the comments joined for column k
  unmatched    \* sources without a column

commentVars == <<mapping, document, resolved, comments, unmatched>>

NoDocument == [format |-> "none", mappings |-> <<>>]

CommentsIdle ==
  /\ mapping = "idle" /\ document = NoDocument /\ resolved = 0
  /\ comments = <<>> /\ unmatched = {}

ForgetComments ==
  /\ mapping' = "idle" /\ document' = NoDocument /\ resolved' = 0
  /\ comments' = <<>> /\ unmatched' = {}

\* The separator of a qualified name has no token of its own.
Dot == [fold |-> Word("."), load |-> <<>>, propose |-> <<>>]

\* name.rsplit(".", 1)[-1]
Suffix(h) ==
  LET dots == {i \in DOMAIN h : h[i] = Dot} IN
  SubSeq(h, 1 + (IF dots = {} THEN 0 ELSE CHOOSE i \in dots : \A j \in dots : j <= i), Len(h))

\* casefold, and to_snake_case of what it returns: no word is taken apart.
Folded(h) == [i \in DOMAIN h |-> h[i].fold]
FoldedTokens(h) ==
  FlattenSeq([i \in DOMAIN h |-> IF h[i].load = <<>> THEN <<>> ELSE <<h[i].fold>>])

\* Only the separator reads like it, and the comments of slides name their
\* slide and source: no two mappings of a deck have one comment (_load_pptx).
IsText(h) == IsSequence(h) /\ \A i \in DOMAIN h : h[i].fold = Dot.fold => h[i] = Dot

ASSUME MappingsAssumption ==
  \A list \in HeaderLists :
    /\ \A i \in DOMAIN list : IsText(list[i])
    /\ \A doc \in MappingDocuments(list) :
         LET ms == doc.mappings IN
         /\ DOMAIN doc = {"format", "mappings"} /\ IsSequence(ms)
         /\ \A i \in DOMAIN ms : IsText(ms[i].source)
         /\ doc.format = "pptx" =>
              \A i, j \in DOMAIN ms : ms[i].comment = ms[j].comment => ms[i] = ms[j]

-----------------------------------------------------------------------------
\* _dedupe_mappings: the first of those alike, in order.
Firsts(mappings) == {i \in DOMAIN mappings : \A j \in 1..(i - 1) : mappings[j] # mappings[i]}

Deduped(mappings) ==
  LET firsts == Firsts(mappings) IN
  [n \in 1..Cardinality(firsts) |-> mappings[Nth(n, firsts)]]

\* Mutant: a source is looked for by the name made of it only.
NamedCandidates(source) ==
  {k \in DOMAIN headers :
     /\ FoldedTokens(Suffix(source)) # <<>>
     /\ SnakeName(FoldedTokens(Suffix(source))) = named.present[k]}

\* _source_candidates.  A header written like the source has its suffix, and
\* a source that is a column's name is found by its tokens: the code's tests
\* for them add nothing.
SourceCandidates(source) ==
  {k \in DOMAIN headers :
     \/ Folded(Suffix(headers[k])) = Folded(Suffix(source))
     \/ /\ FoldedTokens(Suffix(source)) # <<>>
        /\ SnakeName(FoldedTokens(Suffix(source))) = named.present[k]}

\* _target_candidates; the words of a target are joined by underscores.
TargetCandidates(target) ==
  LET exact == {k \in DOMAIN headers : named.present[k] = Folded(target)} IN
  IF exact # {} THEN exact
  ELSE {k \in DOMAIN headers :
          /\ LoadTokens(target) # <<>>
          /\ named.present[k] = SnakeName(LoadTokens(target))}

Candidates(m) ==
  IF m.target # <<>> THEN TargetCandidates(m.target) ELSE SourceCandidates(m.source)

OpenMappings(doc) ==
  /\ document' = [doc EXCEPT !.mappings = Deduped(@)]
  /\ mapping' = "attach" /\ resolved' = 0 /\ unmatched' = {}
  /\ comments' = [k \in DOMAIN headers |-> <<>>]

\* Mutant: a later comment takes the place of an earlier one.
CommentReplaced(k, comment) ==
  /\ comments' = [comments EXCEPT ![k] = <<comment>>]
  /\ resolved' = resolved + 1
  /\ UNCHANGED <<mapping, unmatched>>

\* Column k gets a comment: its first, the same again, or, from slides, one
\* more.
Comment(k, comment) ==
  IF comments[k] \notin {<<>>, <<comment>>} /\ document.format # "pptx"
    THEN mapping' = "conflicting" /\ UNCHANGED <<resolved, comments, unmatched>>
    ELSE /\ comments' = [comments EXCEPT ![k] =
                           IF @ = <<comment>> THEN @ ELSE Append(@, comment)]
         /\ resolved' = resolved + 1
         /\ UNCHANGED <<mapping, unmatched>>

\* One turn of the loop of attach_column_comments.
ResolveMapping ==
  LET m == document.mappings[resolved + 1] IN
  /\ mapping = "attach" /\ resolved < Len(document.mappings)
  /\ \/ /\ Candidates(m) = {}
        /\ unmatched' = unmatched \cup {m.source} /\ resolved' = resolved + 1
        /\ UNCHANGED <<mapping, comments>>
     \/ /\ Cardinality(Candidates(m)) > 1
        /\ mapping' = "ambiguous" /\ UNCHANGED <<resolved, comments, unmatched>>
     \/ \E k \in Candidates(m) : Candidates(m) = {k} /\ Comment(k, m.comment)
  /\ UNCHANGED document

\* with_column_comments and the report.
FinishMappings ==
  /\ mapping = "attach" /\ resolved = Len(document.mappings)
  /\ mapping' = "commented"
  /\ UNCHANGED <<document, resolved, comments, unmatched>>

CommentsNext == ResolveMapping \/ FinishMappings

-----------------------------------------------------------------------------
Mappings == Range(document.mappings)
Meant(k) == {m.comment : m \in {m \in Mappings : Candidates(m) = {k}}}

\* Of two comments the one whose mapping is read first comes first.
InOrder(list) ==
  \A p, q \in DOMAIN list, i, j \in DOMAIN document.mappings :
    /\ p < q
    /\ document.mappings[i].comment = list[p] /\ document.mappings[j].comment = list[q]
    => i < j

\* Each column has every comment meant for it once, in the order of the
\* document; whatever that order, the reference is refused exactly when a
\* mapping fits several columns or, except in slides, a column has several
\* comments, and no mapping is dropped (attach_column_comments).
CommentsExact ==
  /\ mapping = "commented" =>
       /\ \A k \in DOMAIN comments :
            /\ IsInjective(comments[k]) /\ Range(comments[k]) = Meant(k)
            /\ InOrder(comments[k])
       /\ \A m \in Mappings :
            \/ Candidates(m) = {} /\ m.source \in unmatched
            \/ Cardinality(Candidates(m)) = 1
       /\ document.format # "pptx" =>
            \A k \in DOMAIN comments : Cardinality(Meant(k)) <= 1
  /\ mapping = "ambiguous" => \E m \in Mappings : Cardinality(Candidates(m)) > 1
  /\ mapping = "conflicting" =>
       \E k \in DOMAIN comments : Cardinality(Meant(k)) > 1

\* A mapping that spells a column's header describes this column or nothing:
\* two headers alike, or one whose name the other would have got, make it
\* ambiguous and never turn it to the other column (_source_candidates).
HeaderFindsColumn ==
  mapping = "commented" =>
    \A m \in Mappings, k \in DOMAIN headers :
      m.target = <<>> /\ Folded(m.source) = Folded(headers[k]) =>
        m.comment \in Range(comments[k])
=============================================================================
