---------------------------- MODULE MCDocuments ----------------------------
(* Instances of Documents for TLC. *)
EXTENDS Documents

\* Messages: related and mixed containers with up to two parts of any kind,
\* up to four parts nested to any depth with fewer kinds, and single
\* entities.  The first part is a child of the message, a part is nested at
\* most one level below the part before it.
Part(d, t, id, n) == [depth |-> d, type |-> t, id |-> id, size |-> n]
PartKinds == {<<"html", 0>>, <<"html", 1>>, <<"html", 2>>, <<"htmlish", 2>>,
              <<"other", 1>>, <<"mixed", 1>>}
Ids == {"", "<>", "a", "<a>", "b"}

Nested(parts) ==
  \A i \in DOMAIN parts :
    /\ parts[i].depth = 1 \/ (i > 1 /\ parts[i].depth <= parts[i - 1].depth + 1)
    /\ i > 1 /\ parts[i].depth = parts[i - 1].depth + 1 => parts[i - 1].type = "mixed"

SmallBodies ==
  {b \in BoundedSeq({Part(d, k[1], id, k[2]) : d \in 1..2, k \in PartKinds, id \in Ids}, 2) :
     Nested(b)}
DeepBodies ==
  {b \in UNION {[1..n -> {Part(d, t, id, 1) : d \in 1..4, t \in {"html", "mixed"},
                                               id \in {"", "a"}}] : n \in 3..4} :
     Nested(b) /\ \A i \in DOMAIN b : b[i].type = "mixed" => b[i].id = ""}

Top(t, start, n) == [type |-> t, id |-> "", start |-> start, size |-> n]
MCMessages ==
  {[top |-> Top("related", start, 1), parts |-> b] :
     start \in {"", "<>", "<a>"}, b \in SmallBodies \cup DeepBodies}
  \cup {[top |-> Top("mixed", "", 1), parts |-> b] : b \in {b \in SmallBodies : Len(b) = 1}}
  \cup {[top |-> Top(t, "", n), parts |-> <<>>] :
          t \in {"html", "htmlish", "other", "related", "mixed"}, n \in 0..1}

-----------------------------------------------------------------------------
\* Raw tables: up to three rows of up to two cells, two rows with a cell
\* over three rows, and documents of two tables that share the budget.
Span(r, c) == [rowspan |-> r, colspan |-> c]
Wide == {Span(1, 1), Span(2, 1), Span(1, 2), Span(2, 2)}
MCRawDocuments ==
  {<<t>> : t \in BoundedSeq(BoundedSeq(Wide, 2), 3)
                 \cup BoundedSeq(BoundedSeq(Wide \cup {Span(3, 1)}, 2), 2)}
  \cup {<<t, u>> : t, u \in BoundedSeq(BoundedSeq({Span(1, 1), Span(2, 2)}, 2), 2)}
  \cup {<<>>}

-----------------------------------------------------------------------------
\* Headers: words whose tokens collide once they are suffixed or cut, words
\* the two policies read differently, and qualified fields.
W(w) == [fold |-> Word(w), load |-> <<Word(w)>>, propose |-> <<Word(w)>>]
Two == [fold |-> Number(2), load |-> <<Number(2)>>, propose |-> <<Number(2)>>]
Acronym == [fold |-> Word("abcd"), load |-> <<Word("abcd")>>,
            propose |-> <<Word("ab"), Word("cd")>>]
Hangul == [fold |-> Letters("hangul"), load |-> <<>>, propose |-> <<Letters("hangul")>>]
Sign == [fold |-> Word("sign"), load |-> <<>>, propose |-> <<>>]

MCAliases == [h \in {<<W("mandt")>>} |-> <<Word("client"), Word("code")>>]
MCReserved == {<<Word("user")>>, <<Word("current"), Word("date")>>}

Texts(words, n) == BoundedSeq(words, n) \ {<<>>}
Special == {<<W("mandt")>>, <<W("user")>>, <<W("current"), W("date")>>,
            <<W("loaded"), W("at")>>, <<Sign>>, <<W("x")>>, <<W("client"), W("code")>>}
Fields == {<<W("x")>>, <<W("t"), Dot, W("x")>>, <<W("s"), Dot, W("x")>>,
           <<W("x"), W("field")>>, <<W("t"), W("x")>>}
MCHeaderLists ==
  [1..3 -> Texts({W("x"), W("field"), Two}, 2)]
  \cup [1..2 -> Texts({W("x"), W("field"), Two}, 3)]
  \cup [1..2 -> Texts({W("x"), W("y"), Acronym, Hangul, Sign, Two}, 2)]
  \cup [1..2 -> Special] \cup [1..1 -> Texts({W("x"), W("y")}, 4)]
  \cup [1..2 -> Fields]

-----------------------------------------------------------------------------
\* Columns of up to three kinds of strings.
MCColumnValues == {{}} \cup {{k, l, m} : k, l, m \in Kinds}

-----------------------------------------------------------------------------
\* Mapping references: two records of fields and targets, or three qualified
\* fields of two slides.
Mapping(field, target, comment) ==
  [source |-> field, target |-> target, comment |-> comment]
Slide(field, n) == Mapping(field, <<>>, <<field, n>>)
Qualified == {<<W(t), Dot, W("x")>> : t \in {"s", "t"}} \cup {<<W("t"), Dot, W("z")>>}
MCMappingDocuments(list) ==
  IF ~(Range(list) \subseteq Fields) THEN {} ELSE
  {[format |-> "csv", mappings |-> ms] :
     ms \in BoundedSeq({Mapping(s, t, c) : s \in Fields \cup {<<W("z")>>},
                          t \in {<<>>, <<W("x")>>, <<W("x"), W("field")>>},
                          c \in {"A", "B"}}, 2) \ {<<>>}}
  \cup {[format |-> "pptx", mappings |-> ms] :
          ms \in BoundedSeq({Slide(s, n) : s \in Qualified, n \in 1..2}, 3) \ {<<>>}}
=============================================================================
