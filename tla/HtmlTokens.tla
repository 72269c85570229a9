----------------------------- MODULE HtmlTokens -----------------------------
(***************************************************************************)
(* What Python's HTMLParser hands to its handlers: start, end and          *)
(* self-closing tags and character data.  Both table parsers of the        *)
(* gateway are subclasses.  td stands for td and th.  Data is text that is *)
(* not blank; white space, br and block tags, which only shape it, are     *)
(* left out, as is rowspan.                                                *)
(* script and style hold nothing but text.  Texts are numbered.            *)
(***************************************************************************)
EXTENDS Integers, SequencesExt

CONSTANTS
  Containers,  \* tags whose content is not shown: script, template, object...
  CellTags     \* attributes [colspan, x_str] that td tags of a document have

NotANumber == -1  \* a colspan that is not an integer

ASSUME TokensAssumption ==
  /\ Containers \cap {"table", "tr", "td"} = {}
  /\ CellTags \subseteq [colspan : Nat \cup {NotANumber}, x_str : BOOLEAN]

Plain(kind, tag) == [kind |-> kind, tag |-> tag, colspan |-> 1, x_str |-> FALSE]
Start(tag) == Plain("start", tag)
Empty(tag) == Plain("empty", tag)
End(tag) == [kind |-> "end", tag |-> tag]
TdTag(kind, a) ==
  [kind |-> kind, tag |-> "td", colspan |-> a.colspan, x_str |-> a.x_str]
Cell(a) == TdTag("start", a)
EmptyCellTag(a) == TdTag("empty", a)
Data == [kind |-> "data"]

Tags == {"table", "tr", "td"} \cup Containers
Tokens ==
  {Start(t) : t \in Tags \ {"td"}} \cup {Empty(t) : t \in Tags \ {"td"}}
    \cup {Cell(a) : a \in CellTags} \cup {EmptyCellTag(a) : a \in CellTags}
    \cup {End(t) : t \in Tags} \cup {Data}

AppendToLast(rows, x) == [rows EXCEPT ![Len(rows)] = Append(@, x)]
=============================================================================
