------------------------------ MODULE MimeRoot ------------------------------
(***************************************************************************)
(* From the parsed message of a saved page to its HTML, both ways the      *)
(* gateway does it: parse_mhtml_bytes for inspection, which walks the body *)
(* under budgets, checks the headers it relies on and takes the RFC 2387   *)
(* root; extract_html_bytes for loading, which takes the largest HTML      *)
(* part.                                                                   *)
(*                                                                         *)
(* Data: a message is its top entity and the parts of its body in document *)
(* order with their nesting depth, as email.parser reads them.  Headers    *)
(* that only one check looks at (defects, the type parameter, charset) are *)
(* chosen by that check's action.                                          *)
(***************************************************************************)
EXTENDS Naturals, Sequences, FiniteSets, SequencesExt, Places

CONSTANTS
  MaxParts,  \* ParseLimits.max_mime_parts
  MaxDepth,  \* ParseLimits.max_mime_depth
  Messages   \* the messages email.parser returns

ASSUME BudgetAssumption == MaxParts \in Nat \ {0} /\ MaxDepth \in Nat \ {0}

VARIABLES
  mime,        \* the function that runs next, "html" when done, or the error
  message,     \* the message being parsed
  stack,       \* entities still to visit, the next one last
  body_parts,  \* entities visited
  root,        \* the HTML root; 0 is the message itself
  diagnosed    \* diagnostics of the document

mimeVars == <<mime, message, stack, body_parts, root, diagnosed>>

NoMessage == [top |-> [type |-> "none", start |-> "", size |-> 0], parts |-> <<>>]

MimeIdle ==
  /\ mime = "idle" /\ message = NoMessage /\ stack = <<>>
  /\ body_parts = <<>> /\ root = 0 /\ diagnosed = {}

ForgetMessage ==
  /\ mime' = "idle" /\ message' = NoMessage /\ stack' = <<>>
  /\ body_parts' = <<>> /\ root' = 0 /\ diagnosed' = {}

-----------------------------------------------------------------------------
(* The message as a tree.                                                  *)

Multipart == {"related", "mixed"}
Parts(m) == DOMAIN m.parts
Entity(m, i) == IF i = 0 THEN m.top ELSE m.parts[i]
Depth(m, i) == IF i = 0 THEN 0 ELSE m.parts[i].depth

\* The payload of i, when it is a list.
Children(m, i) ==
  {j \in Parts(m) : /\ j > i /\ Depth(m, j) = Depth(m, i) + 1
                    /\ \A k \in (i + 1)..(j - 1) : Depth(m, k) > Depth(m, i)}
IsMultipart(m, i) == Children(m, i) # {}

\* The parts of a tree in document order: the first is a part of the message,
\* each of the others at most one level below the one before it.
ASSUME MessagesAssumption ==
  \A m \in Messages :
    /\ m.parts \in Seq(Range(m.parts))
    /\ \A i \in Parts(m) :
         /\ m.parts[i].depth \in Nat \ {0}
         /\ m.parts[i].depth <= Depth(m, i - 1) + 1
    /\ \A i \in Parts(m) \cup {0} : Entity(m, i).size \in Nat

\* A multipart entity without parts has lost its boundaries.
Unclosed(m, i) == Entity(m, i).type \in Multipart /\ ~IsMultipart(m, i)

\* _normalize_content_id: "<a>" and "a" are one id, "<>" and "" are none.
NormalizedId(id) ==
  CASE id = "<a>" -> "a" [] id = "<b>" -> "b" [] id = "<>" -> "" [] OTHER -> id

IsHtmlLeaf(m, i) == Entity(m, i).type = "html" /\ ~IsMultipart(m, i)

-----------------------------------------------------------------------------
(* parse_mhtml_bytes.                                                      *)

Refuse(error) ==
  mime' = error /\ UNCHANGED <<message, stack, body_parts, root, diagnosed>>

\* Mutant: the children are pushed first to last.
PushForwards(below, m, i, depth) ==
  below \o [k \in 1..Cardinality(Children(m, i)) |->
             [part |-> Nth(k, Children(m, i)), depth |-> depth]]

\* stack.extend: the first child on top.
Push(below, m, i, depth) ==
  LET count == Cardinality(Children(m, i)) IN
  below \o [k \in 1..count |->
             [part |-> Nth(count + 1 - k, Children(m, i)), depth |-> depth]]

\* _is_empty_related_container, and the stack _bounded_body_parts begins with.
OpenMessage(m) ==
  /\ message' = m
  /\ body_parts' = <<>> /\ root' = 0 /\ diagnosed' = {}
  /\ IF m.top.type = "related" /\ ~IsMultipart(m, 0) /\ m.top.size = 0
       THEN mime' = "MISSING_HTML_ROOT" /\ stack' = <<>>
       ELSE mime' = "walk" /\ stack' = Push(<<>>, m, 0, 1)

\* One turn of the loop of _bounded_body_parts.
VisitPart ==
  LET next == Last(stack) IN
  /\ mime = "walk" /\ stack # <<>>
  /\ IF next.depth > MaxDepth THEN Refuse("MIME_NESTING_TOO_DEEP")
     ELSE /\ body_parts' = Append(body_parts, next.part)
          /\ stack' = Push(Front(stack), message, next.part, next.depth + 1)
          /\ mime' = IF Len(body_parts) + 1 > MaxParts THEN "TOO_MANY_MIME_PARTS"
                     ELSE "walk"
          /\ UNCHANGED <<message, root, diagnosed>>

PartId(i) == NormalizedId(Entity(message, i).id)

\* Mutant: ids are compared as they are spelled.
AmbiguousSpelling ==
  \E i, j \in Range(body_parts) :
    i # j /\ PartId(i) # "" /\ Entity(message, i).id = Entity(message, j).id

\* Two parts of the body have the same Content-ID.
AmbiguousId ==
  \E i, j \in Range(body_parts) : i # j /\ PartId(i) # "" /\ PartId(i) = PartId(j)

\* _validate_mime_structure: defects of the parser, repeated headers or
\* repeated parameters of the message, then the ids of the parts.
ValidateStructure ==
  /\ mime = "walk" /\ stack = <<>>
  /\ \E defective \in BOOLEAN :
       /\ (\E i \in {0} \cup Range(body_parts) : Unclosed(message, i)) => defective
       /\ mime' = IF defective THEN "INVALID_MIME"
                  ELSE IF AmbiguousId THEN "AMBIGUOUS_HTML_ROOT" ELSE "select"
  /\ UNCHANGED <<message, stack, body_parts, root, diagnosed>>

\* The part the start parameter names, else the first direct part; no part
\* when there is none.
RootPart(m) ==
  IF NormalizedId(m.top.start) # ""
    THEN {i \in Range(body_parts) : PartId(i) = NormalizedId(m.top.start)}
    ELSE {i \in Children(m, 0) : \A j \in Children(m, 0) : i <= j}

\* _select_html_root.
SelectRoot ==
  /\ mime = "select"
  /\ IF IsHtmlLeaf(message, 0) THEN mime' = "related_type" /\ root' = 0
     ELSE IF message.top.type # "related" THEN mime' = "INVALID_MIME" /\ UNCHANGED root
     ELSE IF \E i \in RootPart(message) : IsHtmlLeaf(message, i)
       THEN mime' = "related_type" /\ root' = CHOOSE i \in RootPart(message) : TRUE
       ELSE mime' = "MISSING_HTML_ROOT" /\ UNCHANGED root
  /\ UNCHANGED <<message, stack, body_parts, diagnosed>>

\* _related_type_diagnostics: the type parameter is absent, the root's type,
\* or another.
CheckRelatedType ==
  /\ mime = "related_type"
  /\ \E declared \in {"absent", "root", "other"} :
       IF message.top.type # "related" \/ declared = "root"
         THEN mime' = "decode" /\ UNCHANGED diagnosed
         ELSE IF declared = "absent"
           THEN mime' = "decode" /\ diagnosed' = {"missing_related_type"}
           ELSE mime' = "INVALID_MIME" /\ UNCHANGED diagnosed
  /\ UNCHANGED <<message, stack, body_parts, root>>

\* _decode_html: the charset may be unknown, the bytes or their number wrong.
DecodeRoot ==
  /\ mime = "decode"
  /\ \/ /\ mime' \in {"UNKNOWN_CHARSET", "HTML_DECODE_FAILED", "HTML_TOO_LARGE"}
        /\ UNCHANGED diagnosed
     \/ /\ mime' = "html"
        /\ \E transfer \in SUBSET {"identity_transfer_encoding"} :
             diagnosed' = diagnosed \cup transfer
  /\ UNCHANGED <<message, stack, body_parts, root>>

MimeNext ==
  VisitPart \/ ValidateStructure \/ SelectRoot \/ CheckRelatedType \/ DecodeRoot

-----------------------------------------------------------------------------
(* extract_html_bytes.                                                     *)

\* parse_mhtml_parts: the entities with a payload of their own.
PayloadParts(m) ==
  {i \in Parts(m) \cup {0} :
     ~IsMultipart(m, i) /\ Entity(m, i).type \notin Multipart /\ Entity(m, i).size > 0}

\* Mutant: a part that looks like HTML counts as one.
LooseHtml(m) == {i \in PayloadParts(m) : Entity(m, i).type \in {"html", "htmlish"}}
HtmlParts(m) == {i \in PayloadParts(m) : Entity(m, i).type = "html"}

First(parts) == {i \in parts : \A j \in parts : i <= j}

\* The first of the largest HTML parts, else the first that looks like HTML;
\* no part when nothing does (the file as a whole, or an error).
ExtractHtml(m) ==
  IF HtmlParts(m) # {}
    THEN First({i \in HtmlParts(m) :
                  \A j \in HtmlParts(m) : Entity(m, j).size <= Entity(m, i).size})
    ELSE First({i \in PayloadParts(m) : Entity(m, i).type = "htmlish"})

-----------------------------------------------------------------------------
\* The walk visits every part once, in document order, before anything is
\* decided about the message; it refuses exactly the messages over a budget
\* and never holds more than one part beyond it (_bounded_body_parts).
WalkComplete ==
  /\ \A k \in DOMAIN body_parts : body_parts[k] = k
  /\ Len(body_parts) <= MaxParts + 1
  /\ mime \in {"select", "related_type", "decode", "html"} =>
       /\ Range(body_parts) = Parts(message) /\ Len(body_parts) <= MaxParts
       /\ \A i \in Parts(message) : Depth(message, i) <= MaxDepth
  /\ mime = "MIME_NESTING_TOO_DEEP" =>
       \E i \in Parts(message) : Depth(message, i) > MaxDepth
  /\ mime = "TOO_MANY_MIME_PARTS" => Len(message.parts) > MaxParts

\* What inspection takes for the page is an HTML leaf and the only entity
\* that can be meant: the message itself, the one part with the id the
\* message names, or the first part (_select_html_root).
RootIsNamed ==
  mime = "html" =>
    LET start == NormalizedId(message.top.start) IN
    /\ IsHtmlLeaf(message, root)
    /\ root # 0 => message.top.type = "related"
    /\ root # 0 /\ start = "" => root = 1
    /\ root # 0 /\ start # "" =>
         {i \in Parts(message) : NormalizedId(message.parts[i].id) = start} = {root}

\* Inspection and loading read the same page, when the page is not blank and
\* no other part of the message is one (_select_html_root against
\* extract_html_bytes).  With several HTML parts they may not: loading goes
\* by size.
LoadReadsRoot ==
  /\ mime = "html" /\ Entity(message, root).size > 0
  /\ \A i \in Parts(message) : IsHtmlLeaf(message, i) => i = root
  => ExtractHtml(message) = {root}
=============================================================================
