---------------------------- MODULE ColumnNames ----------------------------
(***************************************************************************)
(* The database names of the columns of one table: the names a load gives  *)
(* them (unique_snake_names), the names an earlier release would have      *)
(* given (_legacy_column_names), which a load refuses to find in its       *)
(* table, and the names a schema proposal gives (propose_schema).          *)
(*                                                                         *)
(* Data: a name is a sequence of tokens, the parts between underscores,    *)
(* and is cut to MaxTokens of them where the code cuts to 63 bytes.  A     *)
(* header is a sequence of words, and a word a record of what the code     *)
(* makes of it: `fold', the word without case; `load', its tokens for a    *)
(* load (ASCII letters and digits only); `propose', its tokens for a       *)
(* proposal (any letters, acronyms taken apart).                           *)
(***************************************************************************)
EXTENDS Naturals, Sequences, FiniteSets, SequencesExt

CONSTANTS
  MaxTokens,    \* tokens that fit into 63 bytes
  Aliases,      \* _HEADER_ALIASES: header -> proposed name
  Reserved,     \* _RESERVED_WORDS
  HeaderLists   \* the headers of the tables named

\* Tokens: words of ASCII letters, words with other letters, numbers, digests.
Word(w) == <<"word", w>>
Letters(w) == <<"letters", w>>
Number(n) == <<"number", n>>
Digest(header, position) == <<"digest", header, position>>

Field == Word("field")
LineageColumns ==
  {<<Word("source"), Word("artifact"), Word("path")>>,
   <<Word("source"), Word("artifact"), Word("sha256")>>,
   <<Word("source"), Word("row"), Word("number")>>, <<Word("loaded"), Word("at")>>}

ASSUME NamesAssumption == MaxTokens \in Nat /\ MaxTokens >= 3

VARIABLES
  naming,    \* the names being made, then the answer to the new table
  headers,   \* the headers of the table
  named,     \* the names made so far, by "present", "legacy", "proposed"
  attempt,   \* n of the candidate tried next for the present header
  loadable   \* every header has a name for a load

nameVars == <<naming, headers, named, attempt, loadable>>

NoNames == [present |-> <<>>, legacy |-> <<>>, proposed |-> <<>>]

NamesIdle ==
  /\ naming = "idle" /\ headers = <<>> /\ named = NoNames
  /\ attempt = 1 /\ loadable = TRUE

ForgetNames ==
  /\ naming' = "idle" /\ headers' = <<>> /\ named' = NoNames
  /\ attempt' = 1 /\ loadable' = TRUE

-----------------------------------------------------------------------------
Cut(name, n) == SubSeq(name, 1, IF Len(name) < n THEN Len(name) ELSE n)
IsNumber(token) == token[1] = "number"
IsAscii(token) == token[1] # "letters"
AllAscii(name) == \A i \in DOMAIN name : IsAscii(name[i])
LoadTokens(h) == FlattenSeq([i \in DOMAIN h |-> h[i].load])
ProposeTokens(h) == FlattenSeq([i \in DOMAIN h |-> h[i].propose])

\* Two tokens or more, and no digit in front.
IsMultiword(name) == Len(name) \in 2..MaxTokens /\ ~IsNumber(Head(name))

\* require_safe_ident: and nothing but ASCII.
IsSafe(name) == IsMultiword(name) /\ AllAscii(name)

\* Lists, headers and aliases are sequences, and an alias is an identifier.
IsSequence(s) == s \in Seq(Range(s))

ASSUME HeadersAssumption ==
  \A list \in HeaderLists :
    /\ IsSequence(list)
    /\ \A i \in DOMAIN list :
         /\ IsSequence(LoadTokens(list[i])) /\ IsSequence(ProposeTokens(list[i]))
         /\ AllAscii(LoadTokens(list[i]))
ASSUME AliasesAssumption ==
  \A h \in DOMAIN Aliases : IsSequence(Aliases[h]) /\ IsSafe(Aliases[h])

\* A name may not begin with a digit.
Prefixed(tokens, prefix) ==
  IF tokens # <<>> /\ IsNumber(Head(tokens)) THEN <<Word(prefix)>> \o tokens ELSE tokens

\* to_snake_case of a header with tokens: one token gets a second.
SnakeName(tokens) ==
  IF Len(tokens) = 1 THEN Cut(Prefixed(tokens, "col"), MaxTokens - 1) \o <<Field>>
  ELSE Cut(Prefixed(tokens, "col"), MaxTokens)

\* Mutant: the number is added before the name is cut.
CutNumbered(base, n) ==
  IF n = 1 THEN base ELSE Cut(Append(base, Number(n)), MaxTokens)

\* The n-th candidate of unique_snake_names.
PresentCandidate(base, n) ==
  IF n = 1 THEN base
  ELSE IF Last(base) = Field
    THEN Cut(Front(base), MaxTokens - 2) \o <<Field, Number(n)>>
    ELSE Cut(base, MaxTokens - 1) \o <<Number(n)>>

\* The n-th candidate of _legacy_column_names.
LegacyBase(tokens) == Cut(Prefixed(tokens, "col"), MaxTokens)
LegacyCandidate(base, n) ==
  IF n = 1 THEN base ELSE Cut(base, MaxTokens - 1) \o <<Number(n)>>

\* _canonical_name; _fit_identifier keeps the last token.
FitName(name) ==
  IF Len(name) <= MaxTokens THEN name ELSE Append(Cut(name, MaxTokens - 1), Last(name))

\* Mutant: a lone token gets another second token than a load gives it.
CanonicalColumn(h) ==
  LET tokens == Prefixed(ProposeTokens(h), "source") IN
  IF h \in DOMAIN Aliases THEN Aliases[h]
  ELSE IF tokens = <<>> THEN <<Word("source"), Field, Digest(h, 0)>>
  ELSE IF tokens \in Reserved \/ Len(tokens) = 1 THEN FitName(Append(tokens, Word("column")))
  ELSE FitName(tokens)

CanonicalName(h) ==
  LET tokens == Prefixed(ProposeTokens(h), "source") IN
  IF h \in DOMAIN Aliases THEN Aliases[h]
  ELSE IF tokens = <<>> THEN <<Word("source"), Field, Digest(h, 0)>>
  ELSE IF tokens \in Reserved \/ Len(tokens) = 1 THEN FitName(Append(tokens, Field))
  ELSE FitName(tokens)

CollisionName(base, h, position) ==
  Append(Cut(base, MaxTokens - 1), Digest(h, position))

-----------------------------------------------------------------------------
Header(scheme) == headers[Len(named[scheme]) + 1]
Complete(scheme) == Len(named[scheme]) = Len(headers)

OpenNames(list) ==
  /\ headers' = list /\ named' = NoNames /\ attempt' = 1
  /\ loadable' = (\A i \in DOMAIN list : LoadTokens(list[i]) # <<>>)
  /\ naming' = IF loadable' THEN "present" ELSE "proposed"

\* One turn of the loop that looks for an unused name.
Try(scheme, candidate) ==
  /\ naming = scheme /\ ~Complete(scheme)
  /\ IF candidate \in Range(named[scheme])
       THEN attempt' = attempt + 1 /\ UNCHANGED named
       ELSE /\ named' = [named EXCEPT ![scheme] = Append(@, candidate)]
            /\ attempt' = 1
  /\ UNCHANGED <<naming, headers, loadable>>

TryPresent ==
  Try("present", PresentCandidate(SnakeName(LoadTokens(Header("present"))), attempt))
TryLegacy ==
  Try("legacy", LegacyCandidate(LegacyBase(LoadTokens(Header("legacy"))), attempt))

\* One column of propose_schema: one collision name, or the proposal fails.
ProposeName ==
  LET base == CanonicalName(Header("proposed"))
      used == Range(named.proposed)
      target == IF base \notin used THEN base
                ELSE CollisionName(base, Header("proposed"), Len(named.proposed))
  IN
  /\ naming = "proposed" /\ ~Complete("proposed")
  /\ IF target \in used THEN naming' = "INVALID_INPUT" /\ UNCHANGED named
     ELSE named' = [named EXCEPT !.proposed = Append(@, target)] /\ UNCHANGED naming
  /\ UNCHANGED <<headers, attempt, loadable>>

NextScheme ==
  /\ \/ naming = "present" /\ Complete("present") /\ naming' = "legacy"
     \/ naming = "legacy" /\ Complete("legacy") /\ naming' = "proposed"
     \/ naming = "proposed" /\ Complete("proposed") /\ naming' = "named"
  /\ UNCHANGED <<headers, named, attempt, loadable>>

\* Mutant: a column that kept its name is looked for as well.
TakenForOwn == \E i \in DOMAIN headers : named.legacy[i] \in Range(named.present)

\* A name the new table has that a load takes for one of an earlier release.
TakenForLegacy ==
  \E i \in DOMAIN headers :
    /\ named.legacy[i] # named.present[i]
    /\ named.legacy[i] \in Range(named.present) \cup LineageColumns

\* infer_table_schema, and ensure_table when no table exists: create_ddl,
\* then _ensure_missing_columns reads the columns just created.
CreateNewTable ==
  /\ naming = "named"
  /\ naming' = IF ~loadable THEN "invalid_header"
               ELSE IF Range(named.present) \cap LineageColumns # {} THEN "duplicate_column"
               ELSE IF TakenForLegacy THEN "legacy_column" ELSE "created"
  /\ UNCHANGED <<headers, named, attempt, loadable>>

NamesNext == TryPresent \/ TryLegacy \/ ProposeName \/ NextScheme \/ CreateNewTable

-----------------------------------------------------------------------------
Distinct(f(_)) == \A i, j \in DOMAIN headers : i # j => f(headers[i]) # f(headers[j])

\* Whatever the headers and wherever their names are cut, no two columns of
\* a table get one name; the names of a load satisfy the identifier policy,
\* and a proposed name does unless its header has letters that are not ASCII
\* (test_schema_proposal expects such names; pg_erd_connector.py:89 refuses
\* them); and a free name is found after at most one try per name already
\* given and one more, a name cut to end in _2 being tried twice
\* (unique_snake_names, _legacy_column_names, propose_schema,
\* require_safe_ident).
NamesUnique ==
  /\ \A scheme \in DOMAIN named : IsInjective(named[scheme])
  /\ \A name \in Range(named.present) : IsSafe(name)
  /\ \A i \in DOMAIN named.proposed :
       /\ IsMultiword(named.proposed[i])
       /\ AllAscii(ProposeTokens(headers[i])) => IsSafe(named.proposed[i])
  /\ naming \in DOMAIN named => attempt <= Len(named[naming]) + 2

\* A load into a table that does not exist yet is refused for a column of an
\* earlier release only when two of its own headers come to one name, and
\* for a duplicate column only when one comes to a lineage column's name
\* (ensure_table: the check for earlier names reads the table just created).
NewTableRefused ==
  /\ naming = "legacy_column" =>
       \/ ~Distinct(LAMBDA h : SnakeName(LoadTokens(h)))
       \/ ~Distinct(LAMBDA h : LegacyBase(LoadTokens(h)))
  /\ naming = "duplicate_column" =>
       \E i \in DOMAIN headers : \E n \in 1..Len(headers) :
         PresentCandidate(SnakeName(LoadTokens(headers[i])), n) \in LineageColumns

\* A header the two policies read alike.
Plain(h) ==
  /\ LoadTokens(h) = ProposeTokens(h) /\ Len(LoadTokens(h)) \in 1..MaxTokens
  /\ ~IsNumber(Head(LoadTokens(h)))
  /\ h \notin DOMAIN Aliases /\ LoadTokens(h) \notin Reserved

\* A table created from a proposal has the columns a load writes: when no
\* two headers come to one name, a plain header has one name in both
\* (_canonical_name against to_snake_case).
ProposalNamesLoad ==
  /\ naming = "created"
  /\ Distinct(LAMBDA h : SnakeName(LoadTokens(h))) /\ Distinct(CanonicalName)
  => \A i \in DOMAIN headers :
       Plain(headers[i]) => named.proposed[i] = named.present[i]
=============================================================================
