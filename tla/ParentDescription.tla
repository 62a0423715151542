--------------------------- MODULE ParentDescription ---------------------------
(***************************************************************************)
(* The description of a parent issue holds a text and, category by         *)
(* category, how many of its children have which value                      *)
(* (util/parent_jira_issue_util.py).  It is all there is to keep the        *)
(* counts: every request parses the text that Jira returns, adds the new    *)
(* children, and writes it anew.                                            *)
(*                                                                         *)
(* A line of text is a record: its kind is "head" for the name of a         *)
(* category and a colon, "entry" for a value and a count, "blank", or       *)
(* "text" for any other.  An entry is read up to the first ": " and from    *)
(* there to the next: of a value that holds one, such as a version some     *)
(* reporter typed in, something else is read.                               *)
(***************************************************************************)
EXTENDS Naturals, Sequences, FiniteSets, SequencesExt, FiniteSetsExt, Functions

CONSTANTS
  Categories,  \* get_parent_category_mappings, in their order: a sequence
  Sorted,      \* _PARENT_CATEGORIES_TO_SORT_BY_KEY
  ReadAs,      \* of a value with ": " and a number, the value and the count that are read
  Unreadable   \* values with ": " and something else

Assumptions ==
  /\ IsInjective(Categories) /\ Sorted \subseteq Range(Categories)
  /\ DOMAIN ReadAs \cap Unreadable = {}

Blank == [kind |-> "blank"]
HeadOf(category) == [kind |-> "head", of |-> category]
Entry(value, count) == [kind |-> "entry", value |-> value, count |-> count]
Text(words) == [kind |-> "text", words |-> words]
Shared == Text("Shared Experiment Conditions")

(* data is a function from categories to functions from values to counts.   *)
NoData == [c \in Range(Categories) |-> <<>>]

-----------------------------------------------------------------------------
(* generate_parent_body_text_from_data: the entries of a category by value, *)
(* or else the highest counts first; values are numbers, and equal counts   *)
(* stay in the order in which the values were counted, here that of values. *)
Entries(category, counts) ==
  LET before(u, v) == IF category \in Sorted \/ counts[u] = counts[v] THEN u < v
                      ELSE counts[u] > counts[v]
      values == SetToSortSeq(DOMAIN counts, before)
  IN [n \in 1 .. Len(values) |-> Entry(values[n], counts[values[n]])]

Paragraph(category, counts) == <<HeadOf(category)>> \o Entries(category, counts)

IsBlank(line) == line.kind = "blank"

(* A paragraph each for the text, unless it is blank, and for each category.*)
Generate(text, data) ==
  (IF \A n \in DOMAIN text : IsBlank(text[n]) THEN <<>> ELSE <<text \o <<Blank>>>>)
  \o [n \in 1 .. Len(Categories) |-> Paragraph(Categories[n], data[Categories[n]])]

(* JiraDocument.compress_rich_text: paragraphs end in a newline and are     *)
(* joined by one.                                                           *)
Compress(paragraphs) ==
  FoldLeft(LAMBDA lines, p : lines \o p \o <<Blank>>, <<>>, paragraphs)

-----------------------------------------------------------------------------
(* The place of the next line from n on that is blank, or the one after the *)
(* last line; and of the next one that is not.                              *)
NextBlank(lines, n) ==
  Min({m \in n .. Len(lines) : IsBlank(lines[m])} \cup {Len(lines) + 1})
AfterBlanks(lines, n) ==
  Min({m \in n .. Len(lines) : ~IsBlank(lines[m])} \cup {Len(lines) + 1})

(* The lines that start a category, when all is read from top to bottom; a  *)
(* header within the paragraph of another is taken for an entry of it.      *)
Heads(lines) ==
  LET read[n \in 1 .. Len(lines) + 1] ==
        IF n > Len(lines) THEN {}
        ELSE IF lines[n].kind = "head"
             THEN {n} \cup read[AfterBlanks(lines, NextBlank(lines, n + 1))]
             ELSE read[n + 1]
  IN read[1]

Body(lines, head) == (head + 1) .. (NextBlank(lines, head + 1) - 1)

(* parse_parent_description raises where a category holds something else    *)
(* than entries, or an entry whose second part is no number.                *)
Parses(lines) ==
  \A head \in Heads(lines) : \A n \in Body(lines, head) :
    lines[n].kind = "entry" /\ lines[n].value \notin Unreadable

(* What is read of an entry.                                                *)
Read(line) ==
  IF line.value \in DOMAIN ReadAs THEN ReadAs[line.value]
  ELSE [value |-> line.value, count |-> line.count]

(* The last paragraph of a category counts, and in it the last entry of a   *)
(* value.                                                                   *)
Parse(lines) ==
  [c \in {lines[h].of : h \in Heads(lines)} |->
     LET body == Body(lines, Max({h \in Heads(lines) : lines[h].of = c}))
     IN [v \in {Read(lines[n]).value : n \in body} |->
           Read(lines[Max({n \in body : Read(lines[n]).value = v})]).count]]

(* strip_parent_description: every line outside of the categories and the   *)
(* blank lines that follow them.                                            *)
Strip(lines) ==
  LET within(head) == head .. (AfterBlanks(lines, NextBlank(lines, head + 1)) - 1)
      kept == SetToSortSeq((1 .. Len(lines)) \ UNION {within(h) : h \in Heads(lines)}, <)
  IN [n \in 1 .. Len(kept) |-> lines[kept[n]]]

(* A mistake: a count starts over at one.                                   *)
AddChild_StartsOver(data, child) ==
  [c \in DOMAIN data |->
     [v \in DOMAIN data[c] \cup child[c] |->
        IF v \in child[c] THEN 1 ELSE data[c][v]]]

(* update_parent_data_from_child, for the categories of data: a child has   *)
(* one value each, or any number of areas.                                  *)
AddChild(data, child) ==
  [c \in DOMAIN data |->
     [v \in DOMAIN data[c] \cup child[c] |->
        (IF v \in DOMAIN data[c] THEN data[c][v] ELSE 0) + (IF v \in child[c] THEN 1 ELSE 0)]]

(* What generate_parent_body_text_from_data raises without.                 *)
Complete(data) == Range(Categories) \subseteq DOMAIN data

(* One request: parse what Jira has, count the new children, write it anew  *)
(* under the text of the summary; a line about the children's users follows *)
(* when their ids are known.                                                *)
Rewritten(lines, children, text, shared) ==
  Compress(Generate(text, FoldLeft(AddChild, Parse(lines), children))
           \o (IF shared THEN <<<<Shared>>>> ELSE <<>>))

-----------------------------------------------------------------------------
(* No request loses a count or makes one up: after any number of them the   *)
(* text parses, to as many of each value as children were given in all,     *)
(* whatever the summaries say short of naming a category; only a value that *)
(* holds ": " spoils the counts of its category or, for good, the parsing   *)
(* (connect_duplicates_remote, generate_parent_body_text_from_data).        *)
CountsSurvive(lines, children) ==
  LET given(c) == UNION {children[n][c] : n \in DOMAIN children}
      having(c, v) == {n \in DOMAIN children : v \in children[n][c]}
  IN /\ Parses(lines) <=> \A c \in Range(Categories) : given(c) \cap Unreadable = {}
     /\ Parses(lines) => Complete(Parse(lines))
     /\ Parses(lines) =>
          \A c \in Range(Categories) :
            given(c) \cap DOMAIN ReadAs = {} =>
              Parse(lines)[c] = [v \in given(c) |-> Cardinality(having(c, v))]

(* What is left of the description without the counts is the last summary   *)
(* and the line about the users, if one was written, but for blank lines    *)
(* (strip_parent_description).                                              *)
TextSurvives(lines, text, shared) ==
  LET words(ls) == SelectSeq(ls, LAMBDA line : ~IsBlank(line))
  IN words(Strip(lines)) = words(text) \o (IF shared THEN <<Shared>> ELSE <<>>)
=============================================================================
