------------------------------- MODULE RichText -------------------------------
(***************************************************************************)
(* Where the summary that GPT wrote goes in the description of an issue     *)
(* (insert_rich_text_into_description in manager/shakira_jira.py).  A        *)
(* description is a sequence of blocks: a paragraph has items, of which one *)
(* may be a dash that ends what the reporter wrote, or a line break; other  *)
(* blocks (lists, tables, panels) are never looked into.                    *)
(***************************************************************************)
EXTENDS Naturals, Sequences, SequencesExt, FiniteSetsExt

Dash == "dash"     \* STR_SECTION_DELIMITER or DETBUG_SECTION_DELIMITER
Break == "break"   \* hardBreak

Paragraph(items) == [type |-> "paragraph", items |-> items]
Other == [type |-> "other", items |-> <<"block">>]

DashesIn(block) ==
  IF block.type = "paragraph" THEN {n \in DOMAIN block.items : block.items[n] = Dash} ELSE {}

(* _build_description_with_rich_text: after the first dash of the first     *)
(* paragraph that has one, whose rest becomes a paragraph of its own, less  *)
(* a line break and unless nothing is left of it; or at the end.            *)
BuildDescription(content, rich) ==
  LET targets == {p \in DOMAIN content : DashesIn(content[p]) # {}}
      p == Min(targets)
      items == content[p].items
      dash == Min(DashesIn(content[p]))
      after == SubSeq(items, dash + 1, Len(items))
      rest == IF after # <<>> /\ Head(after) = Break THEN Tail(after) ELSE after
  IN IF targets = {} THEN content \o rich
     ELSE SubSeq(content, 1, p - 1) \o <<Paragraph(SubSeq(items, 1, dash))>> \o rich
          \o (IF rest = <<>> THEN <<>> ELSE <<Paragraph(rest)>>)
          \o SubSeq(content, p + 1, Len(content))

(* The rich text, and a dash after it.                                      *)
InsertRichText(content, rich) ==
  BuildDescription(content, rich \o <<Paragraph(<<Dash>>)>>)

-----------------------------------------------------------------------------
Items(content) == FlattenSeq([n \in DOMAIN content |-> content[n].items])

(* All that the reporter wrote is still there and in its order, but for one *)
(* line break; and the summary stands whole between two dashes, or at the   *)
(* end of a description without any (insert_rich_text_into_description).    *)
SummaryInPlace(content, rich) ==
  LET items == Items(content)
      dashes == {n \in DOMAIN items : items[n] = Dash}
      at == IF dashes = {} THEN Len(items) ELSE Min(dashes)
      added == Items(rich) \o <<Dash>>
      rest == SubSeq(items, at + 1, Len(items))
      result == Items(InsertRichText(content, rich))
  IN \E left \in {rest} \cup {Tail(r) : r \in {rest} \ {<<>>}} :
       /\ result = SubSeq(items, 1, at) \o added \o left
       /\ left # rest => dashes # {} /\ Head(rest) = Break

(* A second summary leaves the first one whole.                             *)
SummariesStay(content, first, second) ==
  LET result == InsertRichText(InsertRichText(content, first), second)
      at(rich, n) == IsPrefix(rich, SubSeq(result, n, Len(result)))
  IN \E m, n \in DOMAIN result : m # n /\ at(first, m) /\ at(second, n)
=============================================================================
