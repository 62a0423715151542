-------------------------------- MODULE LokiLog --------------------------------
(***************************************************************************)
(* The log of a phone on its way to Loki (manager/shakira_loki.py): lines   *)
(* become entries with a time, which are sorted and sent in parts.  What    *)
(* becomes of a part that is not taken is in module ShakiraTasks.           *)
(*                                                                         *)
(* A line has the time it begins with, 0 for none, and its text, a sequence *)
(* that is empty when nothing follows; printable says of an Android line    *)
(* whether all its characters are, dated whether its time has 19 digits.    *)
(***************************************************************************)
EXTENDS Naturals, Sequences, FiniteSets, FiniteSetsExt, SequencesExt

CONSTANTS
  BatchSize,  \* 500 entries
  LabelOf     \* the label for each name of a field of the report

Assumptions == BatchSize \in Nat \ {0}

(* parse_logs_ios: a line without a time goes on with the entry before it.  *)
ParseIos(lines) ==
  LET flushed(acc) == IF acc.time = 0 \/ acc.text = <<>> THEN acc.entries
                      ELSE Append(acc.entries, [time |-> acc.time, text |-> acc.text])
      add(acc, line) ==
        IF line.time = 0 THEN [acc EXCEPT !.text = @ \o line.text]
        ELSE [entries |-> flushed(acc), time |-> line.time, text |-> line.text]
  IN flushed(FoldLeft(add, [entries |-> <<>>, time |-> 0, text |-> <<>>], lines))

(* parse_logs_android: every line by itself.                                *)
ParseAndroid(lines) ==
  LET kept == SelectSeq(lines, LAMBDA line :
                line.time # 0 /\ line.text # <<>> /\ line.printable /\ line.dated)
  IN [n \in DOMAIN kept |-> [time |-> kept[n].time, text |-> kept[n].text]]

-----------------------------------------------------------------------------
(* extract_iOS_reporter_information: the texts of each bullet of the lists  *)
(* of a description; a section that is no list has none.                    *)
ExtractIos(sections) == FlattenSeq([n \in DOMAIN sections |-> sections[n].bullets])

(* extract_android_reporter_information: of the plain texts those with a    *)
(* colon and something behind it, the other ones are links.                 *)
ExtractAndroid(items) ==
  LET named == SelectSeq(items, LAMBDA item : item.marked \/ Len(item.split) > 1)
  IN [n \in DOMAIN named |-> IF named[n].marked THEN <<"url", named[n].split>>
                             ELSE <<Head(named[n].split), Tail(named[n].split)>>]

(* integrate_ios_info_to_loki, integrate_android_info_to_loki: labels of    *)
(* the stream; of two fields with one label the last one counts.            *)
Labels(service, key, title, mappings) ==
  LET known == SelectSeq(mappings, LAMBDA mapping : mapping[1] \in DOMAIN LabelOf)
      add(labels, mapping) ==
        [l \in DOMAIN labels \cup {LabelOf[mapping[1]]} |->
           IF l = LabelOf[mapping[1]] THEN mapping[2] ELSE labels[l]]
  IN FoldLeft(add, [service |-> service, jira_issue_key |-> key, jira_ticket_title |-> title],
              known)

(* _push_logs_to_loki: entries of one time stay in their order.             *)
ByTime(entries) ==
  LET order == SetToSortSeq(DOMAIN entries, LAMBDA m, n :
                 entries[m].time < entries[n].time \/ (entries[m].time = entries[n].time /\ m < n))
  IN [n \in DOMAIN order |-> entries[order[n]]]

Parts(labels, entries) ==
  LET sorted == ByTime(entries)
      count == (Len(entries) + BatchSize - 1) \div BatchSize
  IN [k \in 1 .. count |->
        [labels |-> labels,
         values |-> SubSeq(sorted, (k - 1) * BatchSize + 1, Min({k * BatchSize, Len(sorted)}))]]

-----------------------------------------------------------------------------
(* The time a line of an iOS log belongs to: that of the last line before   *)
(* it, or of itself, that begins with one; 0 where there is none.           *)
TimeOf(lines, n) ==
  LET dated == {m \in 1 .. n : lines[m].time # 0}
  IN IF dated = {} THEN 0 ELSE lines[Max(dated)].time

Entries(parts) == FlattenSeq([k \in DOMAIN parts |-> parts[k].values])

(* Of an iOS log every text that has a time is in the parts exactly once,   *)
(* under its time, and nothing else is; later parts hold later entries, and *)
(* of one time the texts come in the order of the log (parse_logs_ios,      *)
(* _push_logs_to_loki).  For this the texts of the lines are distinct.      *)
IosLogIsWhole(lines) ==
  LET parts == Parts(<<>>, ParseIos(lines))
      entries == Entries(parts)
      texts == FlattenSeq([n \in DOMAIN entries |-> entries[n].text])
      wanted == {n \in DOMAIN lines : TimeOf(lines, n) # 0}
  IN /\ \A k \in DOMAIN parts : Len(parts[k].values) \in 1 .. BatchSize
     /\ IsInjective(texts) /\ ToSet(texts) = UNION {ToSet(lines[n].text) : n \in wanted}
     /\ \A n \in wanted, m \in DOMAIN entries :
          ToSet(lines[n].text) \cap ToSet(entries[m].text) # {}
            => entries[m].time = TimeOf(lines, n)
     /\ \A m \in 1 .. Len(entries) - 1 : entries[m].time <= entries[m + 1].time
=============================================================================
