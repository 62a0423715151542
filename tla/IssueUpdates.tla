------------------------------ MODULE IssueUpdates ------------------------------
(***************************************************************************)
(* Which issues a quality report names as the worst of a team               *)
(* (model/quality_report_base) and how many of them were changed after it   *)
(* (scripts/quality_reports/quality_report_issue_updates.py).  An issue has *)
(* the points of its priority, its number of duplicates, the day it was     *)
(* created and the days it was changed, newest first, as Jira has them.     *)
(***************************************************************************)
EXTENDS Naturals, Sequences, FiniteSets, FiniteSetsExt, SequencesExt

CONSTANT MaxWorst   \* 20 issues of either kind, of the second 5

First(s, n) == SubSeq(s, 1, Min({n, Len(s)}))

(* Two stable sorts, the second one deciding: by points and, of the same,   *)
(* the newest first, ...                                                    *)
WorstFirst(issues, keys) ==
  SetToSortSeq(keys, LAMBDA k, l :
    \/ issues[k].points > issues[l].points
    \/ /\ issues[k].points = issues[l].points
       /\ \/ issues[k].created > issues[l].created
          \/ issues[k].created = issues[l].created /\ k < l)

(* calculate_max_priority_issues                                            *)
MaxPriority(issues) == First(WorstFirst(issues, DOMAIN issues), MaxWorst)

(* ... or by duplicates and, of the same number, by points and date         *)
(* (calculate_max_dupes_issues, after the list was sorted for the above).   *)
MaxDupes(issues) ==
  LET ranked == WorstFirst(issues, {k \in DOMAIN issues : issues[k].duplicates >= 2})
      order == SetToSortSeq(DOMAIN ranked, LAMBDA m, n :
                 \/ issues[ranked[m]].duplicates > issues[ranked[n]].duplicates
                 \/ issues[ranked[m]].duplicates = issues[ranked[n]].duplicates /\ m < n)
  IN First([n \in DOMAIN order |-> ranked[order[n]]], MaxWorst)

MaxDupesNoOverlap(issues) ==
  SelectSeq(First(MaxDupes(issues), 5), LAMBDA k : k \notin ToSet(MaxPriority(issues)))

-----------------------------------------------------------------------------
(* check_quality_report_updates: the newest report that is no newer than    *)
(* the date asked for, or the newest of all; the reports come oldest first. *)
ReportFor(dates, since) ==
  LET before == {n \in DOMAIN dates : since # 0 /\ dates[n] <= since}
  IN IF before = {} THEN Len(dates) ELSE Max(before)

(* check_issue_updates: the changes of an issue are looked at until the     *)
(* first that is older.                                                     *)
Looked(changes, since) ==
  LET old == {n \in DOMAIN changes : changes[n] <= since}
  IN First(changes, IF old = {} THEN Len(changes) ELSE Min(old) - 1)

Updated(issues, keys, since) == {k \in ToSet(keys) : Looked(issues[k].changes, since) # <<>>}

-----------------------------------------------------------------------------
(* The share of the worst issues that were touched is a share: no issue is  *)
(* named twice, every change after the report counts however many there     *)
(* are, and none from before it does (check_quality_report_updates).        *)
EveryUpdateCounts(issues, dates, since) ==
  LET keys == MaxPriority(issues) \o MaxDupesNoOverlap(issues)
      day == dates[ReportFor(dates, since)]
  IN /\ IsInjective(keys)
     /\ Updated(issues, keys, day) =
          {k \in ToSet(keys) : \E n \in DOMAIN issues[k].changes : issues[k].changes[n] > day}
     /\ Cardinality(Updated(issues, keys, day)) <= Len(keys)

(* No open issue that is not named is worse than one that is, by either     *)
(* measure, unless the first five by duplicates are named already           *)
(* (calculate_max_priority_issues, max_dupes_issues_no_overlap).            *)
WorstAreNamed(issues) ==
  LET first == ToSet(MaxPriority(issues))
      named == first \cup ToSet(MaxDupesNoOverlap(issues))
  IN /\ \A k \in DOMAIN issues \ first, l \in first : issues[l].points >= issues[k].points
     /\ \A k \in DOMAIN issues \ named :
          issues[k].duplicates >= 2 =>
            \A l \in ToSet(MaxDupesNoOverlap(issues)) :
              issues[l].duplicates >= issues[k].duplicates
=============================================================================
