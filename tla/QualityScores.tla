----------------------------- MODULE QualityScores -----------------------------
(***************************************************************************)
(* How a quality report counts: the points of an issue (model/              *)
(* quality_score_params), the score of a set of issues (model/              *)
(* quality_report_base) and what changed it since the report before         *)
(* (model/quality_report).                                                  *)
(***************************************************************************)
EXTENDS Integers

CONSTANTS
  Keys,         \* issue keys
  NotThere      \* an issue that a report does not hold

(* What counts of an issue is its priority, whether a label says acute, its  *)
(* resolution, the days from creation to resolution, rounded down, and how  *)
(* many duplicates it has.                                                  *)

(* priority_map, which a label may overrule (init_from_jira_data).          *)
Group(issue) ==
  IF issue.acute THEN "Acute"
  ELSE CASE issue.priority \in {"Highest", "High"} -> "High"
         [] issue.priority = "Medium" -> "Medium"
         [] issue.priority \in {"Low", "Lowest"} -> "Low"
         [] OTHER -> "Unprioritized"

IsFixed(issue) == issue.resolution \in {"Fixed", "Done"}
IsDone(issue) == issue.resolution \notin {"", "Unresolved"}

Resolution(issue) ==
  CASE IsFixed(issue) /\ issue.days <= 7 -> "FixedWithinOneWeek"
    [] IsFixed(issue) /\ issue.days > 7 -> "Fixed"
    [] ~IsFixed(issue) -> IF IsDone(issue) THEN "Closed" ELSE "Open"

(* score_map                                                                *)
ScoreMap(group) ==
  LET row(early, fixed, closed, open) ==
        [r \in {"FixedWithinOneWeek", "Fixed", "Closed", "Open"} |->
           CASE r = "FixedWithinOneWeek" -> early [] r = "Fixed" -> fixed
             [] r = "Closed" -> closed [] r = "Open" -> open]
  IN CASE group = "Acute"         -> row(200, 100, 20, 200)
       [] group = "High"          -> row(100, 50, 10, 100)
       [] group = "Medium"        -> row(20, 10, 2, 10)
       [] group = "Low"           -> row(10, 5, 1, 5)
       [] group = "Unprioritized" -> row(10, 5, 1, 50)

(* get_score: duplicates are a bonus for what is closed.                    *)
Points(issue) ==
  ScoreMap(Group(issue))[Resolution(issue)] + IF IsDone(issue) THEN issue.duplicates ELSE 0

-----------------------------------------------------------------------------
(* A report holds issues by key.  calculate_scores: the points of both      *)
(* kinds, and the share of those closed, 100 of nothing.                    *)
Held(report) == {k \in Keys : report[k] # NotThere}
DoneOf(report) == {k \in Held(report) : IsDone(report[k])}
PointsOf(report, keys) ==
  LET sum[S \in SUBSET Keys] ==
        IF S = {} THEN 0
        ELSE LET k == CHOOSE k \in S : TRUE IN Points(report[k]) + sum[S \ {k}]
  IN sum[keys]

ClosedPoints(report) == PointsOf(report, DoneOf(report))
OpenPoints(report) == PointsOf(report, Held(report) \ DoneOf(report))

(* Python rounds a half to the even number.                                 *)
RoundedShare(part, whole) ==
  LET down == (100 * part) \div whole
      rest == 2 * ((100 * part) % whole)
  IN IF rest > whole \/ (rest = whole /\ down % 2 = 1) THEN down + 1 ELSE down

OverallScore(report) ==
  IF ClosedPoints(report) + OpenPoints(report) = 0 THEN 100
  ELSE RoundedShare(ClosedPoints(report), ClosedPoints(report) + OpenPoints(report))

-----------------------------------------------------------------------------
(* find_recent_changes: the issues that were resolved, added or removed,    *)
(* each in one set, ...                                                     *)
Resolved(before, now) ==
  {k \in DoneOf(now) : before[k] = NotThere \/ ~IsDone(before[k])}

(* A mistake: what is new and resolved counts as both.                      *)
Included_WithResolved(before, now) == Held(now) \ Held(before)

Included(before, now) == (Held(now) \ Held(before)) \ Resolved(before, now)

Removed(before, now) == Held(before) \ Held(now)

(* ... and the points, closed and of both kinds, after each of the changes  *)
(* is applied to those of before.                                           *)
AfterResolved(before, now) ==
  LET resolved == Resolved(before, now)
      gained == PointsOf(now, resolved)
      lost == PointsOf(before, resolved \cap Held(before))
  IN [closed |-> ClosedPoints(before) + gained,
      total |-> ClosedPoints(before) + OpenPoints(before) + gained - lost]

AfterIncluded(before, now) ==
  [AfterResolved(before, now) EXCEPT !.total = @ + PointsOf(now, Included(before, now))]

AfterRemoved(before, now) ==
  LET removed == Removed(before, now)
      closed == PointsOf(before, removed \cap DoneOf(before))
  IN [closed |-> AfterIncluded(before, now).closed - closed,
      total |-> AfterIncluded(before, now).total - PointsOf(before, removed)]

-----------------------------------------------------------------------------
(* Issues that are in both reports and neither were resolved in between nor *)
(* count the same: reopened, or given another priority or more duplicates.  *)
Recounted(before, now) ==
  {k \in Held(before) \cap Held(now) :
     k \notin Resolved(before, now) /\ (Points(before[k]) # Points(now[k])
                                        \/ IsDone(before[k]) # IsDone(now[k]))}

(* The three changes of a report take its points from those of the report   *)
(* before to its own: nothing is counted twice or left out, apart from      *)
(* issues that count differently without having been resolved               *)
(* (find_recent_changes).                                                   *)
ChangesAddUp(before, now) ==
  Recounted(before, now) = {} =>
    /\ AfterRemoved(before, now).closed = ClosedPoints(now)
    /\ AfterRemoved(before, now).total = ClosedPoints(now) + OpenPoints(now)

(* No change may take points from below zero, and what is closed is never   *)
(* more than all there is (find_recent_changes).                            *)
ChangesStayInBounds(before, now) ==
  \A after \in {AfterResolved(before, now), AfterIncluded(before, now), AfterRemoved(before, now)} :
    0 <= after.closed /\ after.closed <= after.total

(* Resolving issues never lowers the score, whatever their priority and     *)
(* however late, and fixing one in time is worth as much as fixing it late  *)
(* (score_map, calculate_scores).                                           *)
ResolvingHelps(before, now) ==
  /\ Held(before) = Held(now)
  /\ \A k \in Held(now) : \/ before[k] = now[k]
                          \/ ~IsDone(before[k]) /\ IsDone(now[k])
  => OverallScore(now) >= OverallScore(before)
=============================================================================
