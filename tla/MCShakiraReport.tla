--------------------------- MODULE MCShakiraReport ---------------------------
(* One bug report with a recording and a log. *)
EXTENDS ShakiraReport, TLC

McTypeChannel == "Request" :> "product"
McNoChannel == [f \in {} |-> "product"]

McReports ==
  {[project |-> "DLAA", client |-> "none", type |-> "none", feature |-> "none",
    related |-> "none", details |-> "text", reporter |-> "known", files |-> {"log", "video"}]}

Init == InitFrom(McReports)
Spec == Init /\ [][Next]_vars
=============================================================================
