--------------------------- MODULE MCQualityReports ---------------------------
(* One report on three days, with windows of two days. *)
EXTENDS QualityReports, TLC

McTitles == <<"team">>
Spec == Init /\ [][Next]_vars
=============================================================================
