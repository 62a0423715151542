------------------------------ MODULE MCSources ------------------------------
(* A small instance of Sources: three issues and tickets in pages of two, so *)
(* that a page can end between them, two of the tickets by contractors on    *)
(* one matter; four posts, at most three a run; two days with up to three    *)
(* reviews, one page at most; three days to send again.                      *)
EXTENDS Sources, TLC

Matters == 1 :> "audio" @@ 2 :> "audio" @@ 3 :> ""
=============================================================================
