-------------------------- MODULE MCIngestPipeline --------------------------
(* Small instances of IngestPipeline. *)
EXTENDS IngestPipeline, TLC

(* A bug of the first day and two versions of a bug of the second: the     *)
(* earlier has a label that the crawl's search leaves out and is copied by  *)
(* the synchronization, the later one is found by the crawl.                *)
McDir  == "a0" :> 0 @@ "b1" :> 1 @@ "b2" :> 2
McBorn == "a0" :> 0 @@ "b1" :> 1 @@ "b2" :> 1
McId   == "a0" :> "A" @@ "b1" :> "B" @@ "b2" :> "B"
McNoKey == [f \in {"a0", "b1", "b2"} |-> NoKey]

(* Two emails with the same sender, header and body, of two tickets and days. *)
EmDir == "e1" :> 0 @@ "e2" :> 1
EmId  == "e1" :> "E1" @@ "e2" :> "E2"
EmKey == "e1" :> "k" @@ "e2" :> "k"
=============================================================================
