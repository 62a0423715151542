-------------------------- MODULE DeliveryPromise --------------------------
(***************************************************************************)
(* What the ingestion pipeline promises about documents, whatever crashes: *)
(* a document is accepted (its message was enqueued at least once), may    *)
(* become searchable, and may be forfeited by a crash or a dead letter; or *)
(* it is accepted and searchable at once, written by the synchronization.  *)
(* Only accepted documents are delivered or forfeited, and none of the     *)
(* three facts is ever taken back: a forfeited document may still be       *)
(* delivered, through another copy of its message.                         *)
(***************************************************************************)
CONSTANT Docs
VARIABLES accepted, delivered, forfeited

Init == accepted = {} /\ delivered = {} /\ forfeited = {}

Accept(D) ==
  /\ accepted' = accepted \cup D
  /\ UNCHANGED <<delivered, forfeited>>

(* A bulk request may write some of a batch and lose the others.           *)
Settle(D, F) ==
  /\ D \subseteq accepted /\ F \subseteq accepted
  /\ delivered' = delivered \cup D
  /\ forfeited' = forfeited \cup F
  /\ UNCHANGED accepted

Put(D) ==
  /\ accepted' = accepted \cup D
  /\ delivered' = delivered \cup D
  /\ UNCHANGED forfeited

Next == \E D, F \in SUBSET Docs : Accept(D) \/ Settle(D, F) \/ Put(D)

Spec == Init /\ [][Next]_<<accepted, delivered, forfeited>>
=============================================================================
