------------------------------ MODULE TicketPages ------------------------------
(***************************************************************************)
(* detect_spikes (lib/spike_detector.py) reads the tickets of a day page by *)
(* page, the newest first, while the workers go on indexing                 *)
(* (get_recent_paginated_tickets of dal/opensearch_interface.py).  Each     *)
(* turn asks OpenSearch twice: how many tickets the day has, and for a page *)
(* that begins after the time of the last ticket of the page before;        *)
(* tickets with that same time are passed over.                             *)
(***************************************************************************)
EXTENDS Naturals, FiniteSets, Sequences, SequencesExt, FiniteSetsExt

CONSTANTS
  Tickets,    \* of a day
  Time,       \* [Tickets -> date_time]
  PageSize,   \* _PAGE_SIZE
  BatchSize   \* _BATCH_TARGET_SIZE

Assumptions ==
  /\ IsFiniteSet(Tickets)
  /\ Time \in [Tickets -> Nat \ {0}]
  /\ PageSize \in Nat \ {0} /\ BatchSize \in Nat

VARIABLES
  index,    \* the tickets of the day in OpenSearch
  scan,     \* the loop of detect_spikes
  detected, \* the batches that the detector was run for
  atStart,  \* history: the tickets that were indexed when the loop began
  slipped   \* history: those indexed between the last count and its page

vars == <<index, scan, detected, atStart, slipped>>

(* after is sort_id, 0 before the first page; total is what was counted;    *)
(* count how many tickets came.                                             *)
TypeOK ==
  /\ index \subseteq Tickets /\ atStart \subseteq Tickets /\ slipped \subseteq Tickets
  /\ scan \in [at : {"idle", "count", "page", "done"}, after : Nat, total : Nat, count : Nat,
               batch : Seq(Tickets)]
  /\ detected \in Seq(Seq(Tickets))

Init ==
  /\ index = {}
  /\ scan = [at |-> "idle", after |-> 0, total |-> 0, count |-> 0, batch |-> <<>>]
  /\ detected = <<>>
  /\ atStart = {} /\ slipped = {}

(* A worker indexes a ticket; its time may be any.                          *)
Index(t) ==
  /\ t \notin index
  /\ index' = index \cup {t}
  /\ slipped' = IF scan.at = "page" THEN slipped \cup {t} ELSE slipped
  /\ UNCHANGED <<scan, detected, atStart>>

Start ==
  /\ scan.at = "idle"
  /\ scan' = [scan EXCEPT !.at = "count"]
  /\ atStart' = index
  /\ UNCHANGED <<index, detected, slipped>>

(* A mistake: the tickets are counted at the first turn only.               *)
Count_Once ==
  /\ scan.at = "count"
  /\ scan' = [scan EXCEPT !.at = "page",
                          !.total = IF scan.after = 0 THEN Cardinality(index) ELSE @]
  /\ slipped' = {}
  /\ UNCHANGED <<index, detected, atStart>>

(* The first request of a turn: how many tickets the day has by now.        *)
Count ==
  /\ scan.at = "count"
  /\ scan' = [scan EXCEPT !.at = "page", !.total = Cardinality(index)]
  /\ slipped' = {}
  /\ UNCHANGED <<index, detected, atStart>>

(* The first tickets of a set, the newest first; OpenSearch gives those of   *)
(* one time in any order.                                                   *)
Newest(hits) ==
  {page \in [1 .. Min({PageSize, Cardinality(hits)}) -> hits] :
     \A m \in DOMAIN page :
       /\ \A n \in DOMAIN page : m < n => page[m] # page[n] /\ Time[page[m]] >= Time[page[n]]
       /\ \A t \in hits \ ToSet(page) : Time[page[m]] >= Time[t]}

(* get_recent_paginated_tickets: search_after a time, newest first.         *)
Pages(after) == Newest({t \in index : after = 0 \/ Time[t] < after})

(* The second request: the page is added, a large batch is handed on, and   *)
(* the loop ends with all that were counted or with an empty page; what is  *)
(* left of the batch is handed on after it.                                 *)
Turn ==
  /\ scan.at = "page"
  /\ \E page \in Pages(scan.after) :
     LET batch == scan.batch \o page
         full  == Len(batch) > BatchSize
         rest  == IF full THEN <<>> ELSE batch
         count == scan.count + Len(page)
         ends  == count >= scan.total \/ page = <<>>
     IN /\ scan' = [at |-> IF ends THEN "done" ELSE "count",
                    after |-> IF page = <<>> THEN scan.after ELSE Time[Last(page)],
                    total |-> scan.total,
                    count |-> count, batch |-> IF ends THEN <<>> ELSE rest]
        /\ detected' = detected \o (IF full THEN <<batch>> ELSE <<>>)
                                \o (IF ends THEN <<rest>> ELSE <<>>)
  /\ UNCHANGED <<index, atStart, slipped>>

Next == Start \/ Count \/ Turn \/ \E t \in Tickets : Index(t)

-----------------------------------------------------------------------------
(* How often the detector was given a ticket.                               *)
Times(t) == Cardinality({p \in (DOMAIN detected) \X (1 .. Cardinality(Tickets)) :
                           p[2] \in DOMAIN detected[p[1]] /\ detected[p[1]][p[2]] = t})

(* Tickets that were indexed when the loop began and were never given to    *)
(* the detector, although no other has their time.                          *)
LeftOut ==
  {t \in atStart : Times(t) = 0 /\ \A s \in index \ {t} : Time[s] # Time[t]}

(* No ticket is given to the detector twice, whatever is indexed meanwhile, *)
(* and of those that were indexed when the loop began, and have a time of   *)
(* their own, no more are left out than were indexed between the last count *)
(* and its page: one that slips in there takes the place of another, and    *)
(* the loop ends too early (detect_spikes).                                 *)
DetectedOnce ==
  /\ \A t \in Tickets : Times(t) <= 1
  /\ scan.at = "done" => Cardinality(LeftOut) <= Cardinality(slipped)
=============================================================================
