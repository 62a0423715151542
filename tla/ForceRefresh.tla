------------------------------ MODULE ForceRefresh ------------------------------
(***************************************************************************)
(* force_refresh_tickets (lib/ticket_crawler.py) beside the crawler: a      *)
(* person has the files of a range of days sent again, the newest day       *)
(* first, while the crawler goes on sending from the newest indexed day on. *)
(* A day stands for its file of one data source; what the workers do with a *)
(* message is in module IngestPipeline, here they index it sooner or later. *)
(***************************************************************************)
EXTENDS Naturals, FiniteSets

CONSTANTS
  LastDay,    \* bound on the calendar
  MaxFaults   \* bound on interruptions

Assumptions == LastDay \in Nat \ {0} /\ MaxFaults \in Nat

VARIABLES
  today,
  s3,        \* days whose file is in S3
  sent,      \* days whose file was sent to the queue
  index,     \* days whose document is in OpenSearch
  crawl,     \* the crawl under way
  refresh,   \* the refresh under way
  faults,
  excuses    \* history: why a day may have been passed over

vars == <<today, s3, sent, index, crawl, refresh, faults, excuses>>

Days == 1 .. LastDay
Idle == [at |-> "idle"]

TypeOK ==
  /\ today \in Days
  /\ s3 \subseteq 1 .. today /\ sent \subseteq s3 /\ index \subseteq sent
  /\ crawl = Idle \/ crawl \in [at : {"store", "send"}, day : Nat]
  /\ refresh = Idle \/ refresh \in [at : {"send"}, first : Days, day : Nat]
  /\ faults \in 0 .. MaxFaults
  /\ excuses \subseteq {"interrupted", "range"}

Init ==
  /\ today = 1
  /\ s3 = {} /\ sent = {} /\ index = {}
  /\ crawl = Idle /\ refresh = Idle
  /\ faults = 0
  /\ excuses = {}

(* The newest day in the index, the threshold date when there is none.      *)
Newest(d) == d \in index \cup {1} /\ \A e \in index : e <= d

NextDay ==
  /\ today < LastDay
  /\ today' = today + 1
  /\ UNCHANGED <<s3, sent, index, crawl, refresh, faults, excuses>>

(* The workers index a document that was sent.                              *)
Index(d) ==
  /\ d \in sent \ index
  /\ index' = index \cup {d}
  /\ UNCHANGED <<today, s3, sent, crawl, refresh, faults, excuses>>

(* _crawl_documents_for_data_source: where to start is read first, ...      *)
CrawlStart ==
  /\ crawl = Idle
  /\ \E d \in Days : Newest(d) /\ crawl' = [at |-> "store", day |-> d]
  /\ UNCHANGED <<today, s3, sent, index, refresh, faults, excuses>>

(* ... S3 is brought up to date, day by day, ...                            *)
CrawlStore ==
  /\ crawl.at = "store"
  /\ \/ s3 = 1 .. today /\ crawl' = [crawl EXCEPT !.at = "send"] /\ UNCHANGED s3
     \/ \E d \in (1 .. today) \ s3 : /\ 1 .. (d - 1) \subseteq s3
                                     /\ s3' = s3 \cup {d} /\ UNCHANGED crawl
  /\ UNCHANGED <<today, sent, index, refresh, faults, excuses>>

(* ... and the days are sent, the oldest first.                             *)
CrawlSend ==
  /\ crawl.at = "send"
  /\ IF crawl.day \in s3
     THEN sent' = sent \cup {crawl.day} /\ crawl' = [crawl EXCEPT !.day = @ + 1]
     ELSE crawl' = Idle /\ UNCHANGED sent
  /\ UNCHANGED <<today, s3, index, refresh, faults, excuses>>

(* force_refresh_tickets, for the days first .. last.  A day of S3 that was *)
(* never sent and is older than all of them is the operator's own risk.     *)
RefreshStart(first, last) ==
  /\ refresh = Idle
  /\ first <= last /\ last <= today
  /\ refresh' = [at |-> "send", first |-> first, day |-> last]
  /\ excuses' = excuses \cup (IF \E d \in 1 .. (first - 1) : d \notin sent THEN {"range"} ELSE {})
  /\ UNCHANGED <<today, s3, sent, index, crawl, faults>>

(* A mistake: days without files are sent.                                  *)
RefreshSend_AnyDay ==
  /\ refresh.at = "send"
  /\ sent' = sent \cup {refresh.day}
  /\ refresh' = IF refresh.day = refresh.first THEN Idle ELSE [refresh EXCEPT !.day = @ - 1]
  /\ UNCHANGED <<today, s3, index, crawl, faults, excuses>>

(* The next older day; a day without files is passed over with a warning.   *)
RefreshSend ==
  /\ refresh.at = "send"
  /\ sent' = sent \cup ({refresh.day} \cap s3)
  /\ refresh' = IF refresh.day = refresh.first THEN Idle ELSE [refresh EXCEPT !.day = @ - 1]
  /\ UNCHANGED <<today, s3, index, crawl, faults, excuses>>

(* An exception, or the task is stopped.                                    *)
Interrupted ==
  /\ faults < MaxFaults
  /\ faults' = faults + 1
  /\ \/ crawl # Idle /\ crawl' = Idle /\ UNCHANGED <<refresh, excuses>>
     \/ /\ refresh # Idle /\ refresh' = Idle /\ UNCHANGED crawl
        /\ excuses' = excuses \cup {"interrupted"}
  /\ UNCHANGED <<today, s3, sent, index>>

Crawl == CrawlStart \/ CrawlStore \/ CrawlSend

Next ==
  \/ Crawl \/ RefreshSend \/ Interrupted \/ NextDay
  \/ \E d \in Days : Index(d)
  \/ \E first, last \in Days : RefreshStart(first, last)

-----------------------------------------------------------------------------
(* A crawl never starts after a day that is in S3 and was not sent, and     *)
(* neither does a refresh in its place cause one to, unless a refresh is    *)
(* under way, was interrupted, or began after such a day                    *)
(* (force_refresh_tickets, _crawl_documents_for_data_source).               *)
NothingPassedOver ==
  refresh = Idle /\ excuses = {} => \A d \in s3, e \in index : d < e => d \in sent

(* In the end every file is sent, with the same reservations.               *)
AllStored == excuses # {} \/ s3 = sent
=============================================================================
