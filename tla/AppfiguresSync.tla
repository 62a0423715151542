---------------------------- MODULE AppfiguresSync ----------------------------
(***************************************************************************)
(* AppfiguresManager.update_s3_if_necessary (manager/appfigures_manager.py)*)
(* : app reviews are copied day by day.  Within a day the number of files  *)
(* in S3 says where to go on, because the service lists the reviews of a   *)
(* day in a fixed order; the checkpoint is the day of the newest stored    *)
(* review, and the next update starts with that day.                       *)
(*                                                                         *)
(* Reviews are numbers in that order; reviews appear in it at the end.     *)
(***************************************************************************)
EXTENDS Integers, FiniteSets

CONSTANTS
  LastDay,     \* bound on the calendar
  PageSize,    \* _DOCUMENTS_PER_PAGE
  MaxDocs,     \* _MAX_DOCS_PER_REQUEST
  MaxReviews,  \* bound on the reviews of a day
  MaxFaults    \* bound on failing requests and crashes

Assumptions ==
  /\ LastDay \in Nat \ {0} /\ PageSize \in Nat \ {0}
  /\ MaxDocs \in Nat /\ MaxReviews \in Nat /\ MaxFaults \in Nat

VARIABLES
  remote,      \* for each day, how many reviews were written and which are gone
  clock,       \* today
  s3,          \* for each day, the reviews stored under Appfigures/<day>
  checkpoint,  \* contents of Appfigures/checkpoint_data.txt
  run,         \* the update under way
  faults,
  excuses      \* history: why a review may have been passed over

vars == <<remote, clock, s3, checkpoint, run, faults, excuses>>

Days == 1 .. LastDay
Idle == [pc |-> "idle"]

(* newest is checkpoint_date, day the date to fetch; page what is left of   *)
(* the page at hand, number and pages as in the last answer.                *)
Updating ==
  [pc : {"day", "store"}, newest : Days, day : Days, until : Days,
   page : SUBSET (1 .. MaxReviews), number : Nat, pages : Nat]

TypeOK ==
  /\ remote \in [Days -> [written : 0 .. MaxReviews, gone : SUBSET (1 .. MaxReviews)]]
  /\ clock \in Days
  /\ s3 \in [Days -> SUBSET (1 .. MaxReviews)]
  /\ checkpoint \in 1 .. clock
  /\ run = Idle \/ run \in Updating
  /\ faults \in 0 .. MaxFaults
  /\ excuses \subseteq {"failed", "gone", "late", "limit"}

Init ==
  /\ remote = [d \in Days |-> [written |-> 0, gone |-> {}]]
  /\ clock = 1
  /\ s3 = [d \in Days |-> {}]
  /\ checkpoint = 1
  /\ run = Idle
  /\ faults = 0
  /\ excuses = {}

-----------------------------------------------------------------------------
Listed(d) == (1 .. remote[d].written) \ remote[d].gone

Total(d) == Cardinality(Listed(d))
PageCount(d) == (Total(d) + PageSize - 1) \div PageSize

(* The reviews at the places first .. last of the listing of a day.         *)
Place(d, r) == Cardinality({k \in Listed(d) : k <= r})
Places(d, first, last) == {r \in Listed(d) : Place(d, r) \in first .. last}

Page(d, number) == Places(d, (number - 1) * PageSize + 1, number * PageSize)

NextDay ==
  /\ clock < LastDay
  /\ clock' = clock + 1
  /\ UNCHANGED <<remote, s3, checkpoint, run, faults, excuses>>

(* A review is written, or reaches the service, dated back, on a later day. *)
Review(d) ==
  /\ d <= clock
  /\ remote[d].written < MaxReviews
  /\ remote' = [remote EXCEPT ![d].written = @ + 1]
  /\ excuses' = excuses \cup (IF d < clock THEN {"late"} ELSE {})
  /\ UNCHANGED <<clock, s3, checkpoint, run, faults>>

Retract(d, r) ==
  /\ r \in Listed(d)
  /\ remote' = [remote EXCEPT ![d].gone = @ \cup {r}]
  /\ excuses' = excuses \cup {"gone"}
  /\ UNCHANGED <<clock, s3, checkpoint, run, faults>>

Start ==
  /\ run = Idle
  /\ run' = [pc |-> "day", newest |-> checkpoint, day |-> checkpoint, until |-> clock,
             page |-> {}, number |-> 0, pages |-> 0]
  /\ UNCHANGED <<remote, clock, s3, checkpoint, faults, excuses>>

(* A mistake: the loop ends a day too early.                                *)
Leave_OneEarly(u) == IF u.day + 1 >= u.until THEN Idle
            ELSE [u EXCEPT !.pc = "day", !.day = @ + 1, !.page = {},
                           !.number = 0, !.pages = 0]

(* update_s3_for_date is left: on with the next date of the loop, if any.   *)
Leave(u) == IF u.day = u.until THEN Idle
            ELSE [u EXCEPT !.pc = "day", !.day = @ + 1, !.page = {},
                           !.number = 0, !.pages = 0]

(* After an answer: its reviews, or the next page, or the next date.        *)
Read(u) == IF u.page # {} \/ u.number # u.pages
           THEN [u EXCEPT !.pc = "store"] ELSE Leave(u)

Stored(d) == Cardinality(s3[d])

(* A mistake: the first review that is missing is left out.                 *)
FirstPage_SkipsOne ==
  /\ run.pc = "day"
  /\ LET d == run.day
         start == 1 + Stored(d) \div PageSize
     IN run' = IF Total(d) = Stored(d) THEN Leave(run)
               ELSE Read([run EXCEPT !.page = Places(d, Stored(d) + 2, start * PageSize),
                                     !.number = start, !.pages = PageCount(d)])
  /\ UNCHANGED <<remote, clock, s3, checkpoint, faults, excuses>>

(* The first request of a day: the page the stored reviews end in.          *)
FirstPage ==
  /\ run.pc = "day"
  /\ LET d == run.day
         start == 1 + Stored(d) \div PageSize
     IN run' = IF Total(d) = Stored(d) THEN Leave(run)
               ELSE Read([run EXCEPT !.page = Places(d, Stored(d) + 1, start * PageSize),
                                     !.number = start, !.pages = PageCount(d)])
  /\ UNCHANGED <<remote, clock, s3, checkpoint, faults, excuses>>

(* _store_document_to_s3: the next review, then the checkpoint if newer.    *)
StoreReview(r) ==
  /\ run.pc = "store"
  /\ r \in run.page /\ \A k \in run.page : r <= k
  /\ s3' = [s3 EXCEPT ![run.day] = @ \cup {r}]
  /\ LET u == [run EXCEPT !.page = @ \ {r}]
     IN IF run.day > run.newest
        THEN checkpoint' = run.day /\ run' = Read([u EXCEPT !.newest = run.day])
        ELSE UNCHANGED checkpoint /\ run' = Read(u)
  /\ UNCHANGED <<remote, clock, faults, excuses>>

NextPage ==
  /\ run.pc = "store" /\ run.page = {}
  /\ (run.number + 1) * PageSize <= MaxDocs
  /\ run' = Read([run EXCEPT !.page = Page(run.day, run.number + 1),
                             !.number = @ + 1, !.pages = PageCount(run.day)])
  /\ UNCHANGED <<remote, clock, s3, checkpoint, faults, excuses>>

(* The service returns no more than _MAX_DOCS_PER_REQUEST reviews of a day. *)
LimitReached ==
  /\ run.pc = "store" /\ run.page = {}
  /\ (run.number + 1) * PageSize > MaxDocs
  /\ run' = Leave(run)
  /\ excuses' = excuses \cup {"limit"}
  /\ UNCHANGED <<remote, clock, s3, checkpoint, faults>>

(* A request to the service fails: the rest of the day is given up, and the *)
(* update goes on with the next one.                                        *)
RequestFails ==
  /\ run.pc = "day" \/ (run.pc = "store" /\ run.page = {})
  /\ faults < MaxFaults
  /\ faults' = faults + 1
  /\ run' = Leave(run)
  /\ excuses' = excuses \cup {"failed"}
  /\ UNCHANGED <<remote, clock, s3, checkpoint>>

(* An upload raises, or the task is stopped.                                *)
Interrupted ==
  /\ run # Idle
  /\ faults < MaxFaults
  /\ faults' = faults + 1
  /\ run' = Idle
  /\ UNCHANGED <<remote, clock, s3, checkpoint, excuses>>

Step ==
  Start \/ FirstPage \/ NextPage \/ LimitReached \/ \E r \in 1 .. MaxReviews : StoreReview(r)

Next == \/ Step \/ RequestFails \/ Interrupted \/ NextDay
        \/ \E d \in Days : Review(d) \/ \E r \in 1 .. MaxReviews : Retract(d, r)

-----------------------------------------------------------------------------
(* A day before the checkpoint is not asked for again: its reviews are in   *)
(* S3, unless one was late or retracted, a request of its day failed or the *)
(* day had more reviews than the service returns (update_s3_for_date).      *)
NothingPassedOver ==
  excuses = {} => \A d \in 1 .. (checkpoint - 1) : Listed(d) \subseteq s3[d]

(* Resuming by the number of files skips nothing within a day either: what  *)
(* is stored is the beginning of the listing, after a crash as before it.   *)
StoredIsPrefix ==
  excuses \subseteq {"late", "failed", "limit"} =>
    \A d \in Days : s3[d] = 1 .. Stored(d)

(* Once people stop writing, each review reaches S3, with the reservations. *)
AllStored ==
  excuses # {} \/ \A d \in Days : Listed(d) \subseteq s3[d]
=============================================================================
