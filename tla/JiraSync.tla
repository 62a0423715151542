------------------------------- MODULE JiraSync -------------------------------
(***************************************************************************)
(* JiraManager.update_s3_if_necessary (manager/jira_manager.py): bugs are  *)
(* copied to S3 in the order of their last update.  The search takes its   *)
(* pages by offset (JiraDAL.paginate_search_issues), while people go on    *)
(* updating issues; the checkpoint is the time of the last stored update.  *)
(*                                                                         *)
(* An issue is known by the time of its last update, 0 before it is filed. *)
(***************************************************************************)
EXTENDS Naturals, FiniteSets

CONSTANTS
  Documents,   \* issues; numbers, for the order Jira gives to equal times
  PageSize,    \* max_results_per_page
  LastTime,    \* bound on the clock
  MaxFaults    \* bound on failing requests and crashes

Assumptions ==
  /\ Documents \subseteq Nat /\ IsFiniteSet(Documents)
  /\ PageSize \in Nat \ {0} /\ LastTime \in Nat /\ MaxFaults \in Nat

VARIABLES
  remote,      \* Jira: the time of each issue's last update
  clock,       \* the time
  s3,          \* pairs <<issue, time of the update that is stored>>
  checkpoint,  \* contents of Jira/checkpoint_data.txt
  run,         \* the session under way
  faults,
  excuses      \* history: why an issue may have been passed over

vars == <<remote, clock, s3, checkpoint, run, faults, excuses>>

Idle == [pc |-> "idle"]

Updates == Documents \X (0 .. LastTime)

Sessions ==
  [pc : {"search", "store"}, since : Nat, at : Nat,
   total : Nat, page : SUBSET Updates, millis : Nat]

(* The document that is stored under Jira/<date>/<id> is the whole state:  *)
(* nothing is read back but its existence.                                 *)
TypeOK ==
  /\ remote \in [Documents -> 0 .. LastTime]
  /\ clock \in 0 .. LastTime
  /\ s3 \subseteq Updates
  /\ checkpoint \in 0 .. LastTime
  /\ run = Idle \/ run \in Sessions
  /\ faults \in 0 .. MaxFaults
  /\ excuses \subseteq {"moved", "tie"}

Init ==
  /\ remote = [i \in Documents |-> 0]
  /\ clock = 0
  /\ s3 = {}
  /\ checkpoint = 0
  /\ run = Idle
  /\ faults = 0
  /\ excuses = {}

-----------------------------------------------------------------------------
(* What the search finds, and its order: "updated > since ORDER BY updated  *)
(* asc".  A page holds the updates at the places after offset at.           *)
Found(since) == {u \in Updates : remote[u[1]] = u[2] /\ u[2] > since}
Earlier(u, v) == u[2] < v[2] \/ (u[2] = v[2] /\ u[1] < v[1])
Place(u, since) == Cardinality({v \in Found(since) : v = u \/ Earlier(v, u)})
Page(since, at) ==
  {u \in Found(since) : at < Place(u, since) /\ Place(u, since) <= at + PageSize}

(* An issue is filed or updated.  Two updates may have the same time.       *)
Update(i) ==
  \E t \in {clock, clock + 1} \cap (1 .. LastTime) :
    /\ remote[i] # t
    /\ clock' = t
    /\ remote' = [remote EXCEPT ![i] = t]
    /\ excuses' =
         excuses
         \cup (IF t = clock THEN {"tie"} ELSE {})
         \cup (IF /\ run # Idle
                  /\ \E u \in Found(run.since) : u[1] = i /\ Place(u, run.since) <= run.at
               THEN {"moved"} ELSE {})
    /\ UNCHANGED <<s3, checkpoint, run, faults>>

Start ==
  /\ run = Idle
  /\ run' = [pc |-> "search", since |-> checkpoint, at |-> 0, total |-> 0,
             page |-> {}, millis |-> checkpoint]
  /\ UNCHANGED <<remote, clock, s3, checkpoint, faults, excuses>>

(* One request of paginate_search_issues.  total is taken from the first    *)
(* page and an empty page ends the search as well.                          *)
FetchPage ==
  /\ run.pc = "search"
  /\ run.at = 0 \/ run.at < run.total
  /\ LET page == Page(run.since, run.at)
     IN run' = IF page = {} THEN Idle
               ELSE [run EXCEPT !.pc = "store", !.page = page,
                                !.at = run.at + Cardinality(page),
                                !.total = IF run.at = 0 THEN Cardinality(Found(run.since)) ELSE @]
  /\ UNCHANGED <<remote, clock, s3, checkpoint, faults, excuses>>

SearchDone ==
  /\ run.pc = "search"
  /\ run.at > 0 /\ run.at >= run.total
  /\ run' = Idle
  /\ UNCHANGED <<remote, clock, s3, checkpoint, faults, excuses>>

(* The first of the issues of the page that are left, and the page after it.*)
IsNext(u) == u \in run.page /\ \A v \in run.page : v = u \/ Earlier(u, v)
Onward(u, millis) ==
  run' = [run EXCEPT !.millis = millis, !.page = @ \ {u},
                     !.pc = IF run.page = {u} THEN "search" ELSE @]

(* Upload of the next issue of the page; one that is there already and has  *)
(* no later time than the checkpoint is written again, to no effect.        *)
StoreIssue(u) ==
  /\ run.pc = "store" /\ IsNext(u)
  /\ u \notin s3 \/ u[2] <= run.millis
  /\ s3' = s3 \cup {u}
  /\ IF u[2] > run.millis THEN UNCHANGED run ELSE Onward(u, run.millis)
  /\ UNCHANGED <<remote, clock, checkpoint, faults, excuses>>

(* A mistake: the checkpoint moves before the issue is stored.              *)
MoveCheckpoint_BeforeStoring(u) ==
  /\ run.pc = "store" /\ IsNext(u)
  /\ u[2] > run.millis
  /\ checkpoint' = u[2] /\ Onward(u, u[2])
  /\ UNCHANGED <<remote, clock, s3, faults, excuses>>

(* Upload of the checkpoint, after the upload of the issue it is read from. *)
MoveCheckpoint(u) ==
  /\ run.pc = "store" /\ IsNext(u)
  /\ u \in s3
  /\ u[2] > run.millis
  /\ checkpoint' = u[2] /\ Onward(u, u[2])
  /\ UNCHANGED <<remote, clock, s3, faults, excuses>>

(* A request to Jira or S3 raises, or the task is stopped.                  *)
Interrupted ==
  /\ run # Idle
  /\ faults < MaxFaults
  /\ faults' = faults + 1
  /\ run' = Idle
  /\ UNCHANGED <<remote, clock, s3, checkpoint, excuses>>

Step ==
  \/ Start \/ FetchPage \/ SearchDone
  \/ \E u \in Updates : StoreIssue(u) \/ MoveCheckpoint(u)

Next == Step \/ Interrupted \/ \E i \in Documents : Update(i)

-----------------------------------------------------------------------------
(* What was updated at or before the checkpoint will not be asked for       *)
(* again: it is in S3, unless issues moved between the pages of a search    *)
(* or two updates have the same time (update_s3_if_necessary).              *)
NothingPassedOver ==
  excuses = {} =>
    \A i \in Documents :
      remote[i] \in 1 .. checkpoint => <<i, remote[i]>> \in s3

(* Once the updates stop, each issue's last one reaches S3, with the same   *)
(* reservations, however often the copying was interrupted.                 *)
AllStored ==
  excuses # {} \/ \A i \in Documents : remote[i] = 0 \/ <<i, remote[i]>> \in s3
=============================================================================
