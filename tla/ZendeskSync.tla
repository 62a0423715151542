------------------------------ MODULE ZendeskSync ------------------------------
(***************************************************************************)
(* ZendeskManager.update_s3_if_necessary (manager/zendesk_manager.py): an  *)
(* incremental export hands out tickets in the order of their last update, *)
(* page after page, and the checkpoint moves to the end of a page once the *)
(* page is stored.  New tickets of localization contractors are filed in   *)
(* Jira on the way (create_jira_ticket).                                   *)
(***************************************************************************)
EXTENDS Naturals, FiniteSets

CONSTANTS
  Documents,    \* tickets; numbers, for the order of equal times
  Contractors,  \* tickets by contractors, about a platform that has a project
  Summary,      \* [Documents -> subject], of which "" stands for none
  Recent,       \* a ticket updated less than this after its creation is new
  PageSize,     \* tickets in a page of the export
  LastTime,     \* bound on the clock
  MaxFaults     \* bound on failing requests and crashes

Assumptions ==
  /\ Documents \subseteq Nat /\ IsFiniteSet(Documents)
  /\ Contractors \subseteq Documents
  /\ PageSize \in Nat \ {0} /\ LastTime \in Nat /\ MaxFaults \in Nat /\ Recent \in Nat

VARIABLES
  remote,      \* Zendesk: when each ticket was created and last updated
  clock,       \* the time
  s3,          \* [Documents -> the update that is stored]
  checkpoint,  \* contents of Zendesk/checkpoint_data.txt
  run,         \* the export under way
  faults,
  excuses,     \* history: why the export may be stuck
  issues       \* Jira: number of issues with a summary

vars == <<remote, clock, s3, checkpoint, run, faults, excuses, issues>>

Idle == [pc |-> "idle"]
Times == 0 .. LastTime
Updates == Documents \X Times   \* a ticket and the time of its update

(* since is the start_time of next_url, page what is left of the answer,    *)
(* ends its end_time; asked counts the requests   *)
(* up to five, repeats the ones of this URL in a row.                       *)
Exports ==
  [pc : {"request", "file", "store", "page"}, since : Times,
   page : SUBSET Updates, ends : Times, last : BOOLEAN,
   asked : 0 .. 5, repeats : 0 .. 5]

TypeOK ==
  /\ remote \in [Documents -> [created : Times, updated : Times]]
  /\ clock \in Times
  /\ s3 \in [Documents -> Times]
  /\ checkpoint \in Times
  /\ run = Idle \/ run \in Exports
  /\ faults \in 0 .. MaxFaults
  /\ excuses \subseteq {"stuck"}
  /\ issues \in [{Summary[t] : t \in Documents} -> Nat]

Init ==
  /\ remote = [t \in Documents |-> [created |-> 0, updated |-> 0]]
  /\ clock = 0
  /\ s3 = [t \in Documents |-> 0]
  /\ checkpoint = 0
  /\ run = Idle
  /\ faults = 0
  /\ excuses = {}
  /\ issues = [s \in {Summary[t] : t \in Documents} |-> 0]

-----------------------------------------------------------------------------
(* A page of the export: the first tickets from start_time on, that time    *)
(* included.                                                                *)
Earlier(u, v) == u[2] < v[2] \/ (u[2] = v[2] /\ u[1] < v[1])
Found(since) ==
  {u \in Updates : remote[u[1]].updated = u[2] /\ u[2] # 0 /\ u[2] >= since}
Place(u, since) == Cardinality({v \in Found(since) : v = u \/ Earlier(v, u)})
Export(since) == {u \in Found(since) : Place(u, since) <= PageSize}

(* A ticket is written or updated.                                          *)
Update(t) ==
  \E now \in {clock, clock + 1} \cap (1 .. LastTime) :
    /\ remote[t].updated # now
    /\ clock' = now
    /\ remote' = [remote EXCEPT ![t] = [created |-> IF @.created = 0 THEN now ELSE @.created,
                                        updated |-> now]]
    /\ UNCHANGED <<s3, checkpoint, run, faults, excuses, issues>>

Start ==
  /\ run = Idle
  /\ run' = [pc |-> "request", since |-> checkpoint, page |-> {}, ends |-> checkpoint,
             last |-> FALSE, asked |-> 0, repeats |-> 0]
  /\ UNCHANGED <<remote, clock, s3, checkpoint, faults, excuses, issues>>

(* This would be the fifth URL in a row that is the same, after five or     *)
(* more.                                                                    *)
SameUrl == run.asked = 5 /\ run.repeats >= 4

(* One request of the loop.                                                 *)
Request ==
  /\ run.pc = "request" /\ ~SameUrl
  /\ LET page == Export(run.since)
     IN \E ends \in Times :
          /\ \/ page = {} /\ ends = run.ends
             \/ \E u \in page : u[2] = ends /\ \A v \in page : v[2] <= ends
          /\ run' = [run EXCEPT !.pc = IF page = {} THEN "page" ELSE "file",
                                !.page = page, !.ends = ends,
                                !.last = Cardinality(page) < PageSize,
                                !.asked = IF @ < 5 THEN @ + 1 ELSE @,
                                !.repeats = IF @ < 5 THEN @ + 1 ELSE @]
  /\ UNCHANGED <<remote, clock, s3, checkpoint, faults, excuses, issues>>

(* The loop ends: a whole page of tickets has one time.                     *)
GiveUp ==
  /\ run.pc = "request" /\ SameUrl
  /\ run' = Idle
  /\ excuses' = excuses \cup {"stuck"}
  /\ UNCHANGED <<remote, clock, s3, checkpoint, faults, issues>>

(* _check_date_repeat, of the ticket as the page has it.                    *)
IsNew(ticket) == ticket[2] < remote[ticket[1]].created + Recent

(* A mistake: Jira is not asked for the summary.                            *)
NotFiled_Unchecked(t) == Summary[t] # ""

(* check_duplicates_jira: nothing has that summary, and there is one.       *)
NotFiled(t) == Summary[t] # "" /\ issues[Summary[t]] = 0

(* The first of the tickets of the page that are left.                      *)
IsNext(u) == u \in run.page /\ \A v \in run.page : v = u \/ Earlier(u, v)

(* create_jira_ticket; what fails in it, or in attaching the files to the   *)
(* issue, is logged and the ticket goes on to S3.                           *)
FileIssue(u) ==
  /\ run.pc = "file" /\ IsNext(u)
  /\ LET due == u[1] \in Contractors /\ IsNew(u) /\ NotFiled(u[1])
     IN \/ /\ due
           /\ issues' = [issues EXCEPT ![Summary[u[1]]] = @ + 1]
           /\ UNCHANGED faults
        \/ /\ due /\ faults < MaxFaults
           /\ faults' = faults + 1
           /\ UNCHANGED issues
        \/ /\ ~due
           /\ UNCHANGED <<issues, faults>>
  /\ run' = [run EXCEPT !.pc = "store"]
  /\ UNCHANGED <<remote, clock, s3, checkpoint, excuses>>

(* _store_document_to_s3: the object of a ticket is overwritten.            *)
StoreTicket(u) ==
  /\ run.pc = "store" /\ IsNext(u)
  /\ s3' = [s3 EXCEPT ![u[1]] = u[2]]
  /\ run' = [run EXCEPT !.page = @ \ {u},
                        !.pc = IF run.page = {u} THEN "page" ELSE "file"]
  /\ UNCHANGED <<remote, clock, checkpoint, faults, excuses, issues>>

(* The checkpoint moves to the end of the page, and the loop goes on.       *)
EndPage ==
  /\ run.pc = "page"
  /\ checkpoint' = run.ends
  /\ run' = IF run.last THEN Idle
            ELSE [run EXCEPT !.pc = "request", !.since = run.ends,
                             !.repeats = IF run.since = run.ends THEN @ ELSE 0]
  /\ UNCHANGED <<remote, clock, s3, faults, excuses, issues>>

(* A request for the export or for the comments of a ticket raises, or S3   *)
(* does, or the task is stopped.                                            *)
Interrupted ==
  /\ run # Idle
  /\ faults < MaxFaults
  /\ faults' = faults + 1
  /\ run' = Idle
  /\ UNCHANGED <<remote, clock, s3, checkpoint, excuses, issues>>

Step ==
  \/ Start \/ Request \/ GiveUp \/ EndPage
  \/ \E u \in Updates : FileIssue(u) \/ StoreTicket(u)

Next == Step \/ Interrupted \/ \E t \in Documents : Update(t)

-----------------------------------------------------------------------------
(* What was updated before the checkpoint is in S3 as it was updated, with  *)
(* nothing excepted: the end of a page is asked for again, so equal times   *)
(* and crashes do no harm (update_s3_if_necessary).                         *)
NothingPassedOver ==
  \A t \in Documents :
    remote[t].updated \in 1 .. (checkpoint - 1) => s3[t] = remote[t].updated

(* A ticket that is read again, after a crash or at the end of a page, is   *)
(* not filed again: Jira gets one issue of a summary (create_jira_ticket).  *)
FiledOnce == \A s \in DOMAIN issues : issues[s] <= 1

(* Once the updates stop, each ticket's last one reaches S3, unless a whole *)
(* page of tickets has one time.                                            *)
AllStored ==
  excuses # {} \/ \A t \in Documents : s3[t] = remote[t].updated
=============================================================================
