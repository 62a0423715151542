-------------------------------- MODULE Sources --------------------------------
(***************************************************************************)
(* The data sources share nothing but the loop that updates them one after *)
(* the other (lib/ticket_crawler.py), so a behaviour is a behaviour of one *)
(* of them, chosen at the start, or one of a refresh beside the crawler.   *)
(***************************************************************************)
EXTENDS Naturals

CONSTANTS
  Documents, Contractors, Summary, Recent,  \* issues and tickets
  PageSize,                                 \* of every service
  LastTime,                                 \* bound on the clock
  MaxSubmissions, LastPost,                 \* posts
  LastDay, MaxDocs, MaxReviews,             \* reviews
  LastFile,                                 \* bound on the days of a refresh
  MaxFaults                                 \* bound on failures and crashes

VARIABLES source, remote, clock, s3, checkpoint, run, faults, excuses, issues

vars == <<source, remote, clock, s3, checkpoint, run, faults, excuses, issues>>

J == INSTANCE JiraSync
R == INSTANCE RedditSync WITH deleted <- clock
A == INSTANCE AppfiguresSync
Z == INSTANCE ZendeskSync
F == INSTANCE ForceRefresh WITH LastDay <- LastFile,
       today <- clock, sent <- remote, index <- checkpoint, crawl <- run, refresh <- issues

ASSUME ConstantsAssumption ==
  J!Assumptions /\ R!Assumptions /\ A!Assumptions /\ Z!Assumptions /\ F!Assumptions

Init ==
  \/ source = "Jira" /\ J!Init /\ issues = <<>>
  \/ source = "Reddit" /\ R!Init /\ issues = <<>>
  \/ source = "Appfigures" /\ A!Init /\ issues = <<>>
  \/ source = "Zendesk" /\ Z!Init
  \/ source = "refresh" /\ F!Init

NextJira == source = "Jira" /\ J!Next /\ UNCHANGED <<source, issues>>
NextReddit == source = "Reddit" /\ R!Next /\ UNCHANGED <<source, issues>>
NextAppfigures == source = "Appfigures" /\ A!Next /\ UNCHANGED <<source, issues>>
NextZendesk == source = "Zendesk" /\ Z!Next /\ UNCHANGED source
NextRefresh == source = "refresh" /\ F!Next /\ UNCHANGED source

Next == NextJira \/ NextReddit \/ NextAppfigures \/ NextZendesk \/ NextRefresh

Spec == Init /\ [][Next]_vars

(* An update starts over for ever and goes on unless it is stopped, as do   *)
(* crawls; a refresh goes on, and the workers index what was sent.          *)
Update ==
  /\ \/ source = "Jira" /\ J!Step /\ UNCHANGED issues
     \/ source = "Reddit" /\ R!Step /\ UNCHANGED issues
     \/ source = "Appfigures" /\ A!Step /\ UNCHANGED issues
     \/ source = "Zendesk" /\ Z!Step
     \/ source = "refresh" /\ F!Crawl
  /\ UNCHANGED source
Refresh == source = "refresh" /\ F!RefreshSend /\ UNCHANGED source
Indexing(d) == source = "refresh" /\ F!Index(d) /\ UNCHANGED source

FairSpec == Spec /\ WF_vars(Update) /\ WF_vars(Refresh) /\ \A d \in 1 .. LastFile : WF_vars(Indexing(d))
-----------------------------------------------------------------------------
(* Of each source.                                                          *)
TypeOK ==
  CASE source = "Jira"       -> J!TypeOK
    [] source = "Reddit"     -> R!TypeOK
    [] source = "Appfigures" -> A!TypeOK
    [] source = "Zendesk"    -> Z!TypeOK
    [] source = "refresh"    -> F!TypeOK

(* No checkpoint moves past something that is not in S3, and no crawl past  *)
(* something that was not sent, in the circumstances that each source names *)
(* (update_s3_if_necessary of each manager, force_refresh_tickets).         *)
NothingPassedOver ==
  CASE source = "Jira"       -> J!NothingPassedOver
    [] source = "Reddit"     -> R!NothingPassedOver
    [] source = "Appfigures" -> A!NothingPassedOver
    [] source = "Zendesk"    -> Z!NothingPassedOver
    [] source = "refresh"    -> F!NothingPassedOver

(* Counting the files of a day is enough to go on where an update stopped   *)
(* (update_s3_for_date of the Appfigures manager).                          *)
StoredIsPrefix == source = "Appfigures" => A!StoredIsPrefix

(* A ticket that is read again is not filed again (create_jira_ticket).     *)
FiledOnce == source = "Zendesk" => Z!FiledOnce

(* In the end everything is in S3 (update_s3_if_necessary of each manager), *)
(* and sent (force_refresh_tickets).                                        *)
EverythingStored ==
  <>[](CASE source = "Jira"       -> J!AllStored
         [] source = "Reddit"     -> R!AllStored
         [] source = "Appfigures" -> A!AllStored
         [] source = "Zendesk"    -> Z!AllStored
         [] source = "refresh"    -> F!AllStored)
=============================================================================
