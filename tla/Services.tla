------------------------------- MODULE Services -------------------------------
(***************************************************************************)
(* The services that share no state with each other: a behaviour is a      *)
(* behaviour of one of them, chosen at the start.  The variables of the    *)
(* others stay empty.                                                      *)
(***************************************************************************)
EXTENDS Naturals

CONSTANTS
  TypeChannel, FeatureChannel, AreaChannel, Labelled, DesignQuality,
  Inputs, MaxReportFaults,                                     \* bug reports
  Issues, Workloads, Reported, Uploaded, MaxWorkers, Edited,
  Batches,                                                     \* their tasks
  Requests, Spike, Testers, LastMailDay,                       \* mails to beta testers
  Titles, Window, Cutoff, Kept, LastDay, MaxRuns,              \* quality reports
  Searches, Matching, MaxExpiries,                             \* GPT search
  Documents, BatchSize, LastVersion,                           \* embeddings
  MaxFaults                                                    \* of all but bug reports

VARIABLES
  service,
  report, pc, plan, slack, streams, attached, tasks, known, answer,   \* bug reports
  requests, queue, running, s3, loki,                                 \* their tasks
  calls, marked, sentTo, excuses,                                     \* mails
  datasets, reports, latest,                                          \* quality reports
  threads, waits, cache,                                              \* GPT search
  remote, fresh, worker, sync, overlaps,                              \* embeddings
  jira, history, mails, today, record, index, job, faults             \* of two or more

ReportVars == <<report, pc, plan, slack, streams, attached, tasks, known, answer>>
TaskVars == <<requests, queue, running, s3, loki>>
MailVars == <<calls, marked, sentTo, excuses>>
QualityVars == <<datasets, reports, latest>>
GptVars == <<threads, waits, cache>>
VectorVars == <<remote, fresh, worker, sync, overlaps>>
SharedVars == <<jira, history, mails, today, record, index, job, faults>>

vars == <<service, ReportVars, TaskVars, MailVars, QualityVars, GptVars, VectorVars, SharedVars>>

Report == INSTANCE ShakiraReport WITH MaxFaults <- MaxReportFaults
Tasks == INSTANCE ShakiraTasks
Mails == INSTANCE BetaEmails WITH LastDay <- LastMailDay
Quality == INSTANCE QualityReports
Gpt == INSTANCE GptSearch WITH Documents <- Matching
Vectors == INSTANCE Embeddings

ASSUME ConstantsAssumption ==
  /\ Report!Assumptions /\ Inputs \subseteq Report!Reports
  /\ Tasks!Assumptions /\ Mails!Assumptions /\ Quality!Assumptions /\ Gpt!Assumptions
  /\ Vectors!Assumptions

-----------------------------------------------------------------------------
NoReport == /\ report = "" /\ pc = "" /\ plan = "" /\ slack = "" /\ streams = ""
            /\ attached = "" /\ tasks = "" /\ known = "" /\ answer = ""
NoTasks == requests = "" /\ queue = "" /\ running = "" /\ s3 = "" /\ loki = ""
NoMails == calls = "" /\ marked = "" /\ sentTo = "" /\ excuses = ""
NoQuality == datasets = "" /\ reports = "" /\ latest = ""
NoGpt == threads = "" /\ waits = "" /\ cache = ""
NoVectors == remote = "" /\ fresh = "" /\ worker = "" /\ sync = "" /\ overlaps = ""

Init ==
  \/ /\ service = "report" /\ Report!InitFrom(Inputs)
     /\ NoTasks /\ NoMails /\ NoQuality /\ NoGpt /\ NoVectors
     /\ history = "" /\ mails = "" /\ today = "" /\ record = "" /\ index = "" /\ job = ""
  \/ /\ service = "tasks" /\ Tasks!Init
     /\ NoReport /\ NoMails /\ NoQuality /\ NoGpt /\ NoVectors
     /\ mails = "" /\ today = "" /\ record = "" /\ index = "" /\ job = "" /\ faults = ""
  \/ /\ service = "mails" /\ Mails!Init
     /\ NoReport /\ NoTasks /\ NoQuality /\ NoGpt /\ NoVectors
     /\ jira = "" /\ history = "" /\ record = "" /\ index = "" /\ job = ""
  \/ /\ service = "quality" /\ Quality!Init
     /\ NoReport /\ NoTasks /\ NoMails /\ NoGpt /\ NoVectors
     /\ jira = "" /\ index = "" /\ faults = ""
  \/ /\ service = "gpt" /\ Gpt!Init
     /\ NoReport /\ NoTasks /\ NoMails /\ NoQuality /\ NoVectors
     /\ jira = "" /\ history = "" /\ mails = "" /\ today = "" /\ job = "" /\ faults = ""
  \/ /\ service = "vectors" /\ Vectors!Init
     /\ NoReport /\ NoTasks /\ NoMails /\ NoQuality /\ NoGpt
     /\ jira = "" /\ history = "" /\ mails = "" /\ today = "" /\ record = ""

(* What the steps of a service leave alone.                                 *)
BesideReport == <<service, TaskVars, MailVars, QualityVars, GptVars, VectorVars,
                  history, mails, today, record, index, job>>
BesideTasks == <<service, ReportVars, MailVars, QualityVars, GptVars, VectorVars,
                 mails, today, record, index, job, faults>>
BesideMails == <<service, ReportVars, TaskVars, QualityVars, GptVars, VectorVars,
                 jira, history, record, index, job>>
BesideQuality == <<service, ReportVars, TaskVars, MailVars, GptVars, VectorVars,
                   jira, index, faults>>
BesideGpt == <<service, ReportVars, TaskVars, MailVars, QualityVars, VectorVars,
               jira, history, mails, today, job, faults>>
BesideVectors == <<service, ReportVars, TaskVars, MailVars, QualityVars, GptVars,
                   jira, history, mails, today, record>>

NextReport == service = "report" /\ Report!Next /\ UNCHANGED BesideReport
NextTasks == service = "tasks" /\ Tasks!Next /\ UNCHANGED BesideTasks
NextMails == service = "mails" /\ Mails!Next /\ UNCHANGED BesideMails
NextQuality == service = "quality" /\ Quality!Next /\ UNCHANGED BesideQuality
NextGpt == service = "gpt" /\ Gpt!Next /\ UNCHANGED BesideGpt
NextVectors == service = "vectors" /\ Vectors!Next /\ UNCHANGED BesideVectors

Next == NextReport \/ NextTasks \/ NextMails \/ NextQuality \/ NextGpt \/ NextVectors

Spec == Init /\ [][Next]_vars

(* The server goes on with what it has begun (not with what people do); the *)
(* jobs are started again and again by the schedule and go on; the worker   *)
(* goes on and hours pass.                                                  *)
Serving ==
  \/ service = "tasks" /\ Tasks!Server /\ UNCHANGED BesideTasks
  \/ service = "gpt" /\ Gpt!Server /\ UNCHANGED BesideGpt
  \/ service = "vectors" /\ Vectors!Job /\ UNCHANGED BesideVectors
Synchronizing == service = "vectors" /\ Vectors!SyncGoesOn /\ UNCHANGED BesideVectors
Indexing == service = "vectors" /\ Vectors!IndexCrawled /\ UNCHANGED BesideVectors
HoursPass ==
  /\ service = "vectors" /\ UNCHANGED BesideVectors
  /\ \E d \in Documents : Vectors!HourPasses(d)
-----------------------------------------------------------------------------
(* Of each service.                                                         *)
TypeOK ==
  CASE service = "report"  -> Report!TypeOK
    [] service = "tasks"   -> Tasks!TypeOK
    [] service = "mails"   -> Mails!TypeOK
    [] service = "quality" -> Quality!TypeOK
    [] service = "gpt"     -> Gpt!TypeOK
    [] service = "vectors" -> Vectors!TypeOK
    [] OTHER               -> TRUE

(* What people are told is true: who is answered with an error finds the    *)
(* report nowhere but in known circumstances, a report type goes where the  *)
(* client was told it would, and the comment on an issue says what happened *)
(* to its priority (report_issue, _set_priority).                           *)
AnswersAreTrue ==
  /\ service = "report" => Report!ErrorMeansNothingKnown /\ Report!ReportTypesTellTheTruth
  /\ service = "tasks" => Tasks!CommentTellsTheTruth

(* A report that was accepted keeps its details, the link to its related    *)
(* issue and its text files, wherever it was posted to                      *)
(* (ShakiraManager.report_issue, upload_artifacts).                         *)
ReportIsWhole ==
  service = "report" =>
    Report!DetailsReachReader /\ Report!RelatedIsLinked /\ Report!TextFilesWhole

(* A task that waits on a thread of the pool never waits for one of its own *)
(* report that is queued behind it (report_issue, _create_ai_summary).      *)
AwaitedTasksRun ==
  /\ service = "tasks" => Tasks!AwaitedTasksRun
  /\ service = "report" => Report!SummaryQueuedLast

(* An edit of the description survives the summary that is written into it  *)
(* unless the two overlap (insert_rich_text_into_description).              *)
EditsSurvive == service = "tasks" => Tasks!EditsSurvive

(* Nobody is mailed twice about a spike or on a day unless requests overlap *)
(* or who was mailed cannot be read, and a number that is answered is true  *)
(* (send_beta_emails, send_issue_fixed_emails).                             *)
OneMail ==
  service = "mails" => Mails!OneMailPerSpike /\ Mails!OneMailPerDay /\ Mails!AnsweredIsSent

(* No score of a period is missing from what is shown of it although every  *)
(* report holds only the last ones (get_quality_scores).                    *)
ScoresComplete == service = "quality" => Quality!ScoresComplete

(* A mailed score stays, and the report that is named as the latest exists, *)
(* wherever a run ended (save_report_data,                                  *)
(* upload_serialized_quality_report).                                       *)
MailedIsSaved == service = "quality" => Quality!MailedIsSaved /\ Quality!LatestExists

(* A failed search does not spoil the next one for the same words, and what *)
(* supports an answer is shown with it (knn_search_cached,                  *)
(* gpt_chat_completion_cached).                                             *)
RetryAnswers == service = "gpt" => Gpt!RetryAnswers /\ Gpt!SupportAmongShown

(* No step puts something older or emptier in the place of what is kept,    *)
(* but in the ways that each module names: a document by an older version   *)
(* (only the worker, handed an old file), an embedding by none (only when   *)
(* the service fails), a priority that a person set (only before the        *)
(* comment that tells of it), an answer of GPT by an error (only once it    *)
(* expired), past scores by fewer (only by a run that could not read them). *)
(* (bulk_index_tickets, _set_priority, gpt_chat_completion_cached,          *)
(* upload_quality_scores_to_s3)                                             *)
NothingIsOverwritten ==
  [][CASE service = "vectors" -> Vectors!KeepsNewest /\ Vectors!KeepsEmbeddings
       [] service = "tasks"   -> Tasks!KeepsPriority
       [] service = "gpt"     -> Gpt!KeepsAnswer
       [] service = "quality" -> Quality!KeepsHistory
       [] OTHER               -> TRUE]_vars
=============================================================================
