----------------------------- MODULE ShakiraTasks -----------------------------
(***************************************************************************)
(* What the server does in the background for the issues that bug reports   *)
(* created: a pool of a few threads (jeeves/__init__.py) takes the tasks of *)
(* all requests in the order in which they were submitted.  The task that   *)
(* writes the summary into an issue waits, on a thread of that pool, for    *)
(* the objects that two of the other tasks put into S3; people edit the     *)
(* same issue meanwhile.                                                    *)
(***************************************************************************)
EXTENDS Naturals, FiniteSets, Sequences, Functions

CONSTANTS
  Issues,
  Workloads,   \* the sets of issues that may have been reported at the same time
  Reported,    \* [Issues -> the files sent with the report]
  Uploaded,    \* [Issues -> the files sent to upload_artifacts afterwards]
  MaxWorkers,  \* threads of the pool
  Edited,      \* the issues that people change meanwhile
  Batches,     \* parts in which a log goes to Loki
  MaxFaults    \* bound on failing requests and restarts

Files == {"screenshot", "log"}

Assumptions ==
  /\ Reported \in [Issues -> SUBSET Files] /\ Uploaded \in [Issues -> SUBSET Files]
  /\ Edited \subseteq Issues /\ Workloads \subseteq SUBSET Issues
  /\ MaxWorkers \in Nat \ {0} /\ Batches \in Nat \ {0} /\ MaxFaults \in Nat

VARIABLES
  requests,  \* the tasks that the requests have still to submit, per reported issue
  queue,     \* tasks that wait for a thread: pairs <<issue, kind>>
  running,   \* tasks on a thread, and how far each is
  s3,        \* screenshot_summaries/KEY.txt and log_summaries/KEY.txt
  jira,      \* [Issues -> the issue, as far as the tasks and people change it]
  loki,      \* [Issues -> the parts of the log that were sent]
  history    \* how many faults, whether the server restarted, overlapping edits

vars == <<requests, queue, running, s3, jira, loki, history>>

Kinds == {"screenshot", "logs", "loki", "priority", "summary"}

(* upload_artifacts submits something only when there are files.            *)
FileTasks(files) ==
  IF files = {} THEN <<>>
  ELSE IF "screenshot" \in files THEN <<"screenshot", "logs">> ELSE <<"logs">>

(* A mistake: the files are looked at after the summary.                    *)
ReportTasks_SummaryFirst(i) == <<"priority", "summary">> \o FileTasks(Reported[i])

(* The tasks that report_issue submits, in its order.                       *)
ReportTasks(i) == FileTasks(Reported[i]) \o <<"priority", "summary">>

(* The tasks of upload_artifacts when the route is called: the logs of a    *)
(* phone go to Loki as well.                                                *)
UploadTasks(i) ==
  (IF "log" \in Uploaded[i] THEN <<"loki">> ELSE <<>>) \o FileTasks(Uploaded[i])

(* step is where the task is; has is what the summary has to say so far,    *)
(* read the description that it read; text what the comment will say; sent  *)
(* the parts of a log that were tried.                                      *)
NewTask == [step |-> "start", has |-> {}, read |-> {}, text |-> "failed", sent |-> 0]

Steps == {"start", "comment", "screenshot", "compare", "logs", "read", "write", "push"}

TypeOK ==
  /\ requests \in [DOMAIN requests -> Seq(Kinds)] /\ DOMAIN requests \subseteq Issues
  /\ queue \in Seq(Issues \X Kinds)
  /\ running \in [DOMAIN running ->
                    [step : Steps, has : SUBSET {"duplicates", "logs"}, read : SUBSET {"edit", "ai"},
                     text : {"failed", "set"}, sent : 0 .. Batches]]
  /\ DOMAIN running \subseteq Issues \X Kinds /\ Cardinality(DOMAIN running) <= MaxWorkers
  /\ s3 \in [Issues -> [screenshot : BOOLEAN, logs : {"none", "empty", "text"}]]
  /\ jira \in [Issues -> [description : SUBSET {"edit", "ai"}, priority : {"none", "gpt", "person"},
                          comments : Seq({"failed", "set"})]]
  /\ loki \in [Issues -> [answered : BOOLEAN, tried : 0 .. Batches, over : BOOLEAN]]
  /\ history \in [faults : 0 .. MaxFaults, restarted : BOOLEAN, edited : SUBSET Issues,
                  overlapped : SUBSET Issues, unclear : SUBSET Issues]

Init ==
  /\ \E reported \in Workloads :
       requests = [i \in reported |-> ReportTasks(i) \o UploadTasks(i)]
  /\ queue = <<>>
  /\ running = <<>>
  /\ s3 = [i \in Issues |-> [screenshot |-> FALSE, logs |-> "none"]]
  /\ jira = [i \in Issues |-> [description |-> {}, priority |-> "none", comments |-> <<>>]]
  /\ loki = [i \in Issues |-> [answered |-> FALSE, tried |-> 0, over |-> FALSE]]
  /\ history = [faults |-> 0, restarted |-> FALSE, edited |-> {}, overlapped |-> {},
                unclear |-> {}]

-----------------------------------------------------------------------------
NoFault == UNCHANGED history
Fault == /\ history.faults < MaxFaults
         /\ history' = [history EXCEPT !.faults = @ + 1]

At(t, step) == t \in DOMAIN running /\ running[t].step = step
GoTo(t, step) == running' = [running EXCEPT ![t].step = step]
Ends(t) == running' = Restrict(running, DOMAIN running \ {t})

(* A request submits its next task.                                         *)
Submit(i) ==
  /\ i \in DOMAIN requests /\ requests[i] # <<>>
  /\ queue' = Append(queue, <<i, Head(requests[i])>>)
  /\ requests' = [requests EXCEPT ![i] = Tail(@)]
  /\ UNCHANGED <<running, s3, jira, loki, history>>

(* A thread of the pool that is free takes the first task.                  *)
TakeTask ==
  /\ queue # <<>> /\ Cardinality(DOMAIN running) < MaxWorkers
  /\ running' = [t \in DOMAIN running \cup {Head(queue)} |->
                   IF t \in DOMAIN running THEN running[t] ELSE NewTask]
  /\ queue' = Tail(queue)
  /\ UNCHANGED <<requests, s3, jira, loki, history>>

(* _generate_and_upload_screenshot_summary                                  *)
DescribeScreenshot(i) ==
  /\ At(<<i, "screenshot">>, "start")
  /\ \/ s3' = [s3 EXCEPT ![i].screenshot = TRUE] /\ NoFault
     \/ UNCHANGED s3 /\ Fault
  /\ Ends(<<i, "screenshot">>)
  /\ UNCHANGED <<requests, queue, jira, loki>>

(* _summarize_logs: nothing is stored without a log, and an empty summary   *)
(* when no line of it is to the point or the model's answer is no use.      *)
SummarizeLogs(i) ==
  /\ At(<<i, "logs">>, "start")
  /\ \/ /\ "log" \in Reported[i] \cup Uploaded[i]
        /\ \E summary \in {"empty", "text"} : s3' = [s3 EXCEPT ![i].logs = summary]
        /\ NoFault
     \/ "log" \notin Reported[i] \cup Uploaded[i] /\ UNCHANGED s3 /\ NoFault
     \/ UNCHANGED s3 /\ Fault
  /\ Ends(<<i, "logs">>)
  /\ UNCHANGED <<requests, queue, jira, loki>>

(* _set_priority up to the comment: GPT names a priority, which is set, or  *)
(* says why it cannot; its failure and that of the request are for the      *)
(* comment to tell, also when the priority was set and the answer lost.     *)
EstimatePriority(i) ==
  /\ At(<<i, "priority">>, "start")
  /\ \/ /\ jira' = [jira EXCEPT ![i].priority = "gpt"]
        /\ running' = [running EXCEPT ![<<i, "priority">>].step = "comment",
                                      ![<<i, "priority">>].text = "set"]
        /\ NoFault
     \/ /\ UNCHANGED jira
        /\ running' = [running EXCEPT ![<<i, "priority">>].step = "comment",
                                      ![<<i, "priority">>].text = "set"]
        /\ history' = [history EXCEPT !.unclear = @ \cup {i}]
     \/ /\ UNCHANGED jira
        /\ GoTo(<<i, "priority">>, "comment")
        /\ Fault
     \/ /\ history.faults < MaxFaults
        /\ jira' = [jira EXCEPT ![i].priority = "gpt"]
        /\ GoTo(<<i, "priority">>, "comment")
        /\ history' = [history EXCEPT !.faults = @ + 1, !.unclear = @ \cup {i}]
  /\ UNCHANGED <<requests, queue, s3, loki>>

(* _set_priority: the comment, whose failure is logged.                     *)
CommentPriority(i) ==
  /\ At(<<i, "priority">>, "comment")
  /\ \/ /\ jira' = [jira EXCEPT ![i].comments = Append(@, running[<<i, "priority">>].text)]
        /\ NoFault
     \/ UNCHANGED jira /\ Fault
  /\ Ends(<<i, "priority">>)
  /\ UNCHANGED <<requests, queue, s3, loki>>

-----------------------------------------------------------------------------
(* _create_ai_summary, in the steps between which others act.               *)
Summary(i) == <<i, "summary">>

(* _find_duplicates_gpt: without the issue there are no duplicates.         *)
ReadIssue(i) ==
  /\ At(Summary(i), "start")
  /\ \/ GoTo(Summary(i), "screenshot") /\ NoFault
     \/ GoTo(Summary(i), "logs") /\ Fault
  /\ UNCHANGED <<requests, queue, s3, jira, loki>>

(* poll_for_description_s3 finds the description of the screenshot, or a    *)
(* minute is over.                                                          *)
AwaitScreenshot(i) ==
  /\ At(Summary(i), "screenshot")
  /\ s3[i].screenshot
  /\ GoTo(Summary(i), "compare")
  /\ UNCHANGED <<requests, queue, s3, jira, loki, history>>

ScreenshotTimeout(i) ==
  /\ At(Summary(i), "screenshot")
  /\ ~s3[i].screenshot
  /\ GoTo(Summary(i), "compare")
  /\ UNCHANGED <<requests, queue, s3, jira, loki, history>>

(* find_duplicates: none, some, or an error, which is none.                 *)
FindDuplicates(i) ==
  /\ At(Summary(i), "compare")
  /\ \E found \in {{}, {"duplicates"}} :
       running' = [running EXCEPT ![Summary(i)].step = "logs", ![Summary(i)].has = found]
  /\ UNCHANGED <<requests, queue, s3, jira, loki, history>>

(* _poll_for_log_summary_s3 waits for a summary that is not empty; without  *)
(* anything to say the task is over (generate_log_summary_rich_text).       *)
AwaitLogs(i) ==
  /\ At(Summary(i), "logs")
  /\ s3[i].logs = "text"
  /\ running' = [running EXCEPT ![Summary(i)].step = "read", ![Summary(i)].has = @ \cup {"logs"}]
  /\ UNCHANGED <<requests, queue, s3, jira, loki, history>>

LogsTimeout(i) ==
  /\ At(Summary(i), "logs")
  /\ s3[i].logs # "text"
  /\ IF running[Summary(i)].has = {} THEN Ends(Summary(i)) ELSE GoTo(Summary(i), "read")
  /\ UNCHANGED <<requests, queue, s3, jira, loki, history>>

(* A mistake: the description is not read again before it is written.       *)
ReadDescription_Unread(i) ==
  /\ At(Summary(i), "read")
  /\ \/ /\ GoTo(Summary(i), "write")
        /\ NoFault
     \/ Ends(Summary(i)) /\ Fault
  /\ UNCHANGED <<requests, queue, s3, jira, loki>>

(* insert_rich_text_into_description reads the issue once more ...          *)
ReadDescription(i) ==
  /\ At(Summary(i), "read")
  /\ \/ /\ running' = [running EXCEPT ![Summary(i)].step = "write",
                                      ![Summary(i)].read = jira[i].description]
        /\ NoFault
     \/ Ends(Summary(i)) /\ Fault
  /\ UNCHANGED <<requests, queue, s3, jira, loki>>

(* ... and writes the whole description.                                    *)
WriteDescription(i) ==
  /\ At(Summary(i), "write")
  /\ \/ /\ jira' = [jira EXCEPT ![i].description = running[Summary(i)].read \cup {"ai"}]
        /\ NoFault
     \/ UNCHANGED jira /\ Fault
  /\ Ends(Summary(i))
  /\ UNCHANGED <<requests, queue, s3, loki>>

-----------------------------------------------------------------------------
Loki(i) == <<i, "loki">>

(* _upload_to_loki_ios and _upload_to_loki_android, up to the first part:   *)
(* without the issue the task ends.                                         *)
ReadLabels(i) ==
  /\ At(Loki(i), "start")
  /\ \/ GoTo(Loki(i), "push") /\ NoFault
     \/ Ends(Loki(i)) /\ Fault
  /\ UNCHANGED <<requests, queue, s3, jira, loki>>

(* _push_logs_to_loki, one part: it is answered, with success or without,   *)
(* or not at all, and then the handler asks for the answer of a part before *)
(* it, of which the first has none.                                         *)
PushBatch(i) ==
  LET sent == running[Loki(i)].sent + 1
      over(answered) == sent = Batches \/ ~answered
      after(answered) ==
        /\ loki' = [loki EXCEPT ![i] = [answered |-> answered, tried |-> sent,
                                        over |-> over(answered)]]
        /\ IF over(answered) THEN Ends(Loki(i))
           ELSE running' = [running EXCEPT ![Loki(i)].sent = sent]
  IN /\ At(Loki(i), "push")
     /\ \/ after(TRUE) /\ NoFault
        \/ after(loki[i].answered) /\ Fault
     /\ UNCHANGED <<requests, queue, s3, jira>>

-----------------------------------------------------------------------------
(* People edit the description and set the priority, once each.             *)
Edit(i) ==
  /\ i \in Edited \cap DOMAIN requests /\ i \notin history.edited
  /\ jira' = [jira EXCEPT ![i].description = @ \cup {"edit"}]
  /\ history' = [history EXCEPT !.edited = @ \cup {i},
                                !.overlapped = IF At(Summary(i), "write") THEN @ \cup {i} ELSE @]
  /\ UNCHANGED <<requests, queue, running, s3, loki>>

Prioritize(i) ==
  /\ i \in Edited \cap DOMAIN requests /\ jira[i].priority # "person"
  /\ jira' = [jira EXCEPT ![i].priority = "person"]
  /\ UNCHANGED <<requests, queue, running, s3, loki, history>>

(* The server stops: what is queued or running is gone (close_registry), as *)
(* are the requests under way.                                              *)
Restart ==
  /\ history.faults < MaxFaults
  /\ queue # <<>> \/ DOMAIN running # {}
  /\ queue' = <<>>
  /\ running' = <<>>
  /\ requests' = [i \in DOMAIN requests |-> <<>>]
  /\ history' = [history EXCEPT !.faults = @ + 1, !.restarted = TRUE]
  /\ UNCHANGED <<s3, jira, loki>>

RunTask(i) ==
  \/ DescribeScreenshot(i) \/ SummarizeLogs(i) \/ EstimatePriority(i) \/ CommentPriority(i)
  \/ ReadIssue(i) \/ AwaitScreenshot(i) \/ ScreenshotTimeout(i) \/ FindDuplicates(i)
  \/ AwaitLogs(i) \/ LogsTimeout(i) \/ ReadDescription(i) \/ WriteDescription(i)
  \/ ReadLabels(i) \/ PushBatch(i)

Server == TakeTask \/ \E i \in Issues : Submit(i) \/ RunTask(i)

Next == Server \/ Restart \/ \E i \in Issues : Edit(i) \/ Prioritize(i)

-----------------------------------------------------------------------------
(* A summary never waits for a task of its own report that has no thread:   *)
(* the pool is first in first out, and the files come before the summary    *)
(* (report_issue, upload_artifacts).                                        *)
AwaitedTasksRun ==
  \A i \in Issues : \A n \in 1 .. Len(queue) :
    Summary(i) \in DOMAIN running /\ queue[n][1] = i =>
      queue[n][2] = "loki" \/ Uploaded[i] # {}

(* What a person writes into the description stays, unless it is written    *)
(* between the last reading and the writing of the description              *)
(* (insert_rich_text_into_description).                                     *)
EditsSurvive ==
  \A i \in history.edited \ history.overlapped : "edit" \in jira[i].description

(* There is at most one comment, and it says that GPT set the priority only *)
(* if it did or gave a reason not to, and that it could not only if nothing *)
(* was set, unless the answer of Jira was lost (_set_priority).             *)
CommentTellsTheTruth ==
  \A i \in Issues :
    /\ Len(jira[i].comments) <= 1
    /\ jira[i].comments = <<"set">> => jira[i].priority # "none" \/ i \in history.unclear
    /\ jira[i].comments = <<"failed">> => jira[i].priority # "gpt" \/ i \in history.unclear

(* Whoever sets a priority before GPT does may lose it, for the task does   *)
(* not look, but never behind their back: GPT's priority comes once, from a *)
(* task that has still to comment on it, and once the comment asks people   *)
(* to correct the priority it changes only by their hand (_set_priority).   *)
KeepsPriority ==
  \A i \in Issues : jira'[i].priority \notin {jira[i].priority, "person"} =>
    /\ jira'[i].priority = "gpt" /\ jira'[i].comments = <<>>
    /\ <<i, "priority">> \in DOMAIN running' /\ running'[<<i, "priority">>].step = "comment"

(* A part that is not taken does not keep the parts after it from Loki,     *)
(* unless it is the first and has no answer at all (_push_logs_to_loki).    *)
LokiGoesOn ==
  \A i \in Issues : loki[i].over => loki[i].tried = Batches \/ ~loki[i].answered

(* All requests are served in the end although tasks wait for each other on *)
(* the threads they need, and every issue gets its comment, unless Jira     *)
(* fails or the server restarts (_create_ai_summary, _set_priority).        *)
Settled ==
  /\ queue = <<>> /\ DOMAIN running = {}
  /\ \A i \in DOMAIN requests : requests[i] = <<>> /\ (jira[i].comments = <<>> => history.faults > 0)
=============================================================================
