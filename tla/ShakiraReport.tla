----------------------------- MODULE ShakiraReport -----------------------------
(***************************************************************************)
(* ShakiraManager.report_issue (manager/shakira.py): one bug report becomes *)
(* a Jira issue, Slack posts, or both.  Any request to Jira or Slack may    *)
(* fail, or be carried out and its answer lost; what the handler raises     *)
(* itself ends the request with an error whatever was done before.          *)
(***************************************************************************)
EXTENDS Naturals, FiniteSets, Sequences

CONSTANTS
  TypeChannel,     \* _SLACK_REPORT_TYPE_TO_SLACK_CHANNEL and "literacy"
  FeatureChannel,  \* _SHAKIRA_FEATURES_TO_SLACK_CHANNEL
  AreaChannel,     \* the design quality channel of a feature's area
  Labelled,        \* channels with a Jira label: _SLACK_CHANNELS_TO_JIRA_LABELS
  DesignQuality,   \* the channel that is forwarded to an area's
  MaxFaults        \* bound on failing requests

Channels == {TypeChannel[t] : t \in DOMAIN TypeChannel}
            \cup {FeatureChannel[f] : f \in DOMAIN FeatureChannel}
            \cup {AreaChannel[f] : f \in DOMAIN AreaChannel}

Assumptions ==
  /\ Labelled \subseteq Channels /\ DesignQuality \in Channels
  /\ "none" \notin Channels /\ MaxFaults \in Nat

VARIABLES
  report,    \* the request
  pc,        \* where the handler is
  plan,      \* what it decided: channels to post to, Jira or not, related or not
  jira,      \* the issue that exists for the report
  slack,     \* [Channels -> what was posted]
  streams,   \* files of the request, of which the stream is at its end
  attached,  \* attachments of the issue: "whole" or "empty"
  tasks,     \* what was submitted to the executor, in order
  known,     \* what the handler knows: the issue's key, the posts
  answer,    \* the response
  faults

vars == <<report, pc, plan, jira, slack, streams, attached, tasks, known, answer, faults>>

(* A screenshot, a log file that is text, a file that is not (a recording). *)
Files == {"screenshot", "log", "video"}

(* The description and the generated description: neither is there, they    *)
(* begin with text, or with something else (a link, an empty line).         *)
Reports ==
  [project : {"DLAA", "unknown"}, client : Channels \cup {"none", "unknown"},
   type : DOMAIN TypeChannel \cup {"none"},
   feature : DOMAIN FeatureChannel \cup DOMAIN AreaChannel \cup {"none"},
   related : {"none", "found", "missing"}, details : {"none", "text", "odd"},
   reporter : {"none", "known", "unknown"}, files : SUBSET Files]

NoPlan == [channels |-> <<>>, slack |-> FALSE, jira |-> FALSE, related |-> FALSE]
NoIssue == [exists |-> FALSE, details |-> FALSE, linked |-> FALSE]
NoAnswer == [status |-> "none"]

TypeOK ==
  /\ report \in Reports
  /\ pc \in {"decide", "create", "artifacts", "attach", "link", "slack", "done"}
  /\ plan \in [channels : Seq(Channels), slack : BOOLEAN, jira : BOOLEAN, related : BOOLEAN]
  /\ jira \in [exists : BOOLEAN, details : BOOLEAN, linked : BOOLEAN]
  /\ slack \in [Channels -> {"nothing", "post", "thread"}]
  /\ streams \subseteq report.files
  /\ attached \in [Files -> {"none", "whole", "empty"}]
  /\ tasks \in Seq({"screenshot", "logs", "priority", "summary"})
  /\ known \in [key : BOOLEAN, posts : SUBSET Channels]
  /\ answer = NoAnswer
     \/ answer \in [status : {"ok"}, issue : BOOLEAN, primary : BOOLEAN, forwarded : SUBSET Channels]
     \/ answer \in [status : {"error"}, code : {400, 500}]
  /\ faults \in 0 .. MaxFaults

(* Inputs is the set of reports a run looks at.                             *)
InitFrom(Inputs) ==
  /\ report \in Inputs
  /\ pc = "decide"
  /\ plan = NoPlan
  /\ jira = NoIssue
  /\ slack = [c \in Channels |-> "nothing"]
  /\ streams = {}
  /\ attached = [f \in Files |-> "none"]
  /\ tasks = <<>>
  /\ known = [key |-> FALSE, posts |-> {}]
  /\ answer = NoAnswer
  /\ faults = 0

-----------------------------------------------------------------------------
Lookup(table, x) == IF x \in DOMAIN table THEN table[x] ELSE "none"

(* _get_slack_channels: the channel the client asks for, else the one of    *)
(* the report type, else the one of the feature; design quality goes to the *)
(* channel of the feature's area as well.                                   *)
GetSlackChannels(client, type, feature) ==
  LET fromType == Lookup(TypeChannel, type)
      channel == IF fromType # "none" THEN fromType ELSE Lookup(FeatureChannel, feature)
  IN IF client # "none" THEN <<client>>
     ELSE IF channel = "none" THEN <<>>
     ELSE IF channel = DesignQuality /\ Lookup(AreaChannel, feature) # "none"
            THEN <<channel, AreaChannel[feature]>>
            ELSE <<channel>>

(* get_slack_report_types: what the client is told of a report type.        *)
AlsoPostsToJira(type) == TypeChannel[type] \in Labelled

(* A mistake: what goes to Slack does not go to Jira.                       *)
Decide_SlackInstead(r, found) ==
  LET channels == GetSlackChannels(r.client, r.type, r.feature)
      labelled == channels # <<>> /\ channels[1] \in Labelled
      slackOnly == channels # <<>> /\ ~labelled
      exists == r.related # "none" /\ ~slackOnly /\ found
      invalid == r.related # "none" /\ ~exists
      toSlack == (channels # <<>> /\ ~invalid) \/ slackOnly
  IN [channels |-> channels, slack |-> toSlack, jira |-> ~toSlack,
      related |-> exists]

(* should_post_to_slack, should_post_to_jira and related_issue_exists, where *)
(* found tells whether Jira returned the related issue.                     *)
Decide(r, found) ==
  LET channels == GetSlackChannels(r.client, r.type, r.feature)
      labelled == channels # <<>> /\ channels[1] \in Labelled
      slackOnly == channels # <<>> /\ ~labelled
      exists == r.related # "none" /\ ~slackOnly /\ found
      invalid == r.related # "none" /\ ~exists
      toSlack == (channels # <<>> /\ ~invalid) \/ slackOnly
  IN [channels |-> channels, slack |-> toSlack, jira |-> labelled \/ ~toSlack,
      related |-> exists]

Error(code) == /\ pc' = "done" /\ answer' = [status |-> "error", code |-> code]

Fail == faults < MaxFaults /\ faults' = faults + 1

Invalid ==
  /\ pc = "decide"
  /\ report.project = "unknown" \/ report.client = "unknown"
  /\ Error(400)
  /\ UNCHANGED <<report, plan, jira, slack, streams, attached, tasks, known, faults>>

Accept ==
  /\ pc = "decide"
  /\ report.project # "unknown" /\ report.client # "unknown"
  /\ \/ plan' = Decide(report, report.related = "found") /\ UNCHANGED faults
     \/ report.related = "found" /\ plan' = Decide(report, FALSE) /\ Fail
  /\ pc' = IF plan'.jira THEN "create" ELSE "slack"
  /\ UNCHANGED <<report, jira, slack, streams, attached, tasks, known, answer>>

(* create_issue gives no key when the issue types cannot be read or the     *)
(* request fails, and then the issue may be there all the same.             *)
IssueFor(r) == [exists |-> TRUE, details |-> r.details # "none", linked |-> FALSE]

WithoutKey ==
  IF plan.slack THEN pc' = "slack" /\ UNCHANGED answer ELSE Error(500)

CreateIssue ==
  /\ pc = "create"
  /\ \/ /\ jira' = IssueFor(report)
        /\ known' = [known EXCEPT !.key = TRUE]
        /\ pc' = "artifacts"
        /\ UNCHANGED <<answer, faults>>
     \/ /\ Fail
        /\ jira' \in {NoIssue, IssueFor(report)}
        /\ WithoutKey
        /\ UNCHANGED known
  /\ UNCHANGED <<report, plan, slack, streams, attached, tasks>>

(* What upload_artifacts makes of the description that Jira gives back: the *)
(* text of its first paragraph, of which it expects that it has one.        *)
FirstParagraph ==
  IF report.details # "none" THEN report.details
  ELSE IF plan.slack \/ plan.related THEN "text" ELSE "none"

(* A mistake: the streams are left at their ends.                           *)
ParseLogFiles_NoRewind(files) == files \ {"screenshot"}

(* _parse_log_files: each file but the screenshot is read and wound back,   *)
(* but not when what was read is not text.                                  *)
ParseLogFiles(files) == files \cap {"video"}

(* upload_artifacts, as report_issue calls it: Jira is asked for the        *)
(* description (no answer is a description that is missing), the files are  *)
(* read and the background tasks submitted.                                 *)
ReadFiles ==
  /\ pc = "artifacts"
  /\ report.files # {}
  /\ (FirstParagraph = "text" /\ UNCHANGED faults) \/ Fail
  /\ streams' = ParseLogFiles(report.files)
  /\ tasks' = (IF "screenshot" \in report.files THEN <<"screenshot">> ELSE <<>>)
              \o <<"logs">>
  /\ pc' = "attach"
  /\ UNCHANGED <<report, plan, jira, slack, attached, known, answer>>

(* upload_attachments sends what is left of each stream.  report_issue does *)
(* not look at the error of upload_artifacts.                               *)
UploadAttachments ==
  /\ pc = "attach"
  /\ \/ /\ attached' = [f \in Files |-> IF f \notin report.files THEN "none"
                                        ELSE IF f \in streams THEN "empty" ELSE "whole"]
        /\ streams' = report.files
        /\ UNCHANGED faults
     \/ /\ Fail
        /\ streams' \in {streams, report.files}
        /\ UNCHANGED attached
  /\ pc' = "link"
  /\ UNCHANGED <<report, plan, jira, slack, tasks, known, answer>>

NoArtifacts ==
  /\ pc = "artifacts"
  /\ report.files = {}
  /\ pc' = "link"
  /\ UNCHANGED <<report, plan, jira, slack, streams, attached, tasks, known, answer, faults>>

(* The paragraph is not there (TypeError) or has no text (KeyError, which   *)
(* the route takes for a field that is missing in the request).             *)
ArtifactsRaise ==
  /\ pc = "artifacts"
  /\ report.files # {} /\ FirstParagraph # "text"
  /\ Error(IF FirstParagraph = "odd" THEN 400 ELSE 500)
  /\ UNCHANGED <<report, plan, jira, slack, streams, attached, tasks, known, faults>>

(* link_issues, whose failure is logged, and the two tasks of the issue.    *)
LinkAndSubmit ==
  /\ pc = "link"
  /\ \/ jira' = [jira EXCEPT !.linked = plan.related] /\ UNCHANGED faults
     \/ plan.related /\ Fail /\ UNCHANGED jira
  /\ tasks' = tasks \o <<"priority", "summary">>
  /\ IF plan.slack
       THEN pc' = "slack" /\ UNCHANGED answer
       ELSE /\ pc' = "done"
            /\ answer' = [status |-> "ok", issue |-> TRUE, primary |-> FALSE, forwarded |-> {}]
  /\ UNCHANGED <<report, plan, slack, streams, attached, known>>

(* The channels not yet posted to, in order: plan.channels is used up.      *)
Rest == [plan EXCEPT !.channels = Tail(@)]

InfoInReply == ~known.key /\ report.details # "none"

(* post_info_in_reply: the details, under the post in the channel.          *)
PostInfoInReply(channel) ==
  \/ slack' = [slack EXCEPT ![channel] = "thread"] /\ UNCHANGED faults
  \/ Fail /\ \E done \in {"post", "thread"} : slack' = [slack EXCEPT ![channel] = done]

(* post_issue and the reply for the next channel.  A post that has no id,   *)
(* because its answer is lost or names no share, gets no reply.             *)
PostIssue ==
  /\ pc = "slack" /\ plan.channels # <<>>
  /\ report.reporter # "unknown"
  /\ LET c == Head(plan.channels) IN
     \/ /\ known' = [known EXCEPT !.posts = @ \cup {c}]
        /\ IF InfoInReply THEN PostInfoInReply(c)
           ELSE slack' = [slack EXCEPT ![c] = "post"] /\ UNCHANGED faults
     \/ /\ Fail
        /\ \E done \in {"nothing", "post"} : slack' = [slack EXCEPT ![c] = done]
        /\ UNCHANGED known
  /\ streams' = streams \cup (report.files \cap {"screenshot"})
  /\ plan' = Rest
  /\ UNCHANGED <<report, pc, jira, attached, tasks, answer>>

(* post_issue asks the record of an employee that was not found for a name. *)
PostRaises ==
  /\ pc = "slack" /\ plan.channels # <<>>
  /\ report.reporter = "unknown"
  /\ Error(500)
  /\ UNCHANGED <<report, plan, jira, slack, streams, attached, tasks, known, faults>>

(* The first channel is the primary one.                                    *)
Primary(r) == Head(GetSlackChannels(r.client, r.type, r.feature))

AnswerRequest ==
  /\ pc = "slack" /\ plan.channels = <<>>
  /\ LET primary == Primary(report) \in known.posts IN
     IF primary \/ known.key
       THEN /\ pc' = "done"
            /\ answer' = [status |-> "ok", issue |-> known.key, primary |-> primary,
                          forwarded |-> known.posts \ {Primary(report)}]
       ELSE Error(500)
  /\ UNCHANGED <<report, plan, jira, slack, streams, attached, tasks, known, faults>>

Finished == pc = "done" /\ UNCHANGED vars

Next ==
  \/ Invalid \/ Accept \/ CreateIssue
  \/ ReadFiles \/ UploadAttachments \/ NoArtifacts \/ ArtifactsRaise \/ LinkAndSubmit
  \/ PostIssue \/ PostRaises \/ AnswerRequest
  \/ Finished

-----------------------------------------------------------------------------
Ok == answer.status = "ok"
Refused == answer.status = "error"
Published == jira.exists \/ \E c \in Channels : slack[c] # "nothing"

(* An error means that the report is nowhere, neither in Jira nor in Slack, *)
(* but for a request whose answer is lost, a reporter whom the staff list   *)
(* does not name, and a description that upload_artifacts does not expect;  *)
(* those leave an issue behind, and a post only when the answer was lost    *)
(* (report_issue: an error is for "an error creating the issue").           *)
ErrorMeansNothingKnown ==
  Refused =>
    \/ ~Published
    \/ faults > 0
    \/ report.reporter = "unknown" /\ \A c \in Channels : slack[c] = "nothing"
    \/ report.files # {} /\ FirstParagraph # "text" /\ \A c \in Channels : slack[c] = "nothing"

(* A report type goes to Jira exactly when get_slack_report_types told the  *)
(* client so, if it does not name a related issue (report_issue).           *)
ReportTypesTellTheTruth ==
  Ok /\ report.type # "none" /\ report.client = "none" /\ report.related = "none" /\ faults = 0
    => answer.issue = AlsoPostsToJira(report.type)

(* Of a report that was accepted the details are in the issue, or under the *)
(* post of every channel it went to, unless a request failed on the way     *)
(* after the issue could not be created (report_issue, post_info_in_reply). *)
DetailsReachReader ==
  Ok /\ report.details # "none" =>
    \/ answer.issue /\ jira.details
    \/ \A c \in known.posts : slack[c] = "thread"
    \/ faults >= (IF plan.jira THEN 2 ELSE 1)

(* A related issue that exists is linked to the new one, and one that does  *)
(* not keeps the report out of Slack unless it is for Slack only            *)
(* (report_issue, link_issues).                                             *)
RelatedIsLinked ==
  Ok /\ report.related # "none" /\ faults = 0 =>
    /\ jira.exists => jira.linked = (report.related = "found")
    /\ answer.primary => jira.exists = (Primary(report) \in Labelled)
    /\ report.related = "missing" /\ answer.issue => ~answer.primary

(* Every attachment has the whole file, although it is read before it is    *)
(* sent, but for what is not text (upload_artifacts, _parse_log_files).     *)
TextFilesWhole == \A f \in Files \ {"video"} : attached[f] # "empty"

(* The same of all files (upload_artifacts).                                *)
FilesWhole == \A f \in Files : attached[f] # "empty"

(* The tasks of the issue are queued behind the ones whose results they     *)
(* wait for (report_issue, upload_artifacts).                               *)
SummaryQueuedLast ==
  \A i, j \in 1 .. Len(tasks) : tasks[i] = "summary" /\ i < j => FALSE
=============================================================================
