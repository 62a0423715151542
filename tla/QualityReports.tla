---------------------------- MODULE QualityReports ----------------------------
(***************************************************************************)
(* The job that makes the quality reports (manager/quality_report_manager,  *)
(* dal/quality_report_dal): team by team, then area, then pillar, a report  *)
(* is built from the scores and issues kept in S3 and uploaded under its    *)
(* date; the run that saves snapshots then writes those back and mails each *)
(* report.  A run may end anywhere and be started again the same day.       *)
(***************************************************************************)
EXTENDS Integers, Sequences, SequencesExt

CONSTANTS
  Titles,     \* the teams, areas and pillars in the order of the job, a sequence
  Window,     \* QUALITY_REPORT_WINDOW_DAYS
  Cutoff,     \* _SCORE_CUTTOFF_DAYS
  Kept,       \* _NUM_PAST_DATASETS_TO_STORE
  LastDay,    \* bound on the days
  MaxRuns,    \* bound on the runs
  MaxFaults   \* bound on failing reads and runs that end early

Assumptions ==
  /\ Titles \in Seq(ToSet(Titles)) \ {<<>>}
  /\ Window \in Nat \ {0} /\ Cutoff \in Nat \ {0} /\ Kept \in Nat \ {0}
  /\ LastDay \in Nat \ {0} /\ MaxRuns \in Nat /\ MaxFaults \in Nat

T == ToSet(Titles)
Days == 1 .. LastDay

VARIABLES
  job,       \* the run: where it is, at which report, of which day, what it built
  history,   \* [T -> the days of the scores in project_to_scores]
  datasets,  \* [T -> the days of the issue datasets that are kept, a sequence]
  reports,   \* [T -> [Days -> days of the scores in the uploaded report, or NoReport]]
  latest,    \* [T -> the day in the checkpoint file, 0 without one]
  mails,     \* [T -> the days of the reports that were mailed]
  today,
  record     \* runs and faults so far, titles whose past could not be read, saves

vars == <<job, history, datasets, reports, latest, mails, today, record>>

NoReport == {0}
Idle == [at |-> "idle", n |-> 1, day |-> 0, kind |-> "daily",
         scores |-> [t \in T |-> {}], issues |-> [t \in T |-> <<>>]]

Kinds == {"daily", "save", "dry", "dry mail"}
Runs == [at : {"idle", "build", "upload", "checkpoint", "datasets", "scores", "mail"},
         n : 1 .. Len(Titles), day : 0 .. LastDay, kind : Kinds,
         scores : [T -> SUBSET Days], issues : [T -> Seq(Days)]]

TypeOK ==
  /\ job \in Runs
  /\ history \in [T -> SUBSET Days]
  /\ datasets \in [T -> Seq(Days)] /\ \A t \in T : Len(datasets[t]) <= Kept
  /\ reports \in [T -> [Days -> (SUBSET Days) \cup {NoReport}]]
  /\ mails \in [T -> Seq(Days)]
  /\ record \in [runs : 0 .. MaxRuns, faults : 0 .. MaxFaults, unread : SUBSET T,
                 saved : [T -> SUBSET Days]]
  /\ latest \in [T -> 0 .. LastDay]
  /\ today \in Days

Init ==
  /\ job = Idle
  /\ history = [t \in T |-> {}] /\ datasets = [t \in T |-> <<>>]
  /\ reports = [t \in T |-> [d \in Days |-> NoReport]]
  /\ latest = [t \in T |-> 0]
  /\ mails = [t \in T |-> <<>>]
  /\ today = 1
  /\ record = [runs |-> 0, faults |-> 0, unread |-> {}, saved |-> [t \in T |-> {}]]

Title == Titles[job.n]
GoTo(label) == job' = [job EXCEPT !.at = label]
Stored == <<history, datasets, reports, latest>>

(* generate_reports; a dry run mails to one recipient or to no one.         *)
Start(kind) ==
  /\ job.at = "idle" /\ record.runs < MaxRuns
  /\ job' = [Idle EXCEPT !.at = "build", !.day = today, !.kind = kind]
  /\ record' = [record EXCEPT !.runs = @ + 1]
  /\ UNCHANGED <<Stored, mails, today>>

(* A mistake: one day too many is dropped.                                  *)
Recent_OffByOne(scores, day) == {d \in scores : d > day - Cutoff + 1}

(* QualityReport: scores of the last days are kept and that of the day is   *)
(* added.  The date of a score is a midnight, and the end of the period is  *)
(* later in the day.  A second score of a day does not count                *)
(* (_post_process_quality_scores).                                          *)
Recent(scores, day) == {d \in scores : d > day - Cutoff}

(* Files that cannot be read, for whatever reason, are taken to be empty    *)
(* (get_past_quality_scores, get_past_quality_issue_datasets).              *)
Build ==
  /\ job.at = "build"
  /\ \E scores \in {history[Title], {}}, issues \in {datasets[Title], <<>>} :
       /\ IF scores = history[Title] /\ issues = datasets[Title] THEN UNCHANGED record
          ELSE /\ record.faults < MaxFaults
               /\ record' = [record EXCEPT !.faults = @ + 1, !.unread = @ \cup {Title}]
       /\ LET built == [job EXCEPT !.scores[Title] = Recent(scores, job.day) \cup {job.day},
                                   !.issues[Title] = Append(issues, job.day)]
          IN job' = IF job.kind \in {"daily", "save"} THEN [built EXCEPT !.at = "upload"]
                    ELSE IF job.n < Len(Titles) THEN [built EXCEPT !.n = @ + 1]
                    ELSE IF job.kind = "dry" THEN Idle ELSE [built EXCEPT !.at = "mail", !.n = 1]
  /\ UNCHANGED <<Stored, mails, today>>

(* upload_serialized_quality_report: the report, ...                        *)
Upload ==
  /\ job.at = "upload"
  /\ reports' = [reports EXCEPT ![Title][job.day] = job.scores[Title]]
  /\ GoTo("checkpoint")
  /\ UNCHANGED <<history, datasets, latest, mails, today, record>>

(* ... and then the file that names the latest one.                         *)
Checkpoint ==
  /\ job.at = "checkpoint"
  /\ latest' = [latest EXCEPT ![Title] = job.day]
  /\ job' = IF job.n < Len(Titles) THEN [job EXCEPT !.at = "build", !.n = @ + 1]
            ELSE IF job.kind = "save" THEN [job EXCEPT !.at = "datasets", !.n = 1]
            ELSE Idle
  /\ UNCHANGED <<history, datasets, reports, mails, today, record>>

(* A mistake: no dataset is ever dropped.                                   *)
SaveDatasets_KeepsAll ==
  /\ job.at = "datasets"
  /\ datasets' = [datasets EXCEPT ![Title] = job.issues[Title]]
  /\ GoTo("scores")
  /\ UNCHANGED <<history, reports, latest, mails, today, record>>

(* A mistake: the scores are not uploaded.                                  *)
SaveDatasets_ThenMails ==
  /\ job.at = "datasets"
  /\ datasets' = [datasets EXCEPT ![Title] =
                    LET all == job.issues[Title]
                    IN IF Len(all) <= Kept THEN all ELSE SubSeq(all, Len(all) - Kept + 1, Len(all))]
  /\ GoTo("mail")
  /\ UNCHANGED <<history, reports, latest, mails, today, record>>

(* save_report_data: upload_quality_issue_datasets,                         *)
SaveDatasets ==
  /\ job.at = "datasets"
  /\ datasets' = [datasets EXCEPT ![Title] =
                    LET all == job.issues[Title]
                    IN IF Len(all) <= Kept THEN all ELSE SubSeq(all, Len(all) - Kept + 1, Len(all))]
  /\ GoTo("scores")
  /\ UNCHANGED <<history, reports, latest, mails, today, record>>

(* upload_quality_scores_to_s3,                                             *)
SaveScores ==
  /\ job.at = "scores"
  /\ history' = [history EXCEPT ![Title] = job.scores[Title]]
  /\ record' = [record EXCEPT !.saved[Title] = @ \cup {job.day}]
  /\ GoTo("mail")
  /\ UNCHANGED <<datasets, reports, latest, mails, today>>

(* send_email, and on to the next report.  In a dry run only the one        *)
(* recipient is written to.                                                 *)
Mail ==
  /\ job.at = "mail"
  /\ mails' = IF job.kind = "save" THEN [mails EXCEPT ![Title] = Append(@, job.day)] ELSE mails
  /\ job' = IF job.n = Len(Titles) THEN Idle
            ELSE [job EXCEPT !.n = @ + 1, !.at = IF job.kind = "save" THEN "datasets" ELSE "mail"]
  /\ UNCHANGED <<Stored, today, record>>

(* An exception anywhere ends the run (quality_report_script).              *)
Fails ==
  /\ job.at # "idle" /\ record.faults < MaxFaults
  /\ job' = Idle
  /\ record' = [record EXCEPT !.faults = @ + 1]
  /\ UNCHANGED <<Stored, mails, today>>

NextDay ==
  /\ job.at = "idle" /\ today < LastDay
  /\ today' = today + 1
  /\ UNCHANGED <<job, Stored, mails, record>>

Proceed == Build \/ Upload \/ Checkpoint \/ SaveDatasets \/ SaveScores \/ Mail

Next ==
  \/ Proceed \/ Fails \/ NextDay
  \/ \E kind \in Kinds : Start(kind)

-----------------------------------------------------------------------------
(* get_quality_scores: from the report of the last day asked for, each time *)
(* on to the report of the day on which its period began, until one is      *)
(* missing or begins early enough.                                          *)
HasReport(t, d) == d \in Days /\ reports[t][d] # NoReport

Walk(t, first, last) ==
  LET visit[d \in (1 - Window) .. LastDay] ==
        IF ~HasReport(t, d) THEN {}
        ELSE {d} \cup IF d - Window <= first THEN {} ELSE visit[d - Window]
  IN visit[last]

(* _post_process_quality_scores: the days before the first are left out.    *)
QualityScores(t, first, last) ==
  {d \in UNION {reports[t][r] : r \in Walk(t, first, last)} : d >= first}

(* There is a report wherever the walk for a period looks for one.          *)
Walkable(t, first, last) ==
  \A d \in Days : d <= last /\ d > first - Window /\ (last - d) % Window = 0 => HasReport(t, d)

(* The scores of a period are all there although each report holds only the *)
(* last ones and reports are read a period apart: what was saved on a day   *)
(* after the first is found, if there is a report where the walk looks for  *)
(* one and none was made from scores that could not be read                 *)
(* (get_quality_scores).                                                    *)
ScoresComplete ==
  \A t \in T \ record.unread : \A last \in Days : \A first \in 1 .. last :
    Walkable(t, first, last) =>
      {d \in record.saved[t] : first < d /\ d <= last} \subseteq QualityScores(t, first, last)

(* The docstring of get_quality_scores calls start_date the first day of    *)
(* the quality score period: a score that was saved on it is among them.    *)
FirstDayIncluded ==
  \A t \in T \ record.unread : \A last \in Days : \A first \in 1 .. last :
    Walkable(t, first, last) /\ first \in record.saved[t] => first \in QualityScores(t, first, last)

(* The day in the checkpoint file is that of a report that is there, also   *)
(* when a run ended early (upload_serialized_quality_report).               *)
LatestExists == \A t \in T : latest[t] # 0 => HasReport(t, latest[t])

(* What was mailed is among the scores the next reports are plotted from,   *)
(* as long as it is recent, also when the run ended right after the mail or *)
(* was repeated: people are told of no score that is then gone              *)
(* (save_report_data).                                                      *)
MailedIsSaved ==
  \A t \in T \ record.unread : \A d \in ToSet(mails[t]) :
    d > today - Cutoff => d \in history[t]

(* The kept history loses a score that is not too old in one way only: the  *)
(* run that could not read a title's past goes on and saves it as the score *)
(* of its day alone.  No other run does so, not even one that follows such  *)
(* a run, is repeated on the same day or could not read the issues          *)
(* (get_past_quality_scores, upload_quality_scores_to_s3).                  *)
KeepsHistory ==
  \A t \in T : \A d \in history[t] \ history'[t] :
    d > today - Cutoff =>
      job.at = "scores" /\ t = Title /\ t \in record.unread /\ job.scores[t] = {job.day}

=============================================================================
