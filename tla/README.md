# Jeeves: TLA+ models, checks and proofs

Jeeves collects tickets about an app (Zendesk, Jira, Reddit, app reviews), makes them
searchable in OpenSearch, finds words that spike, takes bug reports from the app, writes
quality reports and manages duplicates among Jira bugs.  The modules here model what each
of these keeps and the order in which it changes it.  Paths below are relative to `src/`.

## 1. Inventory

| Component | State it keeps | Operations | What is hard |
|---|---|---|---|
| Crawler, `jeeves/lib/ticket_crawler.py` (an ECS task, restarted forever) | none of its own; reads the latest timestamp in OpenSearch, S3 and its checkpoint file | update S3, send the days between the two to SQS; a refresh of a range of days | where to resume after a crash; two sources of truth for "how far"; two programs that send |
| Data source managers, `jeeves/manager/{jira,zendesk,reddit,appfigures}_manager.py` | `<source>/checkpoint_data.txt` in S3 | `update_s3_if_necessary`, `process_document` | checkpoint against upload order; pages that move under the reader; equal times |
| Queues (SQS, `galaxy/prod/sqs.tf`) | messages, visibility, receive count | send, receive, delete, redrive | at-least-once, reordering, dead letters |
| Verify worker (up to 40), `.../sqs_verify_worker.py` | messages in hand | process, forward, delete | duplicates, missing attributes, exceptions |
| Index worker (up to 20), `.../sqs_index_worker.py` | `batch_list` in memory | drop duplicate e-mails, delete messages, write the batch at 100 | messages are deleted before their documents are written |
| Duplicate e-mail filter, `jeeves/manager/jeeves_duplicate_manager.py` | none; reads the index | within a batch, against the index | which of two e-mails stays |
| OpenSearch tickets, `jeeves/dal/opensearch_interface.py` | documents by `_id` | bulk write with embeddings, scroll, pages, searches | three programs write whole documents |
| Duplicate graph, `jeeves/manager/duplicate_graph_resolver.py`, `jeeves/dal/jira_dal.py`, the routes in `jeeves/view/api.py` | links, labels, states and descriptions in Jira | connect, connect without parent, disconnect, submit | read, decide, then many REST calls: requests interleave and any call fails |
| Spike worker, `.../spike_worker.py`, `jeeves/lib/spike_detector.py` | lock file and refresh file in S3, spike index | take the lock, recalculate all or continue, release | lock without compare-and-set, expiry, exceptions, marks people set meanwhile |
| Beta e-mails, `jeeves/view/api.py`, `jeeves/lib/send_issue_fixed_emails.py` | fields of a spike, list of recipients in S3 | check, mark, merge the list, send | check-then-act, an object that is read and written as a whole |
| Shake-to-report, `jeeves/manager/shakira*.py` | Jira issues, Slack posts, S3 objects, Loki; a pool of threads | `report_issue`, `upload_artifacts` and their background tasks | partial failure, streams read twice, tasks that wait for tasks of the same pool |
| Quality reports, `jeeves/manager/quality_report_manager.py`, `jeeves/dal/quality_report_dal.py`, `jeeves/model/quality_report*.py` | reports, scores, datasets in S3 | daily run, saving run, dry run; walk over past reports | runs that end early or are repeated; which day is in which report |
| GPT search, `jeeves/manager/gpt_search_manager.py` | entries in memcached, a thread per search | three requests per search | pollers of a cache that other searches write too |
| Embeddings job and Jira sync, `jeeves/scripts/*` | the index | scan and fill in; copy the issues of the last hour straight into the index, also ones the crawl's search leaves out | stale documents written back; an index that runs ahead of what was sent |
| GPT duplicate detection, summaries, features, sentiments, metadata | none beyond a request | see the modules | limits, orders, pairing of questions and answers |
| Classifiers, tokenizers, thin wrappers, web front end | none that several processes share | | not modelled (section 5) |

How they interact: the crawler writes S3 and the first queue; verify workers move messages
from the first queue to the second; index workers move them into OpenSearch, which the
crawler (resume point), the e-mail filter, the spike worker and the searches read, and
which the Jira sync and the embeddings job write as well.  The API's threads read and
write Jira, the spike index and the caches beside all of them.  Nothing is transactional:
every call to S3, SQS, OpenSearch, Jira, Slack, Loki or memcached is a step of its own in
the models.

What makes each part correct:

- *pipeline*: no document that was stored is passed over by later crawls, unless the Jira
  sync overtakes it, none that was enqueued disappears except in a crash, e-mails do not
  suppress each other in a circle, and what is published becomes searchable;
- *sources*: no checkpoint steps over what is not stored, nothing is filed twice, and
  everything is stored in the end;
- *duplicate graph*: a request that answers SUCCESS has made the star it reports, a
  description counts linked children only, a lone request leaves one parent, a lone
  disconnect leaves single issues;
- *spike worker*: one run at a time, no day stepped over, no request for a refresh
  forgotten, no mark lost, and each spike found in the end;
- *bug reports*: an error means that nothing was filed, what was accepted is whole, a
  person's edit or correction is not overwritten, no task waits for one that has no
  thread;
- *mails and reports*: nobody is mailed twice, no score is missing or lost;
- *search*: an answer is neither lost to a later failure nor are failures repeated, no
  program but the worker that is handed an old file takes a document of the index back,
  and none drops its embedding.

`PROJECT.json` lists every hazard with its line and the properties that watch it.

## 2. Modules

### IngestPipeline (with DeliveryPromise, MCIngestPipeline, IngestPipelineProofs)

One data source, any number of files, verify workers and index workers.  A file is an S3
object `<source>/<date>/<id>`; of its contents only what the code branches on is kept: the
day of its directory (`Dir`), the day of the document's `date_time` (`Born`, never later),
its OpenSearch id, its uid, the key of an e-mail, whether it is accepted for indexing
(`Indexable`), and whether the search of the crawl (`Searched`, `jira_manager.py:139`) and
that of the Jira sync (`Synced`, `jira_manager.py:285`) find it.  A file is a version of a
document; `Current` is the latest one published, the only one a search finds (`ToStore`).

| Variable | In the code |
|---|---|
| `remote`, `s3`, `checkpoint` | the data source; the bucket; the checkpoint file |
| `pc`, `startDay`, `todo` | the crawler: where it is, the latest indexed day it read, files still to send |
| `q1`, `q2` | copies of each message visible in the two queues |
| `vheld`, `vsent` | a verify worker's `messages`, and whether `send_messages` was called |
| `iheld`, `itodo`, `batch`, `batchLen` | an index worker's `messages`, the rest of `documents_deduped`, `batch_list` and its length |
| `index` | OpenSearch by `_id` |
| `syncing` | the Jira sync: what it has read and not yet written |
| `sent`, `suppressed`, `dropped`, `deadletter` | history: enqueued once, dropped as duplicate, lost with a worker's memory, in a dead-letter queue |
| `synced`, `overtaken` | history: files the sync wrote; files it wrote a younger document ahead of |

Actions: `CrawlStart` (reads the latest timestamp), `StoreFile` (one upload and the
checkpoint after it), `BeginSending` (the range of days, or the exception of
`yield_intermediate_dates`), `SendFile`, `CrawlDone`, `CrawlCrash`; `VReceive`, `VSkip`,
`VForward`, `VDelete`, `VCrash`; `IReceive` (with `dedup_document_batch`), `IExamine` (one
turn of the loop), `IDelete`, `ICheckpoint`, `ICheckpointFails` (some documents refused),
`ICrash`; `SyncRead` and `SyncWrite`, the Jira sync of
`scripts/sync_jira_tickets.py:26-51`, which knows neither S3, the queues nor
`check_should_index_document`, and some of whose documents may be refused.

The sync is why two properties name an exemption.  `WatermarkBehindUnsent` leaves out
`overtaken`: files that were not yet sent when the sync wrote a document of a later day
into the index from which the crawl takes its resume point.  `IndexNotAheadOfS3` leaves
out the times at which the sync has written an issue that, as it is now, the crawl's
search does not find (`LeftOut`): then `yield_intermediate_dates` does raise, against the
comment at `ticket_crawler.py:185-188`.  For every other data source `Synced` is empty,
and so are both exemptions.

Abstractions: the source publishes in the order of its date directories, as Jira and
Appfigures are read; the modules of the sources below say where each source departs from
it.  A message that becomes visible again while its first receiver is still at work is
left out: it is one more copy of a message, and every crawl already sends the latest day
again.  SQS's receive count is a choice: a released message may go to the dead letters at
any time. `force_refresh_tickets` is in module `ForceRefresh`.

`DeliveryPromise` is the abstract specification: documents are accepted, delivered and
forfeited, only what was accepted is delivered or forfeited, and nothing is taken back;
the sync accepts and delivers in one step (`Put`).  The refinement maps accepted to the
ids of `sent` and `synced`, delivered to the ids in `index`, forfeited to the ids of
`dropped` and `deadletter`.

### DuplicateGraph (with MCDuplicateGraph, MCDuplicates, DuplicateGraphProofs, MCDuplicatesProofs)

Jira (`state`, `links` as pairs <<outward, inward>>, `labelled`, `data`: what a parent's
description counts) and any number of requests.  A request walks `get_duplicate_graph`
level by level (`Fetch`: one bulk download is one step), keeps the snapshot in `docs`, and
then makes its calls one at a time: `AdoptParent`, `CreateParent` and `ReadParent`, or
`ChooseParent`, `RemoveLabel` and `CloseDeprecated`; `LinkChild`/`LinkChildFails` (posted
in parallel, hence in any order); `UpdateParent`; `CloseChild`.  `disconnect` is
`FindLinks`, `Unlink`, `UnlinkFails`; the routes without parent go through
`TryMarkDuplicate`.  `Abort` is an exception: what was done stays done.  A failed request
may or may not have reached Jira.  Keys are numbers in the string order of the keys (the
code sorts pairs, and compares them with unsorted ones); the date of the last update is a
choice. `MCDuplicates` is the sum of two instances: overlapping connect requests, and
requests of every kind that run one at a time.

### SpikeWorker (with MCSpikeWorker, SpikeWorkerProofs)

Tasks that run again and again, the lock file (`lock`, and `lockFresh` for "younger than
twelve hours"), the refresh file (`flag`), the spike index and the tickets that make a
word spike on a day.  Each S3 or OpenSearch call of `run_spike_worker` is an action, so
tasks interleave between the read of the lock and its claim, between the check for the
refresh file and its creation, and between the read of a spike and its bulk write
(`LookAt`, `WriteSpike`). `LoadFails`, `RunFails` and `Killed` end a run where the
`finally` clause does not or does release the lock.  People set marks (`SetMark`) and ask
for a refresh. One language, category and word; a word that spikes on a day goes on
spiking. Two constants name assumptions about the deployment: `StartsApart` (one task
every fifteen minutes, `galaxy/prod/main.tf`) and `HoldersFinish` (no run takes twelve
hours).

### JiraSync, RedditSync, AppfiguresSync, ZendeskSync, ForceRefresh (with Sources)

`update_s3_if_necessary` of each data source, request by request, while people go on
writing.  They have the same variables: `remote` (the service), `s3`, `checkpoint` (the
checkpoint file), `run` (the local variables of the update under way), `faults`, and
`excuses`, a history variable that records the circumstances in which the code may pass
something over.  The properties allow exactly those circumstances, so they say at the same
time what the code guarantees and where it stops.

- `JiraSync`: `FetchPage` is one request of `paginate_search_issues`, by offset and with
  the total of the first page; `StoreIssue` and `MoveCheckpoint` are the two uploads per
  issue.  An issue is passed over only when issues moved between the pages of a search or
  two updates have the same time.
- `RedditSync`: `List` is one turn of the loop, newest first; `CheckCheckpoint` the lookup
  that tells whether the post is still there.  A gap stays when an update ends in the
  middle of a page, or when more than a page is missing and the post of the checkpoint is
  gone.
- `AppfiguresSync`: within a day the number of stored files says where to resume;
  `LimitReached` is `_MAX_DOCS_PER_REQUEST`, `RequestFails` gives up one day and goes on
  with the next.  `StoredIsPrefix` is the reason why counting files is enough.
- `ZendeskSync`: pages of the incremental export, the end of a page asked for again;
  `GiveUp` is the exit after five equal URLs; `FileIssue` files a ticket of a contractor
  in Jira unless an issue has its summary.  A ticket has at most one issue here, although
  several "id" lines of a ticket may each call `create_jira_ticket`.  Nothing is excepted
  from `NothingPassedOver`.
- `ForceRefresh`: the crawler (`CrawlStart`, `CrawlStore`, `CrawlSend`) beside
  `force_refresh_tickets` (`RefreshStart`, `RefreshSend`), which sends the newest day
  first and thereby moves the crawler's resume point past days that were never sent.

### ShakiraReport and ShakiraTasks (with MCShakiraReport)

`ShakiraReport` is `ShakiraManager.report_issue`: `Invalid`/`Accept` (which channels, Jira
or not), `CreateIssue`, `ReadFiles` (the log parser, which reads the streams),
`UploadAttachments`, `LinkAndSubmit` (related issue and background tasks), `PostIssue` per
channel, `AnswerRequest`.  Any request to Jira or Slack may fail, or be carried out and
its answer lost; `ArtifactsRaise` and `PostRaises` are exceptions of the handler itself.
`streams` holds the files whose stream is at its end, which is what a second reader finds
empty.

`ShakiraTasks` is what the thread pool does afterwards, first in first out:
`DescribeScreenshot`, `SummarizeLogs`, `EstimatePriority`/`CommentPriority`, the summary
(`ReadIssue`, `AwaitScreenshot`, `FindDuplicates`, `AwaitLogs`, `ReadDescription`,
`WriteDescription`, with the two timeouts), and the push to Loki (`ReadLabels`,
`PushBatch`).  People edit the description (`Edit`) and set the priority (`Prioritize`);
`Restart` loses queue and threads.

`RichText` says where a summary goes in a description, `LokiLog` how lines of a log become
labelled parts, `SuggestedFeatures` which features are suggested, `ReportMetadata` how a
report is taken apart into body and fields: functions, checked against reference
properties on all small inputs.

### BetaEmails

A request of `send_beta_emails`: `Check`, `Mark`, `Search`, `Ask` (GPT), `Merge` and
`Write` (the object of the day in S3), `Send`.  Each may raise (`Fails`), be carried out
and answered with an error, or read an object that "is not there". `excuses` names spikes
that two requests looked at before either marked them, and days whose object two requests
had in hand.

### QualityReports, QualityScores, IssueUpdates (with MCQualityReports)

`QualityReports`: `Start` (daily, saving, dry, dry with a mail), then per title `Build`,
`Upload`, `Checkpoint`, and in a saving run `SaveDatasets`, `SaveScores`, `Mail`; `Fails`
anywhere, and the run may be started again the same day.  Reports are kept as the days of
their scores.  `QualityScores(t, first, last)` is the walk from report to report that
`get_quality_scores` makes.  `QualityScores` (the module) is the arithmetic of points, of
the overall score (Python's rounding) and of `find_recent_changes`; `IssueUpdates` the
choice of the worst issues and the count of those changed since a report.

### GptSearch, VectorSearch, SentimentSearch

`GptSearch`: a search is a request that looks up embedding and query (`LookUp`) and starts
a thread (`StartThread`), the thread (`CheckKnn`, `RunKnn`, `Get`, `CheckGpt`, `RunGpt`),
and two requests that poll the cache (`KnnResults`, `GptAnswer`, `TimesOut`).  Entries are
shared by all searches for the same words and expire (`Expire`).  `VectorSearch` is the
choice of documents by score, index and prompt length; `SentimentSearch` adds the topic
classifier's examples, the candidates and the series by period.

### Embeddings, TicketPages, DuplicateSearch

`Embeddings`: index worker (`Crawl`, `IndexCrawled`), Jira sync (`SyncStart`,
`SyncReadIndex`, `SyncWrite`) and the daily job (`JobStart`, `JobScan`, `JobWrite`,
`JobEnds`) write whole documents that each read earlier; the embedding service may fail
for any of them. `Crawl` hands the worker any version of an issue there ever was: the
directories of S3 keep one file for each day on which it changed, every crawl sends those
of some days again, and neither the queue nor up to twenty workers keep an order.
`TicketPages`: `detect_spikes` reads a day by `search_after` while workers index.  Each
turn of its loop is two requests, `Count` for the total and `Turn` for the page; `slipped`
records what was indexed between them.  A page is any sequence of the newest hits after a
time (`Newest`), as the index orders equal times as it likes. `DuplicateSearch`: the
searches for potential duplicates and `resolve_duplicate_graphs` on any graph of indexed
links, with the types of the issues (only bugs are alike, only a bug among the parents
represents a group, an epic is not answered); each walk over hits is a recursive function
of how many were seen.  Hits come in pages, and one that moves while others are indexed
may be on two of them.  The links of the documents do not change during one search; that
those of two documents disagree, because one was indexed before a link was made, is
possible (`Outdated`, `Settled`).

### BatchedAsk and ParentDescription

`BatchedAsk`: `find_duplicates` with `AICompletionsDAL.batched_ask`: prompts are sent in
batches (`Send`), polled for (`Poll`) until all are answered or time is out, and each
verdict is paired with its issue (`Judge`). `ParentDescription`: generating, parsing and
stripping the text that is the only place where a parent's counts are kept.  `Rewritten`
is what one request does to it, the line about the users' shared experiments
(`duplicate_graph_resolver.py:329-352`) included.  An entry is read as
`parent_jira_issue_util.py:61-62` does: of a value that holds ": ", as a version somebody
typed may, something else is read (`ReadAs`), or the reading raises (`Unreadable`).

### Sources, Services, MCDuplicates: sums of instances

The components in each of these share no state, so a behaviour of the sum is a behaviour
of one instance, chosen in `Init` by the variable `source`, `service` or `instance`.  A
property of the sum speaks of one question asked of several components ("does a checkpoint
step over something?").  The state space is the sum, not the product, of the instances'.

`Sources`, `Services` and `Detection` leave every constant open and are what the theorems
are about; `MCSources` and `MCServices` give the constants their values.  `Detection` puts
four more beside the services: the spike detector's walk over pages of tickets, the
questions about duplicates, the searches for duplicates, of which it holds what is asked
and what is answered, and the scores of a quality report, of which it holds the report
before and this one (`SpecDetection`).  `MCServices` adds the other modules without
variables of their own, each computed once from every small input, and the description of
a parent issue, computed again and again from what it was; its other steps are steps of
`Services` or of `Detection` with the same constants.

### Proof modules

`IngestPipelineProofs`, `SpikeWorkerProofs` and `DuplicateGraphProofs` extend the module
they are about.  `MCDuplicatesProofs` carries the last one's results over to the two
instances of a run.  `SourcesProofs` extends `Sources`; `ConcurrencyProofs` (mails, GPT
search, embeddings: processes that share an object) and `ServicesProofs` (the others, and
the theorems) extend `Services`; `DetectionProofs` extends `Detection`.

## 3. Runs

| Run | Shows | Bounds |
|---|---|---|
| `ingest_crawl` | resume point, S3 ahead of the index, nothing lost silently; implements DeliveryPromise | 3 files of 3 days (two versions of one document, the first outside the crawl's search, both found by the sync), 1 + 1 workers, 1 crash, 1 copy per queue, batch of 1 |
| `ingest_email` | no suppression circle; each document becomes searchable | 2 equal e-mails of 2 days, batches of 2, no crash (with crashes the theorem `SuppressionCorrect` speaks) |
| `duplicates` | SUCCESS means the star is there; counts; one parent; disconnected | 3 connect requests, 2 at a time, 1 failing call, 2 spare keys on either side of the order; 6 requests of every kind one at a time in every order, 1 failing call, 1 hidden issue |
| `spike_lock` | mutual exclusion, no day stepped over, every spike is indexed in the end, types | 2 tasks, 3 days, 2 exceptions, 1 kill, 1 review, refresh file missing at first |
| `spike_refresh` | no refresh request is lost while no run fails, each is carried out | a task and a dry run without exclusion, late tickets, 2 requests |
| `sources` | checkpoints, resuming, filing once, everything stored | Jira: 3 issues in pages of 2, 3 times; Reddit: 4 posts, pages of 2, 3 a run; Appfigures: 2 days, up to 3 reviews, pages of 2; Zendesk: 3 tickets, pages of 2, two of one contractor's matter; refresh: 3 days; 1 fault each |
| `services` | everything else with a state, and the pure algorithms, below | below |

`services` holds these instances:

| Instance | Bounds | Properties |
|---|---|---|
| report | every kind of report (3 types, with and without client, feature, related issue, reporter, details, files), 2 faults | `AnswersAreTrue`, `ReportIsWhole`, `AwaitedTasksRun` |
| tasks | 2 reports on 2 threads, one with a screenshot and a log, or 1 report whose log comes later, in 3 parts for Loki; 1 fault | `AnswersAreTrue`, `AwaitedTasksRun`, `EditsSurvive`, `NothingIsOverwritten`, `EverythingSettles` |
| mails | 3 requests about 2 spikes, 1 tester, 2 days, 1 fault | `OneMail` |
| quality | 2 titles, windows of 2 days, 4 days, 4 runs, 1 fault | `ScoresComplete`, `MailedIsSaved`, `NothingIsOverwritten` |
| gpt | 2 searches for the same words, 1 document indexed at any time, 2 expiries, 1 fault | `RetryAnswers`, `NothingIsOverwritten`, `EverythingSettles` |
| vectors | 2 documents, batches of 2, any version handed to the worker, 1 fault; once with updates of the first up to version 2, once with no issue changing after it appeared ("quiet", for `EverythingSettles`) | `NothingIsOverwritten`, `EverythingSettles` |
| pages | 5 tickets, two of one time, indexed at any moment, also between count and page; pages and batches of 2 | `DetectedOnce` |
| detector | 6 hits (one twice, one the issue itself, one unreadable), batches of 2, 4 polls, 1 fault | `VerdictsFit`, `EverythingSettles` |
| search | 4 issues with any links, parents, epics and resolutions, one document that may be older than a link, all or three of them hits, one hit on two pages, answers of 2 | `ListedOnce` |
| cut | prompts of 4 documents, topics of 8, 3 scored documents at the thresholds, logs of 4 lines, 3 features, 3 worst issues, descriptions of 2 blocks of 3 items, reports of 4 lines (6 with a row of hyphens), 3 fields in any order | `CutsKeepWhatMatters` |
| scores | any 2 issues of 2 priorities on either side of every border, before and after | `ChangesAddUp` |
| parent | 2 categories, 3 children, each request adding one or none, a value that cannot be read and one that is read as another, every summary of 5, with and without the line about users | `CountsSurvive` |

The bounds are the smallest at which each hazard occurs: two versions of a document for
reordering, two days for the resume point, two e-mails for suppression, two overlapping
requests that meet in one issue, two tasks so that one may wait for the lock the other
left, three days so that a run can stop between two that spike, a page that ends between
two equal times, a pool with as many threads as summaries that may wait, three batches so
that a later one finds the answer of an earlier one, windows that a walk has to cross
twice, one fault so that the repetition is fault-free. The mutants in `PROJECT.json` show
that each property fails at these bounds when the code is changed the way a bug would.

### What the code does otherwise than it says

Five runs expect a violation; `PROJECT.json` quotes the lines.

- `dup_two_parents`: overlapping requests leave two parents, both answer SUCCESS.
- `dup_resolved_parent`: of an open and a resolved parent the resolved one is kept.
- `spike_mark_lost`: detection overwrites a mark set after it read the spike.
- `shakira_attachment`: a file that is not text is read by the log parser, not rewound,
  and attached empty.
- `quality_first_day`: a period that begins on the day of a report lacks the score of that
  day.

Others are visible in the models and have no run of their own.

*Duplicates.*  `DuplicateGraph` connects a star where `jeeves/view/README.md:189` says
"directly linked as duplicate to every other".  `TryMarkDuplicate` counts a link as made
whatever Jira answered, where the docstring says "True if the link is created, otherwise
False" (`duplicate_graph_resolver.py:508`).  A link whose outward issue Jira does not
return is not found by `LinksToDelete`, and the request answers SUCCESS all the same.
Existing links are compared as sorted pairs, so some are posted again.  A parent whose
description Jeeves did not write ends a request with a `KeyError` after its links were
made.  A value with ": " is written into a parent's description as it is; the next request
then raises on it, or reads another value and count.  `find_potential_jira_duplicates` can
answer the target's own parent, for another child of it, and a parent twice when its
document is older than a link, against "a given parent does not appear twice"
(`opensearch_interface.py:1227-1229`).  A hit that moves to the next page is answered
twice by `run_more_like_this_for_duplicates`. `resolve_duplicate_graphs` answers nothing
for a group headed by an epic.

*Pipeline.*  The crawl of Jira raises while the index holds an issue that the sync wrote,
that is younger than S3's checkpoint and that the crawl's search leaves out, where the
comment at `ticket_crawler.py:185-188` expects S3 to be at least as recent.  A file that
the sync overtakes before it is sent may never be sent.  A file of an earlier day that is
sent again replaces the newer document until the newer file comes again.

*Spikes.*  A recalculation that fails has already cleared the request for it, and a run
that finds no refresh file creates one without looking again, over a request made in
between (`RefreshRequestKept` is checked and proved without failing runs and with the file
in place).  An exception before the `try` leaves the lock for twelve hours.  Without
`StartsApart` two tasks can both read the lock as free and claim it.  Tickets with the
time of the last one of a page are passed over by the next page.  A ticket that is indexed
between the count of a turn and its page takes the place of an older one, and the loop
ends before that came, where the docstring says "All documents from this date will be
considered" (`spike_detector.py:138-140`).

*Bug reports.*  The log push asks for the answer of an earlier part when a part got none
at all; the first part has none, and the task ends.  Metadata: a single-value header that
comes last, or a header on the first or last line, stays in the body, although the
docstring promises "body text with the metadata removed"; a single-value header on the
last line raises `IndexError`; words before the first header are lost when there is no row
of hyphens; reading the platform of a report inserts an empty one, although the docstring
says that no fields are set.  Successive summaries in a description without a dash stand
in the order first, third, second.

*Mails and quality reports.*  A failed read of past scores or recipients is taken for
"none", and the next write replaces what was there; `section.open_issues == 0`
(`model/quality_report.py:237`) compares a list with a number; repeating a saving run
pushes older datasets out of the four that are kept.

*Search.*  An error in the nearest-neighbour search is answered as "nothing found"; an old
error entry answers the poll of a retry at once; sentiment search without candidates
fails; the documented three suggested features are five; the time limit of `batched_ask`
is looked at before the answers, so a last answer may be thrown away.

### Fairness

- `ingest_email`: the crawler is restarted forever and the workers poll forever, so their
  steps are weakly fair; SQS hands messages to any consumer that polls, so a receive that
  is possible again and again happens (strong fairness, per worker and file; likewise for
  sends that wait for room in a bounded queue).  There is no crash in this run: a crash
  may take any document, which the safety runs count.
- `spike_lock`, `spike_refresh`: a run that started goes on unless it is stopped (weak
  fairness per task), the schedule keeps starting runs, twelve hours pass.
- `sources`: the crawler's loop starts an update again for ever (`Update`), a refresh that
  was started goes on (`Refresh`), and workers index each day that was sent
  (`Indexing(d)`).
- `services`: threads and requests that are under way go on (`Serving`), the hourly and
  daily jobs are started again (`Synchronizing`), workers index (`Indexing`), hours pass
  (`HoursPass`). Of the two instances of the embeddings they hold for the small, quiet one
  (`Watched`): its graph is the one that is searched for cycles, the other serves the
  safety properties.

Nothing is assumed about people, tickets, calendars, expiring entries or failures, apart
from the bound on their number.

## 4. Proofs

Each theorem holds for every value of the constants that satisfies the ASSUMEs of the
modules (any number of files, tasks, requests, issues, pages, workers, failures, ...) and
the hypotheses named here.

| Module | Theorem | States | Hypotheses |
|---|---|---|---|
| `IngestPipelineProofs` | `TypeCorrect` | `Spec => []TypeOK` | |
| | `WatermarkCorrect` | `Spec => []WatermarkBehindUnsent` | |
| | `CrawlWindowCorrect` | `Spec => []IndexNotAheadOfS3` | |
| | `NothingLostCorrect` | `Spec => []NothingLostSilently` | |
| | `SuppressionCorrect` | `Spec => []SuppressedIsRepresented` | |
| | `PromiseKept` | `Spec => KeepsPromise` | |
| `SpikeWorkerProofs` | `TypeCorrect` | `Spec => []TypeOK` | |
| | `MutualExclusionCorrect` | `Spec => []MutualExclusion` | `StartsApart`, `HoldersFinish` |
| | `NoDayPassedOverCorrect` | `Spec => []NoDayPassedOver` | `NeverForced`; exclusion is not needed |
| | `RefreshRequestKeptCorrect` | `Spec => []RefreshRequestKept` | `NoRunFails`: no exceptions or kills, refresh file there at the start; exclusion is not needed |
| `DuplicateGraphProofs` | `TypeCorrect` | `Spec => []TypeOK` | |
| | `SuccessIsStarCorrect` | `Spec => []SuccessIsStar` | `NoDisconnect` |
| | `CountedIsLinkedCorrect` | `Spec => []CountedIsLinked` | `NoDisconnect` |
| | `LeavesOneParentCorrect` | `Spec => [][LeavesOneParent]_vars` | one request at a time, `HiddenApart` |
| | `LeavesSinglesCorrect` | `Spec => [][LeavesSingles]_vars` | one request at a time, `HiddenApart` |
| `MCDuplicatesProofs` | `TypeCorrect`, `SuccessIsStarCorrect`, `CountedIsLinkedCorrect`, `OneParentWhenAloneCorrect`, `DisconnectedWhenAloneCorrect` | the same of the run's instances | their constants meet the hypotheses above |
| `SourcesProofs` | `TypeCorrect` | `Spec => []TypeOK` | |
| | `NothingPassedOverCorrect` | `Spec => []NothingPassedOver` | |
| | `StoredIsPrefixCorrect` | `Spec => []StoredIsPrefix` | |
| | `FiledOnceCorrect` | `Spec => []FiledOnce` | |
| `ServicesProofs` | `TypeCorrect` | `Spec => []TypeOK` | |
| | `AnswersAreTrueCorrect` | `Spec => []AnswersAreTrue` | |
| | `ReportIsWholeCorrect` | `Spec => []ReportIsWhole` | |
| | `AwaitedTasksRunCorrect` | `Spec => []AwaitedTasksRun` | |
| | `EditsSurviveCorrect` | `Spec => []EditsSurvive` | |
| | `OneMailCorrect` | `Spec => []OneMail` | |
| | `ScoresCompleteCorrect` | `Spec => []ScoresComplete` | `Window <= Cutoff` |
| | `MailedIsSavedCorrect` | `Spec => []MailedIsSaved` | |
| | `RetryAnswersCorrect` | `Spec => []RetryAnswers` | |
| | `NothingIsOverwrittenCorrect` | `Spec => NothingIsOverwritten` | |
| `DetectionProofs` | `DetectedOnceCorrect` | `SpecDetection => []DetectedOnce` | |
| | `VerdictsFitCorrect` | `SpecDetection => []VerdictsFit` | |
| | `ListedOnceCorrect` | `SpecDetection => []ListedOnce` | |
| | `ChangesAddUpCorrect` | `SpecDetection => []ChangesAddUp` | |

`NeverForced` says: no late tickets, no request to refresh, detection has begun on the
first day.  A late ticket or a refresh that starts over steps behind days that are
indexed, a disconnect takes away links that a request has reported, and a failing run uses
up a request; so each hypothesis names a circumstance in which the code does not give the
promise. `HiddenApart` says that issues which Jira does not return have no links: such a
link joins two groups that no request can see to be one.  `Window <= Cutoff`: the walk
stops at the cutoff, so a report that reaches farther back would lack days; in the code
both are 90 days (`quality_report_util.py:21`, `quality_report.py:25`).

### The arguments

Apart from the types hardly any of these properties is inductive as it stands.  Each proof
module names the invariant that is; TLC was run on each on the instances of section 3
before it was proved.

*Resume point of the pipeline.*  Everything the pipeline has sent, everything in flight
(queues, hands, batches, index) and everything the sync has written lies no later than any
file of S3 that was never sent and that the sync has not overtaken, and during a crawl
every such file of S3 is either in `todo` or later than everything sent; that needs the
source's order (a file not yet in S3 is no earlier than the checkpoint) and that the
crawler sends directories in order.

*Lock.*  A task between its claim and its release sees the lock file contain 1 and be
fresh; a task that has decided to claim is the only one that is deciding, and nobody holds
the lock; an expired lock has no holder.

*Days.*  A spike older than an indexed day is indexed itself or in the `todo` of a run;
with increasing order within a run and the resume point read from the index, no write can
put a later day in front of a missing earlier one.

*Refresh request.*  A request is in the file, or in the hands of the run that took it out;
no run is about to create the file.

*Duplicate graph.*  While nobody disconnects links only grow, so whatever a request read
of them stays true (`SnapshotsHold`, `MadeIsLinked`); from the choice of the parent on,
each other issue it loaded is linked, still to be linked, or known to have failed
(`StarSoFar`). Concurrent requests may replace the parent, but not take a link away. A
request that runs alone has in hand what Jira has (`LoneInv`): the documents it loaded are
a whole component, so that what is to be linked and unlinked leaves one parent, or none,
when nothing has failed on the way.

*Sources.*  Jira: while no issue moves, as many issues as `at` says were read of the
search, and each of them is on the page in hand or no later than the checkpoint (`Seen`,
`Reading`); that the next page continues them is counting (`FewNumbers`, ranks of a finite
set). Appfigures: what is stored of a day is a prefix of its listing (`Prefixes`), and the
page in hand follows what is stored, up to where the page ends (`PageFollows`).  Zendesk:
what was updated before the end of the page in hand is stored or on that page
(`Exported`); a ticket updated meanwhile moves to the end of the export (`PageFits`).
Reddit: between the newest stored post and a post in hand lie only posts in hand or
deleted ones (`RedditInv`, `ListingHasNoGap`).  Refresh: what is older than a day that was
sent was sent or is coming in the refresh under way (`SentOrComing`).

*Mails.*  Of the requests about a spike one passes the check, unless a race is on record
(`OnePerSpike`); what a request has in hand of the object of its day is what is stored,
and its choice is new to it (`InHandIsStored`); so the requests of a day mail different
people (`DisjointChoices`).

*GPT search.*  While no two searches overlap, at most one thread is at work
(`SearchesInTurn`), it has in hand what the caches hold and looks further only without it
(`CachesFit`), and an answer is kept together with the ids it was made from
(`AnswerHasIds`).

*Embeddings.*  What a program has in hand is no newer than Jira, and what the sync and the
job have is no older than the index unless another program wrote that document meanwhile
(`ReadingsFit`); of what the worker has only the former holds; the sync has the indexed
embeddings in hand (`SyncHasVectors`); batch and rest of the job share no document
(`InHand`).

*Quality reports.*  What is built holds the day and whatever of the past is still recent,
unless the past could not be read (`BuiltFromHistory`).  What a report has saved stays
where the walk looks (`SavedKept`).  The walk is a recursive function of days; that it
exists is shown by its explicit value, and that it comes to every day by the smallest day
it would miss (`Smallest`).

*Tasks of a bug report.*  Nothing of a report without later files is queued behind its
summary, which stays so as the pool is first in first out (`SummaryIsLast`): hence what
the summary waits for runs, with any number of threads.  One task sets the priority
(`OnePriorityTask`), what the comment is going to say is true (`TextIsTrue`), and a
description about to be written has what people wrote into it (`EditsAreRead`).

*Bug report.*  The plan is what `Decide` says of the report and of the related issue that
was found or not (`PlanFits`, `Planned`); nothing is posted before the issue is done with
(`NothingPosted`); the handler knows of the issue unless a request failed
(`IssueIsKnown`); files are read before they are attached (`FilesAreRead`); each channel
gets a post, with the details under it when there is no issue (`PostsFollowPlan`); the
answer tells what the handler knows (`AnswerIsKnown`).

*Pages of tickets.*  What was handed on and what is in the batch are different tickets, as
many as the loop counted, and all no older than the time from which the next page goes on;
a ticket of the beginning that was not seen is older than that, or shares its time with
another; between the requests of a turn the total is the size of the index without what
has slipped in since (`PagesInv`).  When the loop ends as many were seen as that, so no
more are missing than slipped in (`SlippedCount`).

*Questions about duplicates.*  The hashes are a beginning of the prompts, all of them
before the first poll; the polls end with all answers fetched (`AskInv`).  Prompts and
issues to test are the same sequence, so that the verdict at a place is on the issue at
that place (`JudgedRight`).  A batch takes as many from those that wait as it holds
(`BatchLeaves`, by ranks of places: `Keep` is their increasing enumeration).

*Searches for duplicates.*  An answer is what the walk over the hits comes to
(`SearchInv`), so what is shown is that every step of a walk keeps it right
(`FindStepOnce`, `AlikeStepApart`, `ResolveStepStands`).  That the walks exist is shown
once (`StepsTaken`: a step for each of 1 .. L makes a function that takes them in turn),
and what each step keeps holds at the end (`UpTo`, by the smallest number for which it
fails).  What can be reached from an issue is the same from wherever one starts in it
(`GraphsAreGroups`): the rest of the issues is closed, where both ends of a link were
indexed (`Settled`).  Each issue visited stands for itself in the answer, has been given a
parent that does, or has an epic for its head (`Standing`), whatever the links.  Where the
documents agree no issue gets a parent of another group and no group comes twice
(`InGroups`), so that two that stand for one issue are the same place of the answer
(`StandsAlone`).

*Scores of quality reports.*  The points of a set of issues are a recursive function of
its subsets. That it exists is shown by sizes (`SumsExist`), that it does not depend on
which issue is taken first by the size of the smallest set for which it would
(`SumTaken`); from then on it is a sum, of which parts can be taken apart (`PointsSplit`)
and compared (`SameCount`).  The issues of both reports fall into those that were
resolved, added, removed or stayed, and each change takes or gives the points of its part
(`ChangesAreAll`). That resolving never lowers the score is an order of shares, which
rounding halves to even keeps (`RoundingKeepsOrder`).

`EachStepKeeps` in `ServicesProofs` is what the invariant gives each step;
`NothingIsOverwritten` follows from it.

### Only model-checked

- Liveness, because TLAPS does not do fairness: `EventuallySearchable`,
  `EventuallyIndexed`, `EventuallyRefreshed`, `EverythingStored`, `EverythingSettles`.
- `CutsKeepWhatMatters`, `CountsSurvive`: algorithms that fold, select or sort with an
  operator as a parameter, which the provers here cannot expand.

## 5. Not modelled, and the plan

Worth modelling next: statistics of the spike index and the three time zones in which it
takes its dates; the query managers with their filters.

Left out for good, and why:

- classifiers and tokenizers: numerical, no state of their own; where a result is used, it
  is a choice (which documents are kept, what GPT says);
- prompts, wording of mails and reports, the daily digest, HTML: layout;
- read-only queries and statistics (`query_manager`, word counts): one request and its
  answer;
- thin wrappers of HTTP services, metrics, authentication, infrastructure code: they carry
  a call through; that the call may fail, or be carried out and its answer lost, is in the
  models;
- the wrapper that compresses values for memcached: unused;
- the web front end: rendering of what the API returns.

What a model abstracts inside a component is said in the component's `note` in
`PROJECT.json`.
