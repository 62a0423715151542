--------------------------- MODULE IngestPipeline ---------------------------
(***************************************************************************)
(* One data source on its way into OpenSearch: the crawler task            *)
(* (lib/ticket_crawler.py, an ECS task that is restarted forever), the S3  *)
(* bucket, the two SQS queues, the verify workers                          *)
(* (sqs_verify_worker.py) and the index workers (sqs_index_worker.py); and *)
(* the scheduled synchronization (sync_jira_tickets.py), which copies      *)
(* issues from Jira straight into the index, past S3 and the queues.       *)
(*                                                                         *)
(* A file stands for one S3 object <source>/<date>/<id>.  Its bytes are    *)
(* abstracted to the facts the pipeline branches on: the day of its date   *)
(* directory, the day of the document's date_time, its jeeves_uid, the     *)
(* OpenSearch _id it is written under, the sender-header-body key of an    *)
(* email, and whether check_should_index_document accepts it.              *)
(*                                                                         *)
(* The source hands out what is new in the order of its date directories,  *)
(* as Jira ("ORDER BY updated asc"), and as Appfigures (date by date).     *)
(* Files with one _id are versions of one document; the source shows the   *)
(* latest.  The crawl's search may leave out documents that the            *)
(* synchronization's finds, and the other way round (labels).              *)
(***************************************************************************)
EXTENDS Naturals, FiniteSets

CONSTANTS
  Files,          \* S3 objects of the data source
  Dir,            \* [Files -> Nat]: day of the date directory
  Born,           \* [Files -> Nat]: day of the document's date_time
  Ids, Id,        \* OpenSearch internal ids; [Files -> Ids]
  Uids, Uid,      \* jeeves_uids; [Files -> Uids]
  Keys, Key,      \* duplicate keys of emails; [Files -> Keys \cup {NoKey}]
  Indexable,      \* files whose document check_should_index_document accepts
  Searched,       \* files the crawl's search finds (labels != via-jeeves)
  Synced,         \* files the synchronization's search finds; {} but for Jira
  VerifyWorkers, IndexWorkers,
  BatchSize,      \* _BATCH_GROUP_SIZE, 100 in the code
  ReceiveMax,     \* messages one receive_messages returns, at most
  MaxDay,         \* bound on the clock
  MaxCopies,      \* bound on the copies of one message in one queue
  MaxCrashes,     \* bound on the crashes of all processes together
  NoFile, NoKey

ASSUME FilesAssumption ==
  /\ Dir \in [Files -> Nat] /\ Born \in [Files -> Nat]
  /\ \A f \in Files : Born[f] <= Dir[f]      \* updated no earlier than created
  /\ Id \in [Files -> Ids] /\ Uid \in [Files -> Uids]
  /\ Key \in [Files -> Keys \cup {NoKey}]
  /\ Indexable \subseteq Files
  /\ Searched \subseteq Files /\ Synced \subseteq Files
ASSUME NullAssumption == NoFile \notin Files /\ NoKey \notin Keys
ASSUME BoundAssumption ==
  /\ BatchSize \in Nat \ {0} /\ ReceiveMax \in Nat \ {0}
  /\ MaxDay \in Nat /\ MaxCopies \in Nat \ {0} /\ MaxCrashes \in Nat

VARIABLES
  today,       \* the day it is
  remote,      \* files the data source would hand out
  s3,          \* files in the S3 bucket
  checkpoint,  \* day of the checkpoint file
  pc,          \* crawler: "idle", "updating" S3, "sending" to SQS
  startDay,    \* crawler: day of the latest indexed timestamp it read
  todo,        \* crawler: files still to be sent in this crawl
  q1, q2,      \* copies of each file's message visible in the two queues
  vheld,       \* verify worker: messages received and not yet deleted
  vsent,       \* verify worker: has it forwarded the accepted ones?
  iheld,       \* index worker: messages received and not yet deleted
  itodo,       \* index worker: documents of documents_deduped not yet looked at
  batch,       \* index worker: documents in batch_list (in memory)
  batchLen,    \* index worker: len(batch_list), which counts repeats
  index,       \* OpenSearch: the file last written under each _id
  syncing,     \* synchronization: the documents it has read and not yet written
  crashes,     \* how many crashes happened
  sent,        \* history: files enqueued at least once
  suppressed,  \* history: files dropped as duplicate emails
  dropped,     \* history: files lost with an index worker's memory
  deadletter,  \* files in one of the dead-letter queues
  synced,      \* history: files the synchronization wrote into the index
  overtaken    \* history: files it wrote a younger document ahead of

crawlVars  == <<pc, startDay, todo>>
verifyVars == <<vheld, vsent>>
indexVars  == <<iheld, itodo, batch, batchLen>>
storeVars  == <<today, remote, s3, checkpoint>>
syncVars   == <<syncing, synced, overtaken>>
histVars   == <<sent, suppressed, dropped, deadletter>>
vars == <<storeVars, crawlVars, q1, q2, verifyVars, indexVars, index,
          crashes, histVars, syncVars>>

Threshold == 0     \* _THRESHOLD_DATE, the left end of the crawl window

TypeOK ==
  /\ today \in Nat /\ checkpoint \in Nat /\ startDay \in Nat /\ crashes \in Nat
  /\ remote \subseteq Files /\ s3 \subseteq Files /\ todo \subseteq Files
  /\ pc \in {"idle", "updating", "sending"}
  /\ q1 \in [Files -> Nat] /\ q2 \in [Files -> Nat]
  /\ vheld \in [VerifyWorkers -> SUBSET Files]
  /\ vsent \in [VerifyWorkers -> BOOLEAN]
  /\ iheld \in [IndexWorkers -> SUBSET Files]
  /\ itodo \in [IndexWorkers -> SUBSET Files]
  /\ batch \in [IndexWorkers -> SUBSET Files]
  /\ batchLen \in [IndexWorkers -> Nat]
  /\ index \in [Ids -> Files \cup {NoFile}]
  /\ sent \subseteq Files /\ suppressed \subseteq Files
  /\ dropped \subseteq Files /\ deadletter \subseteq Files
  /\ syncing \subseteq Files /\ synced \subseteq Files /\ overtaken \subseteq Files

Init ==
  /\ today = Threshold /\ remote = {} /\ s3 = {} /\ checkpoint = Threshold
  /\ pc = "idle" /\ startDay = Threshold /\ todo = {}
  /\ q1 = [f \in Files |-> 0] /\ q2 = [f \in Files |-> 0]
  /\ vheld = [w \in VerifyWorkers |-> {}]
  /\ vsent = [w \in VerifyWorkers |-> FALSE]
  /\ iheld = [w \in IndexWorkers |-> {}] /\ itodo = [w \in IndexWorkers |-> {}]
  /\ batch = [w \in IndexWorkers |-> {}]
  /\ batchLen = [w \in IndexWorkers |-> 0]
  /\ index = [i \in Ids |-> NoFile]
  /\ crashes = 0
  /\ sent = {} /\ suppressed = {} /\ dropped = {} /\ deadletter = {}
  /\ syncing = {} /\ synced = {} /\ overtaken = {}

-----------------------------------------------------------------------------
(* Queues. *)

Enqueue(q, S)    == [f \in Files |-> IF f \in S THEN q[f] + 1 ELSE q[f]]
Dequeue(q, S)    == [f \in Files |-> IF f \in S THEN q[f] - 1 ELSE q[f]]
HasRoom(q, S)    == \A f \in S : q[f] < MaxCopies
\* mutant of Receivable: an invisible message is received again
Receivable_Invisible(q, S) == S # {} /\ Cardinality(S) <= ReceiveMax

Receivable(q, S) == /\ S # {} /\ Cardinality(S) <= ReceiveMax
                    /\ \A f \in S : q[f] > 0

(* The messages a worker held when it stopped become visible again, except *)
(* those that SQS has handed out maxReceiveCount times: they move to the   *)
(* dead-letter queue.  The count is abstracted to a choice.                *)
Redeliver(q, S, D) == Enqueue(q, S \ D)

-----------------------------------------------------------------------------
(* The data source. *)

NextDay ==
  /\ today < MaxDay
  /\ today' = today + 1
  /\ UNCHANGED <<syncVars, remote, s3, checkpoint, crawlVars, q1, q2,
                 verifyVars, indexVars, index, crashes, histVars>>

Publish(f) ==
  /\ f \notin remote /\ Dir[f] = today
  /\ remote' = remote \cup {f}
  /\ UNCHANGED <<syncVars, today, s3, checkpoint, crawlVars, q1, q2,
                 verifyVars, indexVars, index, crashes, histVars>>

-----------------------------------------------------------------------------
(* OpenSearch queries. *)

Indexed == {i \in Ids : index[i] # NoFile}

(* get_most_recent_timestamp, or the threshold when nothing is indexed. *)
IsLatest(t) ==
  \/ Indexed = {} /\ t = Threshold
  \/ /\ \E i \in Indexed : Born[index[i]] = t
     /\ \A i \in Indexed : Born[index[i]] <= t

(* recent_duplicate_exists: an indexed email of another uid, at most 24     *)
(* hours older, matches the sender, header and body of this one.           *)
RecentDuplicateExists(f) ==
  /\ Key[f] # NoKey
  /\ \E i \in Indexed : /\ Key[index[i]] = Key[f]
                        /\ Uid[index[i]] # Uid[f]
                        /\ Born[f] <= Born[index[i]] + 1

-----------------------------------------------------------------------------
(* The crawler. *)

CrawlStart ==
  /\ pc = "idle"
  /\ pc' = "updating"
  /\ \E t \in {Threshold} \cup {Born[index[i]] : i \in Indexed} :
       IsLatest(t) /\ startDay' = t
  /\ UNCHANGED <<syncVars, storeVars, todo, q1, q2, verifyVars, indexVars,
                 index, crashes, histVars>>

(* The version the source shows of its document. *)
Current(f) ==
  f \in remote /\ \A g \in remote : Id[g] = Id[f] => Dir[g] <= Dir[f]

(* What a search of the update finds and has yet to upload. *)
ToStore == {f \in Searched \ s3 : Current(f)}

(* update_s3_if_necessary: one upload, and the checkpoint after it.  A page *)
(* that was read before may show a version that is no longer the current    *)
(* one, but nothing from before the checkpoint.                             *)
StoreFile(f) ==
  /\ pc = "updating" /\ f \in (remote \cap Searched) \ s3
  /\ checkpoint <= Dir[f]
  /\ \A g \in ToStore : Dir[f] <= Dir[g]
  /\ s3' = s3 \cup {f}
  /\ checkpoint' = IF Dir[f] > checkpoint THEN Dir[f] ELSE checkpoint
  /\ UNCHANGED <<syncVars, today, remote, crawlVars, q1, q2, verifyVars,
                 indexVars, index, crashes, histVars>>

(* yield_intermediate_dates raises when the end lies before the start; the *)
(* exception ends this source's crawl.                                     *)
BeginSending ==
  /\ pc = "updating" /\ ToStore = {}
  /\ IF checkpoint < startDay
     THEN pc' = "idle" /\ todo' = {} /\ startDay' = Threshold
     ELSE /\ pc' = "sending" /\ UNCHANGED startDay
          /\ todo' = {f \in s3 : startDay <= Dir[f] /\ Dir[f] <= checkpoint}
  /\ UNCHANGED <<syncVars, storeVars, q1, q2, verifyVars, indexVars, index,
                 crashes, histVars>>

\* mutant of SendFile: the date directories are not walked in order
SendFile_AnyOrder(f) ==
  /\ pc = "sending" /\ f \in todo
  /\ HasRoom(q1, {f})
  /\ q1' = Enqueue(q1, {f})
  /\ todo' = todo \ {f}
  /\ sent' = sent \cup {f}
  /\ UNCHANGED <<syncVars, storeVars, pc, startDay, q2, verifyVars, indexVars,
                 index, crashes, suppressed, dropped, deadletter>>

(* _send_s3_doc_to_sqs, date directory by date directory. *)
SendFile(f) ==
  /\ pc = "sending" /\ f \in todo
  /\ \A g \in todo : Dir[f] <= Dir[g]
  /\ HasRoom(q1, {f})
  /\ q1' = Enqueue(q1, {f})
  /\ todo' = todo \ {f}
  /\ sent' = sent \cup {f}
  /\ UNCHANGED <<syncVars, storeVars, pc, startDay, q2, verifyVars, indexVars,
                 index, crashes, suppressed, dropped, deadletter>>

CrawlDone ==
  /\ pc = "sending" /\ todo = {}
  /\ pc' = "idle" /\ startDay' = Threshold
  /\ UNCHANGED <<syncVars, storeVars, todo, q1, q2, verifyVars, indexVars,
                 index, crashes, histVars>>

\* mutant of CrawlCrash: the checkpoint is not in S3
CrawlCrash_ForgetsCheckpoint ==
  /\ pc # "idle" /\ crashes < MaxCrashes
  /\ pc' = "idle" /\ todo' = {} /\ startDay' = Threshold
  /\ checkpoint' = Threshold
  /\ crashes' = crashes + 1
  /\ UNCHANGED <<syncVars, today, remote, s3, q1, q2, verifyVars, indexVars,
                 index, histVars>>

(* A crash, or any exception: crawl_tickets logs it and goes on with the   *)
(* next data source, and this source starts afresh in the next task.       *)
CrawlCrash ==
  /\ pc # "idle" /\ crashes < MaxCrashes
  /\ pc' = "idle" /\ todo' = {} /\ startDay' = Threshold
  /\ crashes' = crashes + 1
  /\ UNCHANGED <<syncVars, storeVars, q1, q2, verifyVars, indexVars, index,
                 histVars>>

CrawlNext ==
  \/ CrawlStart \/ BeginSending \/ CrawlDone
  \/ \E f \in Files : StoreFile(f) \/ SendFile(f)

-----------------------------------------------------------------------------
(* The verify workers. *)

VReceive(w, S) ==
  /\ vheld[w] = {} /\ Receivable(q1, S)
  /\ q1' = Dequeue(q1, S)
  /\ vheld' = [vheld EXCEPT ![w] = S]
  /\ UNCHANGED <<syncVars, storeVars, crawlVars, q2, vsent, indexVars, index,
                 crashes, histVars>>

(* What the worker holds goes back to the queue, or to the dead letters. *)
VRelease(w) ==
  \E D \in SUBSET vheld[w] :
    /\ HasRoom(q1, vheld[w] \ D)
    /\ q1' = Redeliver(q1, vheld[w], D)
    /\ deadletter' = deadletter \cup D
    /\ vheld' = [vheld EXCEPT ![w] = {}]
    /\ vsent' = [vsent EXCEPT ![w] = FALSE]

(* SQS left out a data_source attribute (_check_for_data_source): the      *)
(* whole receive is passed over without deleting anything.                 *)
VSkip(w) ==
  /\ vheld[w] # {} /\ ~vsent[w] /\ crashes < MaxCrashes
  /\ VRelease(w)
  /\ crashes' = crashes + 1
  /\ UNCHANGED <<syncVars, storeVars, crawlVars, q2, indexVars, index, sent,
                 suppressed, dropped>>

(* Every received document is processed; the accepted ones are forwarded. *)
VForward(w) ==
  /\ vheld[w] # {} /\ ~vsent[w]
  /\ HasRoom(q2, vheld[w] \cap Indexable)
  /\ q2' = Enqueue(q2, vheld[w] \cap Indexable)
  /\ vsent' = [vsent EXCEPT ![w] = TRUE]
  /\ UNCHANGED <<syncVars, storeVars, crawlVars, q1, vheld, indexVars, index,
                 crashes, histVars>>

\* mutant of VDelete: messages are deleted before they are forwarded
VDelete_BeforeForward(w) ==
  /\ vheld[w] # {}
  /\ vheld' = [vheld EXCEPT ![w] = {}]
  /\ vsent' = [vsent EXCEPT ![w] = FALSE]
  /\ UNCHANGED <<syncVars, storeVars, crawlVars, q1, q2, indexVars, index,
                 crashes, histVars>>

VDelete(w) ==
  /\ vheld[w] # {} /\ vsent[w]
  /\ vheld' = [vheld EXCEPT ![w] = {}]
  /\ vsent' = [vsent EXCEPT ![w] = FALSE]
  /\ UNCHANGED <<syncVars, storeVars, crawlVars, q1, q2, indexVars, index,
                 crashes, histVars>>

(* Any exception, in process_document as well, ends the worker; ECS starts *)
(* it again.                                                               *)
VCrash(w) ==
  /\ vheld[w] # {} /\ crashes < MaxCrashes
  /\ VRelease(w)
  /\ crashes' = crashes + 1
  /\ UNCHANGED <<syncVars, storeVars, crawlVars, q2, indexVars, index, sent,
                 suppressed, dropped>>

VerifyNext ==
  \E w \in VerifyWorkers :
    \/ \E S \in SUBSET Files : VReceive(w, S)
    \/ VForward(w) \/ VDelete(w) \/ VSkip(w) \/ VCrash(w)

-----------------------------------------------------------------------------
(* The index workers. *)

\* mutant of DedupDocumentBatch: every email with a repeated key goes
DedupDocumentBatch_KeepNone(S, R) ==
  R = {f \in S : \A g \in S \ {f} : Key[g] # Key[f] \/ Key[f] = NoKey}

(* dedup_document_batch: of the emails of one receive with the same key    *)
(* only the first is kept.                                                 *)
DedupDocumentBatch(S, R) ==
  /\ R \subseteq S
  /\ \A f \in S : Key[f] = NoKey => f \in R
  /\ \A f \in S : \E g \in R : Key[g] = Key[f]
  /\ \A f, g \in R : Key[f] = Key[g] /\ Key[f] # NoKey => f = g

IReceive(w, S, R) ==
  /\ iheld[w] = {} /\ batchLen[w] < BatchSize
  /\ Receivable(q2, S)
  /\ DedupDocumentBatch(S, R)
  /\ q2' = Dequeue(q2, S)
  /\ iheld' = [iheld EXCEPT ![w] = S]
  /\ itodo' = [itodo EXCEPT ![w] = R]
  /\ suppressed' = suppressed \cup (S \ R)
  /\ UNCHANGED <<syncVars, storeVars, crawlVars, q1, verifyVars, batch,
                 batchLen, index, crashes, sent, dropped, deadletter>>

(* One turn of the loop over documents_deduped. *)
IExamine(w, f) ==
  /\ f \in itodo[w]
  /\ itodo' = [itodo EXCEPT ![w] = @ \ {f}]
  /\ IF f \in Indexable /\ ~RecentDuplicateExists(f)
     THEN /\ batch' = [batch EXCEPT ![w] = @ \cup {f}]
          /\ batchLen' = [batchLen EXCEPT ![w] = @ + 1]
          /\ UNCHANGED suppressed
     ELSE /\ suppressed' = suppressed \cup {f}
          /\ UNCHANGED <<batch, batchLen>>
  /\ UNCHANGED <<syncVars, storeVars, crawlVars, q1, q2, verifyVars, iheld,
                 index, crashes, sent, dropped, deadletter>>

(* delete_messages: from here on the batch is only in memory. *)
IDelete(w) ==
  /\ iheld[w] # {} /\ itodo[w] = {}
  /\ iheld' = [iheld EXCEPT ![w] = {}]
  /\ UNCHANGED <<syncVars, storeVars, crawlVars, q1, q2, verifyVars, itodo,
                 batch, batchLen, index, crashes, histVars>>

\* mutant of Write: the index is created anew by each bulk write
Write_Recreate(S, new) ==
  \A i \in Ids : IF \E f \in S : Id[f] = i
                 THEN new[i] \in S /\ Id[new[i]] = i
                 ELSE new[i] = NoFile

(* bulk(): each document under its internal id; of several documents of    *)
(* the batch with one id the last one stays.                               *)
Write(S, new) ==
  \A i \in Ids : IF \E f \in S : Id[f] = i
                 THEN new[i] \in S /\ Id[new[i]] = i
                 ELSE new[i] = index[i]

\* mutant of ICheckpoint: the batch is cleared without being written
ICheckpoint_KeepsBatch(w) ==
  /\ iheld[w] = {} /\ batchLen[w] >= BatchSize
  /\ batch' = [batch EXCEPT ![w] = {}]
  /\ batchLen' = [batchLen EXCEPT ![w] = 0]
  /\ UNCHANGED <<syncVars, index, storeVars, crawlVars, q1, q2, verifyVars,
                 iheld, itodo, crashes, histVars>>

ICheckpoint(w) ==
  /\ iheld[w] = {} /\ batchLen[w] >= BatchSize
  /\ \E new \in [Ids -> Files \cup {NoFile}] :
       Write(batch[w], new) /\ index' = new
  /\ batch' = [batch EXCEPT ![w] = {}]
  /\ batchLen' = [batchLen EXCEPT ![w] = 0]
  /\ UNCHANGED <<syncVars, storeVars, crawlVars, q1, q2, verifyVars, iheld,
                 itodo, crashes, histVars>>

(* bulk_index_tickets raises when some of the documents were refused: the  *)
(* others are written, the worker ends and its batch_list with it.         *)
ICheckpointFails(w) ==
  /\ iheld[w] = {} /\ batchLen[w] >= BatchSize /\ crashes < MaxCrashes
  /\ \E W \in SUBSET batch[w], new \in [Ids -> Files \cup {NoFile}] :
       /\ Write(W, new) /\ index' = new
       /\ dropped' = dropped \cup (batch[w] \ W)
  /\ batch' = [batch EXCEPT ![w] = {}]
  /\ batchLen' = [batchLen EXCEPT ![w] = 0]
  /\ crashes' = crashes + 1
  /\ UNCHANGED <<syncVars, storeVars, crawlVars, q1, q2, verifyVars, iheld,
                 itodo, sent, suppressed, deadletter>>

(* Crash, deployment or scale-in of an index worker. *)
ICrash(w) ==
  /\ crashes < MaxCrashes /\ (iheld[w] # {} \/ batch[w] # {})
  /\ \E D \in SUBSET iheld[w] :
       /\ HasRoom(q2, iheld[w] \ D)
       /\ q2' = Redeliver(q2, iheld[w], D)
       /\ deadletter' = deadletter \cup D
  /\ dropped' = dropped \cup batch[w]
  /\ iheld' = [iheld EXCEPT ![w] = {}]
  /\ itodo' = [itodo EXCEPT ![w] = {}]
  /\ batch' = [batch EXCEPT ![w] = {}]
  /\ batchLen' = [batchLen EXCEPT ![w] = 0]
  /\ crashes' = crashes + 1
  /\ UNCHANGED <<syncVars, storeVars, crawlVars, q1, verifyVars, index, sent,
                 suppressed>>

IndexNext ==
  \E w \in IndexWorkers :
    \/ \E S \in SUBSET Files : \E R \in SUBSET S : IReceive(w, S, R)
    \/ \E f \in Files : IExamine(w, f)
    \/ IDelete(w) \/ ICheckpoint(w) \/ ICheckpointFails(w) \/ ICrash(w)

-----------------------------------------------------------------------------
(* The synchronization (refresh_updated_jira_tickets). *)

(* get_jira_issues_since: issues that were updated within the last hours.  *)
(* How many hours is configured, so any current versions may be among them. *)
SyncRead ==
  /\ syncing = {}
  /\ syncing' \in SUBSET {f \in Synced : Current(f)}
  /\ UNCHANGED <<storeVars, crawlVars, q1, q2, verifyVars, indexVars, index,
                 crashes, histVars, synced, overtaken>>

(* bulk_index_tickets: no check_should_index_document and no duplicate      *)
(* filter.  Some documents may be refused, which raises.                    *)
SyncWrite ==
  /\ syncing # {}
  /\ \E W \in SUBSET syncing :
       /\ IF W = syncing THEN UNCHANGED crashes
                         ELSE crashes < MaxCrashes /\ crashes' = crashes + 1
       /\ \E new \in [Ids -> Files \cup {NoFile}] : Write(W, new) /\ index' = new
       /\ synced' = synced \cup W
       /\ overtaken' = overtaken \cup {f \in (remote \cap Searched) \ sent :
                                          \E g \in W : Dir[f] < Born[g]}
  /\ syncing' = {}
  /\ UNCHANGED <<storeVars, crawlVars, q1, q2, verifyVars, indexVars, histVars>>

SyncNext == SyncRead \/ SyncWrite

-----------------------------------------------------------------------------
Next ==
  \/ NextDay \/ (\E f \in Files : Publish(f))
  \/ CrawlNext \/ CrawlCrash \/ VerifyNext \/ IndexNext \/ SyncNext

Spec == Init /\ [][Next]_vars

(* The tasks are restarted forever and poll forever.  SQS hands a message  *)
(* to any of the consumers that poll, so none of them is passed over       *)
(* forever.  Days go by; nothing obliges the source to publish.            *)
Fairness ==
  /\ WF_vars(NextDay)
  /\ WF_vars(CrawlStart) /\ WF_vars(BeginSending) /\ WF_vars(CrawlDone)
  /\ \A f \in Files : WF_vars(StoreFile(f)) /\ SF_vars(SendFile(f))
  /\ \A w \in VerifyWorkers, f \in Files :
       SF_vars(\E S \in SUBSET Files : f \in S /\ VReceive(w, S))
  /\ \A w \in VerifyWorkers : SF_vars(VForward(w)) /\ WF_vars(VDelete(w))
  /\ \A w \in IndexWorkers, f \in Files :
       /\ SF_vars(\E S \in SUBSET Files : f \in S /\ \E R \in SUBSET S : IReceive(w, S, R))
       /\ WF_vars(IExamine(w, f))
  /\ \A w \in IndexWorkers : WF_vars(IDelete(w)) /\ WF_vars(ICheckpoint(w))

FairSpec == Spec /\ Fairness

-----------------------------------------------------------------------------
(* The crawl resumes at the day of the latest indexed document             *)
(* (_crawl_documents_for_data_source), so a file that is in S3 but was      *)
(* never enqueued must not be older than that day: every later crawl would  *)
(* pass it over.  Crashes of all programs allowed; the synchronization is   *)
(* the one that may do it, by writing a document that is younger than a     *)
(* file the crawl has yet to send.                                          *)
WatermarkBehindUnsent ==
  \A f \in (s3 \ sent) \ overtaken : \A i \in Indexed : Born[index[i]] <= Dir[f]

(* Comment of _crawl_documents_for_data_source, lines 185-188: after the    *)
(* update S3 is at least as recent as OpenSearch was before it, otherwise   *)
(* yield_intermediate_dates raises and the source is not crawled at all.    *)
(* Only issues that the synchronization wrote and the crawl's search leaves *)
(* out, as they are now, can put the index ahead.                           *)
LeftOut == {g \in remote \ Searched : Current(g) /\ \E f \in synced : Id[f] = Id[g]}
IndexNotAheadOfS3 ==
  pc = "updating" /\ ToStore = {} /\ LeftOut = {} => startDay <= checkpoint

InVerify(f) == q1[f] > 0 \/ \E w \in VerifyWorkers : f \in vheld[w]
InIndexer(f) ==
  \/ q2[f] > 0
  \/ \E w \in IndexWorkers : f \in iheld[w] \/ f \in batch[w]
Lost(f) == f \in dropped \/ f \in deadletter
IsIndexed(f) == index[Id[f]] # NoFile

(* Each worker hands a message on before it deletes it: an accepted        *)
(* document that was enqueued is on its way, searchable, dropped as a      *)
(* duplicate, or went down with an index worker's batch_list or to the     *)
(* dead letters; no other step loses it.                                   *)
NothingLostSilently ==
  \A f \in sent \cap Indexable :
    InVerify(f) \/ InIndexer(f) \/ IsIndexed(f) \/ f \in suppressed \/ Lost(f)

(* An email is only dropped while a document with the same sender, header  *)
(* and body is searchable, still on its way or lost in a crash: emails     *)
(* never suppress each other in a circle (dedup_document_batch,            *)
(* recent_duplicate_exists).                                               *)
SuppressedIsRepresented ==
  \A f \in suppressed :
    \E g \in Files : /\ Key[g] = Key[f]
                     /\ IsIndexed(g) \/ InIndexer(g) \/ Lost(g)

(* Every document the source publishes, the crawl finds and                *)
(* check_should_index_document accepts becomes searchable, is dropped as a *)
(* duplicate, or is one that an index worker's crash or the dead-letter    *)
(* queue took.  A batch that is not full is completed by the documents     *)
(* each crawl sends again.  A version that is replaced may not be fetched, *)
(* and the synchronization may keep a crawl from sending.                  *)
EventuallySearchable ==
  \A f \in Indexable \cap Searched :
    f \in remote ~> \/ IsIndexed(f) \/ f \in suppressed \/ Lost(f)
                   \/ ~Current(f) \/ f \in overtaken \/ LeftOut # {}

(* The pipeline keeps the promise of DeliveryPromise: what is searchable   *)
(* was enqueued before or put there by the synchronization, and nothing    *)
(* searchable or enqueued is forgotten, through every crash.               *)
Promise == INSTANCE DeliveryPromise
             WITH Docs      <- Ids,
                  accepted  <- {Id[f] : f \in sent \cup synced},
                  delivered <- Indexed,
                  forfeited <- {Id[f] : f \in dropped \cup deadletter}
KeepsPromise == Promise!Spec
=============================================================================
