------------------------------ MODULE Embeddings ------------------------------
(***************************************************************************)
(* Three programs write whole documents into the same index: the index     *)
(* worker, the hourly synchronization of Jira (sync_jira_tickets.py) and    *)
(* the daily job that adds missing embeddings                               *)
(* (ensure_embeddings_populated.py).  Each has read what it writes some     *)
(* time before.  An embedding is asked for when a document is written and   *)
(* left out when the service fails (populate_embedding_vectors).            *)
(*                                                                         *)
(* A document is the number of its version; 0 stands for "none".            *)
(***************************************************************************)
EXTENDS Naturals, FiniteSets, Functions

CONSTANTS
  Documents,    \* Jira issues
  BatchSize,    \* _BULK_INDEX_BATCH_SIZE
  LastVersion,  \* [Documents -> bound on the updates of each issue]
  MaxFaults     \* bound on failing requests and stopped programs

Assumptions ==
  /\ IsFiniteSet(Documents)
  /\ BatchSize \in Nat \ {0} /\ LastVersion \in [Documents -> Nat] /\ MaxFaults \in Nat

VARIABLES
  remote,   \* Jira: the version of each issue
  fresh,    \* issues that were updated within the last hour
  index,    \* the document of each issue and the version its embedding is of
  worker,   \* the batch of the index worker
  sync,     \* the synchronization under way
  job,      \* the daily job under way
  faults,
  overlaps  \* history: issues that one program wrote while another held them

vars == <<remote, fresh, index, worker, sync, job, faults, overlaps>>

Versions == UNION {0 .. LastVersion[d] : d \in Documents}
Stored == [version : Versions, vector : Versions]
Nothing == [version |-> 0, vector |-> 0]

(* What a program has read, a document for each issue; the job goes through *)
(* docs and collects in batch the ones to write.                            *)
None == [d \in {} |-> Nothing]
Idle == [at |-> "idle", docs |-> None, batch |-> None]

IsProgram(p) ==
  /\ p \in [at : {"idle", "read", "scan", "write"},
            docs : [DOMAIN p.docs -> Stored], batch : [DOMAIN p.batch -> Stored]]
  /\ DOMAIN p.docs \subseteq Documents /\ DOMAIN p.batch \subseteq Documents

TypeOK ==
  /\ remote \in [Documents -> Versions]
  /\ fresh \subseteq Documents
  /\ index \in [Documents -> Stored]
  /\ IsProgram(worker) /\ IsProgram(sync) /\ IsProgram(job)
  /\ Cardinality(DOMAIN job.batch) <= BatchSize
  /\ faults \in 0 .. MaxFaults
  /\ overlaps \subseteq Documents

Init ==
  /\ remote = [d \in Documents |-> 0]
  /\ fresh = {}
  /\ index = [d \in Documents |-> Nothing]
  /\ worker = Idle /\ sync = Idle /\ job = Idle
  /\ faults = 0
  /\ overlaps = {}

-----------------------------------------------------------------------------
Fault == faults < MaxFaults /\ faults' = faults + 1

(* What a program has read and has still to write.                          *)
Held(p) == IF p.at = "idle" THEN {} ELSE DOMAIN p.docs \cup DOMAIN p.batch

(* Somebody creates or updates an issue.                                    *)
Update(d) ==
  /\ remote[d] < LastVersion[d]
  /\ remote' = [remote EXCEPT ![d] = @ + 1]
  /\ fresh' = fresh \cup {d}
  /\ UNCHANGED <<index, worker, sync, job, faults, overlaps>>

(* More than an hour has passed since.                                      *)
HourPasses(d) ==
  /\ d \in fresh
  /\ fresh' = fresh \ {d}
  /\ UNCHANGED <<remote, index, worker, sync, job, faults, overlaps>>

(* bulk_index_tickets: whole documents replace whatever is indexed.         *)
(* overlaps takes note of the issues that another program holds.            *)
BulkIndex(docs, others) ==
  /\ index' = [d \in Documents |-> IF d \in DOMAIN docs THEN docs[d] ELSE index[d]]
  /\ overlaps' = overlaps \cup (DOMAIN docs \cap others)

(* populate_embedding_vectors: an embedding of each text that the service   *)
(* answers for, and none for the rest, whatever the document had.           *)
Populated(docs, failing) ==
  [d \in DOMAIN docs |-> [version |-> docs[d].version,
                          vector |-> IF d \in failing THEN 0 ELSE docs[d].version]]

(* populate_embedding_vectors, then bulk_index_tickets.  The embedding       *)
(* service fails for some of the documents, or for none.                     *)
EmbedAndIndex(docs, others) ==
  \E failing \in SUBSET DOMAIN docs :
    /\ IF failing = {} THEN UNCHANGED faults ELSE Fault
    /\ BulkIndex(Populated(docs, failing), others)

-----------------------------------------------------------------------------
(* A document without an embedding.                                         *)
Plain(version) == [version |-> version, vector |-> 0]

(* A document as Jira answers it.                                           *)
AsInJira(d) == Plain(remote[d])

(* The index worker: the message of an issue waits in the batch until the   *)
(* worker writes it.  The file of each day on which an issue was updated    *)
(* keeps the issue as it then was, every crawl sends the files of some days *)
(* again, the queue has no order and up to twenty workers empty it: any     *)
(* version that ever was may be in the message (yield_intermediate_dates).  *)
Crawl(d) ==
  /\ worker.at = "idle"
  /\ \E version \in 1 .. remote[d] :
       worker' = [at |-> "write", docs |-> [e \in {d} |-> Plain(version)], batch |-> None]
  /\ UNCHANGED <<remote, fresh, index, sync, job, faults, overlaps>>

IndexCrawled ==
  /\ worker.at = "write"
  /\ EmbedAndIndex(worker.docs, Held(sync) \cup Held(job))
  /\ worker' = Idle
  /\ UNCHANGED <<remote, fresh, sync, job>>

-----------------------------------------------------------------------------
(* get_jira_issues_since: the issues that were updated in the last hour.    *)
SyncStart ==
  /\ sync.at = "idle" /\ fresh # {}
  /\ sync' = [at |-> "read", docs |-> [d \in fresh |-> AsInJira(d)], batch |-> None]
  /\ UNCHANGED <<remote, fresh, index, worker, job, faults, overlaps>>

(* A mistake: the synchronization drops the embeddings.                     *)
SyncReadIndex_NoEmbeddings ==
  /\ sync.at = "read"
  /\ sync' = [sync EXCEPT !.at = "write"]
  /\ UNCHANGED <<remote, fresh, index, worker, job, faults, overlaps>>

(* The embeddings that are in the index are kept.                           *)
SyncReadIndex ==
  /\ sync.at = "read"
  /\ sync' = [at |-> "write", batch |-> None,
              docs |-> [d \in DOMAIN sync.docs |->
                          [version |-> sync.docs[d].version, vector |-> index[d].vector]]]
  /\ UNCHANGED <<remote, fresh, index, worker, job, faults, overlaps>>

SyncWrite ==
  /\ sync.at = "write"
  /\ BulkIndex(sync.docs, Held(worker) \cup Held(job))
  /\ sync' = Idle
  /\ UNCHANGED <<remote, fresh, worker, job, faults>>

-----------------------------------------------------------------------------
Indexed == {d \in Documents : index[d].version # 0}

(* The scroll shows the index as it is now until it is at its end.          *)
JobStart ==
  /\ job.at = "idle"
  /\ job' = [at |-> "scan", docs |-> Restrict(index, Indexed), batch |-> None]
  /\ UNCHANGED <<remote, fresh, index, worker, sync, faults, overlaps>>

(* The next document, in whatever order: one without an embedding is        *)
(* collected, and a full batch is written before the scan goes on.          *)
JobScan ==
  /\ job.at = "scan"
  /\ \E d \in DOMAIN job.docs :
       LET taken == IF job.docs[d].vector = 0 THEN {d} ELSE {}
           batch == [e \in DOMAIN job.batch \cup taken |->
                       IF e = d THEN job.docs[d] ELSE job.batch[e]]
       IN job' = [at |-> IF Cardinality(DOMAIN batch) >= BatchSize THEN "write" ELSE "scan",
                  docs |-> Restrict(job.docs, DOMAIN job.docs \ {d}), batch |-> batch]
  /\ UNCHANGED <<remote, fresh, index, worker, sync, faults, overlaps>>

JobWrite ==
  /\ job.at = "write"
  /\ EmbedAndIndex(job.batch, Held(worker) \cup Held(sync))
  /\ job' = [job EXCEPT !.at = "scan", !.batch = None]
  /\ UNCHANGED <<remote, fresh, worker, sync>>

(* The last batch may be smaller than the others, or empty.                 *)
JobEnds ==
  /\ job.at = "scan" /\ DOMAIN job.docs = {}
  /\ EmbedAndIndex(job.batch, Held(worker) \cup Held(sync))
  /\ job' = Idle
  /\ UNCHANGED <<remote, fresh, worker, sync>>

-----------------------------------------------------------------------------
(* A request raises, or the task is stopped: what a program held is gone.   *)
(* The worker's message was deleted when it entered the batch.              *)
Interrupted ==
  /\ Fault
  /\ \/ worker.at # "idle" /\ worker' = Idle /\ UNCHANGED <<sync, job>>
     \/ sync.at # "idle" /\ sync' = Idle /\ UNCHANGED <<worker, job>>
     \/ job.at # "idle" /\ job' = Idle /\ UNCHANGED <<worker, sync>>
  /\ UNCHANGED <<remote, fresh, index, overlaps>>

Job == JobStart \/ JobScan \/ JobWrite \/ JobEnds
SyncGoesOn == SyncReadIndex \/ SyncWrite
Surroundings == \E d \in Documents : Update(d) \/ Crawl(d)

Next == Job \/ SyncStart \/ SyncGoesOn \/ IndexCrawled \/ Interrupted \/ Surroundings
        \/ \E d \in Documents : HourPasses(d)

-----------------------------------------------------------------------------
(* The worker writes what is in its batch.                                  *)
WorkerWrites(d) == worker.at = "write" /\ worker' # worker /\ d \in DOMAIN worker.docs

(* Neither the hourly synchronization nor the daily job puts an older       *)
(* version of a document in the place of a newer one, although both write   *)
(* what they read before, unless another program wrote it meanwhile; only   *)
(* the worker, handed an old file of S3, takes a document back, and to no   *)
(* other version than the one it was handed (bulk_index_tickets,            *)
(* refresh_updated_jira_tickets, ensure_embeddings_populated.py).           *)
KeepsNewest ==
  \A d \in Documents \ overlaps' :
    index'[d].version < index[d].version =>
      WorkerWrites(d) /\ index'[d].version = worker.docs[d].version

(* Only a document whose embedding the service refused loses one; neither   *)
(* the synchronization, which asks for none, nor the job, which looks at    *)
(* the ones without, ever does, unless they overlap                         *)
(* (refresh_updated_jira_tickets, ensure_embeddings_populated.py).          *)
KeepsEmbeddings ==
  \A d \in Documents \ overlaps' :
    index[d].vector # 0 /\ index'[d].vector = 0 => faults' > faults

(* Every indexed document has an embedding in the end, although requests to *)
(* the service fail and the programs overlap (ensure_embeddings_populated). *)
AllEmbedded == \A d \in Indexed : index[d].vector # 0
=============================================================================
