------------------------ MODULE IngestPipelineProofs ------------------------
(***************************************************************************)
(* Proofs about IngestPipeline, for every set of files, documents and      *)
(* workers and every value of the bounds.  The inductive invariant is the  *)
(* conjunction of TypeOK and of the five groups of facts below.            *)
(***************************************************************************)
EXTENDS IngestPipeline, TLAPS

(* Where files come from: each place holds only what the one before it     *)
(* held, and a document is indexed under its own id.                       *)
Provenance ==
  /\ s3 \subseteq remote \cap Searched
  /\ syncing \subseteq remote /\ synced \subseteq remote
  /\ overtaken \subseteq remote
  /\ sent \subseteq s3 /\ todo \subseteq s3
  /\ \A f \in remote : Dir[f] <= today
  /\ \A f \in Files : q1[f] > 0 => f \in sent
  /\ \A f \in Files : q2[f] > 0 => f \in sent \cap Indexable
  /\ \A w \in VerifyWorkers : vheld[w] \subseteq sent
  /\ \A w \in IndexWorkers : /\ iheld[w] \subseteq sent \cap Indexable
                             /\ itodo[w] \subseteq iheld[w]
                             /\ batch[w] \subseteq sent
  /\ \A i \in Ids : index[i] # NoFile => index[i] \in sent \cup synced /\ Id[index[i]] = i
  /\ dropped \subseteq sent /\ deadletter \subseteq sent

(* What may still go to the queue for the first time, and that the         *)
(* synchronization has not overtaken: it is in S3, or a search of the      *)
(* update may still find it.                                               *)
Pending ==
  ((s3 \ sent) \cup {f \in (remote \cap Searched) \ s3 : checkpoint <= Dir[f]})
    \ overtaken

(* The order that keeps the watermark behind what was not sent: what is    *)
(* pending is no older than what was sent or written by the                *)
(* synchronization, and a crawl under way starts at the day of one of      *)
(* these and behind everything pending.                                    *)
CrawlOrder ==
  /\ \A g \in s3 : Dir[g] <= checkpoint
  /\ \A f \in Pending : /\ \A g \in sent : Dir[g] <= Dir[f]
                        /\ \A g \in synced : Born[g] <= Dir[f]
  /\ pc # "idle" => \A f \in Pending : startDay <= Dir[f]
  /\ pc # "idle" /\ startDay # 0 => \E g \in sent \cup synced : startDay = Born[g]
  /\ pc = "sending" => (s3 \ sent) \ overtaken \subseteq todo

(* Each document the source has shows some version.                        *)
ShowsOne == \A g \in remote : \E h \in remote : Id[h] = Id[g] /\ Current(h)

(* Where an accepted document can be once a verify worker handed it on.    *)
Downstream(f) == InIndexer(f) \/ IsIndexed(f) \/ f \in suppressed \/ Lost(f)

(* What a worker knows before it deletes its messages.                     *)
HandedOn ==
  /\ \A w \in VerifyWorkers :
       vsent[w] => /\ vheld[w] # {}
                   /\ \A f \in vheld[w] \cap Indexable : Downstream(f)
  /\ \A w \in IndexWorkers : \A f \in iheld[w] \ itodo[w] :
       f \in batch[w] \/ f \in suppressed

(* Some file with the key of f is still to be examined by w, in w's batch, *)
(* or searchable.                                                          *)
KeyCovered(w, f) ==
  \E g \in Files : /\ Key[g] = Key[f]
                   /\ g \in itodo[w] \/ g \in batch[w] \/ IsIndexed(g)
HeldIsCovered == \A w \in IndexWorkers : \A f \in iheld[w] : KeyCovered(w, f)

IInv == TypeOK /\ Provenance /\ CrawlOrder /\ ShowsOne /\ HandedOn /\ HeldIsCovered

-----------------------------------------------------------------------------
(* Constants and queues. *)

USE DEF Threshold

LEMMA QueueTypes ==
  ASSUME NEW q \in [Files -> Nat], NEW S \in SUBSET Files
  PROVE  /\ Enqueue(q, S) \in [Files -> Nat]
         /\ Receivable(q, S) => Dequeue(q, S) \in [Files -> Nat]
         /\ \A f \in Files : Enqueue(q, S)[f] = IF f \in S THEN q[f] + 1 ELSE q[f]
         /\ \A f \in Files : Dequeue(q, S)[f] = IF f \in S THEN q[f] - 1 ELSE q[f]
BY DEF Enqueue, Dequeue, Receivable

-----------------------------------------------------------------------------
(* The variables keep their types. *)

LEMMA TypeInit == Init => TypeOK
BY FilesAssumption, BoundAssumption DEF Init, TypeOK

LEMMA TypeStep == TypeOK /\ [Next]_vars => TypeOK'
<1> SUFFICES ASSUME TypeOK, [Next]_vars PROVE TypeOK'
  OBVIOUS
<1> USE DEF TypeOK, storeVars, crawlVars, verifyVars, indexVars, histVars, syncVars
<1>1. CASE NextDay
  BY <1>1 DEF NextDay
<1>2. ASSUME NEW f \in Files, Publish(f) PROVE TypeOK'
  BY <1>2 DEF Publish
<1>3. CASE CrawlStart
  BY <1>3, FilesAssumption, NullAssumption DEF CrawlStart, Indexed
<1>4. ASSUME NEW f \in Files, StoreFile(f) PROVE TypeOK'
  BY <1>4, FilesAssumption DEF StoreFile
<1>5. CASE BeginSending
  BY <1>5 DEF BeginSending
<1>6. ASSUME NEW f \in Files, SendFile(f) PROVE TypeOK'
  BY <1>6, QueueTypes DEF SendFile
<1>7. CASE CrawlDone
  BY <1>7 DEF CrawlDone
<1>8. CASE CrawlCrash
  BY <1>8 DEF CrawlCrash
<1>9. ASSUME NEW w \in VerifyWorkers, NEW S \in SUBSET Files, VReceive(w, S)
      PROVE  TypeOK'
  BY <1>9, QueueTypes DEF VReceive
<1>10. ASSUME NEW w \in VerifyWorkers, VForward(w) PROVE TypeOK'
  <2>1. vheld[w] \cap Indexable \in SUBSET Files
    OBVIOUS
  <2> QED BY <1>10, <2>1, QueueTypes DEF VForward
<1>11. ASSUME NEW w \in VerifyWorkers, VDelete(w) PROVE TypeOK'
  BY <1>11 DEF VDelete
<1>12. ASSUME NEW w \in VerifyWorkers, VSkip(w) \/ VCrash(w) PROVE TypeOK'
  <2>1. /\ crashes' = crashes + 1
        /\ UNCHANGED <<storeVars, crawlVars, q2, indexVars, index, sent,
                       suppressed, dropped, syncVars>>
    BY <1>12 DEF VSkip, VCrash
  <2>2. PICK D \in SUBSET vheld[w] : /\ q1' = Enqueue(q1, vheld[w] \ D)
                                     /\ deadletter' = deadletter \cup D
                                     /\ vheld' = [vheld EXCEPT ![w] = {}]
                                     /\ vsent' = [vsent EXCEPT ![w] = FALSE]
    BY <1>12 DEF VSkip, VCrash, VRelease, Redeliver
  <2>3. D \in SUBSET Files /\ vheld[w] \ D \in SUBSET Files
    OBVIOUS
  <2>4. q1' \in [Files -> Nat]
    BY <2>2, <2>3, QueueTypes
  <2>5. deadletter' \subseteq Files
    BY <2>2, <2>3
  <2>6. vheld' \in [VerifyWorkers -> SUBSET Files] /\ vsent' \in [VerifyWorkers -> BOOLEAN]
    BY <2>2
  <2> QED BY <2>1, <2>4, <2>5, <2>6
<1>13. ASSUME NEW w \in IndexWorkers, NEW S \in SUBSET Files,
              NEW R \in SUBSET S, IReceive(w, S, R)
       PROVE  TypeOK'
  BY <1>13, QueueTypes DEF IReceive
<1>14. ASSUME NEW w \in IndexWorkers, NEW f \in Files, IExamine(w, f)
       PROVE  TypeOK'
  BY <1>14 DEF IExamine
<1>15. ASSUME NEW w \in IndexWorkers, IDelete(w) PROVE TypeOK'
  BY <1>15 DEF IDelete
<1>16. ASSUME NEW w \in IndexWorkers, ICheckpoint(w) PROVE TypeOK'
  BY <1>16 DEF ICheckpoint
<1>17. ASSUME NEW w \in IndexWorkers, ICheckpointFails(w) PROVE TypeOK'
  BY <1>17 DEF ICheckpointFails
<1>18. ASSUME NEW w \in IndexWorkers, ICrash(w) PROVE TypeOK'
  <2>1. PICK D \in SUBSET iheld[w] : /\ q2' = Enqueue(q2, iheld[w] \ D)
                                     /\ deadletter' = deadletter \cup D
    BY <1>18 DEF ICrash, Redeliver
  <2>2. D \in SUBSET Files /\ iheld[w] \ D \in SUBSET Files
    OBVIOUS
  <2>3. q2' \in [Files -> Nat]
    BY <2>1, <2>2, QueueTypes
  <2>4. deadletter' \subseteq Files
    BY <2>1, <2>2
  <2> QED BY <1>18, <2>3, <2>4 DEF ICrash
<1>19. CASE SyncRead
  BY <1>19, FilesAssumption DEF SyncRead
<1>20. CASE SyncWrite
  <2>1. PICK W \in SUBSET syncing :
          /\ IF W = syncing THEN UNCHANGED crashes
                            ELSE crashes < MaxCrashes /\ crashes' = crashes + 1
          /\ \E new \in [Ids -> Files \cup {NoFile}] : Write(W, new) /\ index' = new
          /\ synced' = synced \cup W
          /\ overtaken' = overtaken \cup {f \in (remote \cap Searched) \ sent :
                                           \E g \in W : Dir[f] < Born[g]}
    BY <1>20 DEF SyncWrite
  <2>2. /\ syncing' = {}
        /\ UNCHANGED <<storeVars, crawlVars, q1, q2, verifyVars, indexVars, histVars>>
    BY <1>20 DEF SyncWrite
  <2>3. index' \in [Ids -> Files \cup {NoFile}] /\ crashes' \in Nat
    BY <2>1
  <2>4. synced' \subseteq Files /\ overtaken' \subseteq Files
    BY <2>1
  <2> QED BY <2>2, <2>3, <2>4
<1>21. CASE UNCHANGED vars
  BY <1>21 DEF vars
<1> QED
  BY <1>1, <1>2, <1>3, <1>4, <1>5, <1>6, <1>7, <1>8, <1>9, <1>10, <1>11, <1>12,
     <1>13, <1>14, <1>15, <1>16, <1>17, <1>18, <1>19, <1>20, <1>21
  DEF Next, CrawlNext, VerifyNext, IndexNext, SyncNext

(* Every variable of the pipeline keeps its type.                          *)
THEOREM TypeCorrect == Spec => []TypeOK
BY TypeInit, TypeStep, PTL DEF Spec

-----------------------------------------------------------------------------
(* What comes out of a place went into it, and files reach S3 and the      *)
(* queue in the order of their directories.                                *)

LEMMA ProvenanceInit == Init => Provenance
BY NullAssumption DEF Init, Provenance

(* What bulk() leaves under an id is a document of the batch with that id. *)
LEMMA WriteFacts ==
  ASSUME TypeOK, NEW S \in SUBSET Files, NEW new, Write(S, new), NEW i \in Ids
  PROVE  /\ new[i] # NoFile => \/ new[i] \in S /\ Id[new[i]] = i
                              \/ new[i] = index[i]
         /\ index[i] # NoFile => new[i] # NoFile
BY NullAssumption DEF Write, TypeOK

LEMMA ProvenanceStep == TypeOK /\ Provenance /\ [Next]_vars => Provenance'
<1> SUFFICES ASSUME TypeOK, Provenance, [Next]_vars PROVE Provenance'
  OBVIOUS
<1> USE DEF TypeOK, Provenance, storeVars, crawlVars, verifyVars, indexVars,
            histVars, syncVars
<1>1. CASE NextDay
  BY <1>1, FilesAssumption DEF NextDay
<1>2. ASSUME NEW f \in Files, Publish(f) PROVE Provenance'
  BY <1>2, FilesAssumption DEF Publish
<1>3. CASE CrawlStart
  BY <1>3 DEF CrawlStart
<1>4. ASSUME NEW f \in Files, StoreFile(f) PROVE Provenance'
  BY <1>4 DEF StoreFile
<1>5. CASE BeginSending
  BY <1>5 DEF BeginSending
<1>6. ASSUME NEW f \in Files, SendFile(f) PROVE Provenance'
  <2>1. \A g \in Files : q1'[g] > 0 => g \in sent'
    BY <1>6, QueueTypes DEF SendFile
  <2>2. sent \subseteq sent' /\ f \in s3
    BY <1>6 DEF SendFile
  <2> QED BY <1>6, <2>1, <2>2 DEF SendFile
<1>7. CASE CrawlDone
  BY <1>7 DEF CrawlDone
<1>8. CASE CrawlCrash
  BY <1>8 DEF CrawlCrash
<1>9. ASSUME NEW w \in VerifyWorkers, NEW S \in SUBSET Files, VReceive(w, S)
      PROVE  Provenance'
  <2>1. \A g \in Files : q1'[g] > 0 => g \in sent'
    BY <1>9, QueueTypes DEF VReceive, Receivable
  <2>2. \A v \in VerifyWorkers : vheld'[v] \subseteq sent'
    BY <1>9 DEF VReceive, Receivable
  <2> QED BY <1>9, <2>1, <2>2 DEF VReceive
<1>10. ASSUME NEW w \in VerifyWorkers, VForward(w) PROVE Provenance'
  <2>1. vheld[w] \cap Indexable \in SUBSET Files
    OBVIOUS
  <2>2. \A g \in Files : q2'[g] > 0 => g \in sent' \cap Indexable
    BY <1>10, <2>1, QueueTypes DEF VForward
  <2> QED BY <1>10, <2>2 DEF VForward
<1>11. ASSUME NEW w \in VerifyWorkers, VDelete(w) PROVE Provenance'
  BY <1>11 DEF VDelete
<1>12. ASSUME NEW w \in VerifyWorkers, VSkip(w) \/ VCrash(w)
       PROVE  Provenance'
  <2>1. UNCHANGED <<storeVars, crawlVars, q2, indexVars, index, sent,
                    suppressed, dropped, syncVars>>
    BY <1>12 DEF VSkip, VCrash
  <2>2. PICK D \in SUBSET vheld[w] : /\ q1' = Enqueue(q1, vheld[w] \ D)
                                     /\ deadletter' = deadletter \cup D
                                     /\ vheld' = [vheld EXCEPT ![w] = {}]
    BY <1>12 DEF VSkip, VCrash, VRelease, Redeliver
  <2>3. vheld[w] \ D \in SUBSET Files
    OBVIOUS
  <2>4. \A g \in Files : q1'[g] > 0 => g \in sent'
    BY <2>1, <2>2, <2>3, QueueTypes
  <2>5. deadletter' \subseteq sent'
    BY <2>1, <2>2
  <2>6. \A v \in VerifyWorkers : vheld'[v] \subseteq sent'
    BY <2>1, <2>2
  <2> QED BY <2>1, <2>4, <2>5, <2>6
<1>13. ASSUME NEW w \in IndexWorkers, NEW S \in SUBSET Files,
              NEW R \in SUBSET S, IReceive(w, S, R)
       PROVE  Provenance'
  <2>1. \A g \in Files : q2'[g] > 0 => g \in sent' \cap Indexable
    BY <1>13, QueueTypes DEF IReceive, Receivable
  <2>2. S \subseteq sent \cap Indexable
    BY <1>13 DEF IReceive, Receivable
  <2>3. \A v \in IndexWorkers : /\ iheld'[v] \subseteq sent' \cap Indexable
                                /\ itodo'[v] \subseteq iheld'[v]
                                /\ batch'[v] \subseteq sent'
    BY <1>13, <2>2 DEF IReceive
  <2> QED BY <1>13, <2>1, <2>3 DEF IReceive
<1>14. ASSUME NEW w \in IndexWorkers, NEW f \in Files, IExamine(w, f)
       PROVE  Provenance'
  <2>1. \A v \in IndexWorkers : /\ itodo'[v] \subseteq iheld'[v]
                                /\ batch'[v] \subseteq sent'
    BY <1>14 DEF IExamine
  <2> QED BY <1>14, <2>1 DEF IExamine
<1>15. ASSUME NEW w \in IndexWorkers, IDelete(w) PROVE Provenance'
  BY <1>15 DEF IDelete
<1>16. ASSUME NEW w \in IndexWorkers, ICheckpoint(w) PROVE Provenance'
  <2>1. Write(batch[w], index') /\ batch[w] \in SUBSET Files
    BY <1>16 DEF ICheckpoint
  <2>2. ASSUME NEW i \in Ids, index'[i] # NoFile
        PROVE  index'[i] \in sent \cup synced /\ Id[index'[i]] = i
    <3>1. \/ index'[i] \in batch[w] /\ Id[index'[i]] = i
          \/ index'[i] = index[i]
      BY <2>1, <2>2, WriteFacts
    <3> QED BY <2>2, <3>1
  <2> QED BY <1>16, <2>2 DEF ICheckpoint
<1>17. ASSUME NEW w \in IndexWorkers, ICheckpointFails(w) PROVE Provenance'
  <2>1. PICK W \in SUBSET batch[w] : /\ Write(W, index')
                                     /\ dropped' = dropped \cup (batch[w] \ W)
    BY <1>17 DEF ICheckpointFails
  <2>2. \A i \in Ids : index'[i] # NoFile
                          => index'[i] \in sent \cup synced /\ Id[index'[i]] = i
    BY <2>1, WriteFacts
  <2>3. dropped' \subseteq sent
    BY <2>1
  <2>4. \A v \in IndexWorkers : batch'[v] \subseteq sent
    BY <1>17 DEF ICheckpointFails
  <2>5. UNCHANGED <<storeVars, crawlVars, q1, q2, verifyVars, iheld, itodo,
                    sent, suppressed, deadletter, syncVars>>
    BY <1>17 DEF ICheckpointFails
  <2> QED BY <2>2, <2>3, <2>4, <2>5
<1>18. ASSUME NEW w \in IndexWorkers, ICrash(w) PROVE Provenance'
  <2>1. PICK D \in SUBSET iheld[w] : /\ q2' = Enqueue(q2, iheld[w] \ D)
                                     /\ deadletter' = deadletter \cup D
    BY <1>18 DEF ICrash, Redeliver
  <2>2. D \in SUBSET sent /\ iheld[w] \ D \in SUBSET (sent \cap Indexable)
    OBVIOUS
  <2>3. \A g \in Files : q2'[g] > 0 => g \in sent \cap Indexable
    BY <2>1, <2>2, QueueTypes
  <2>4. deadletter' \subseteq sent
    BY <2>1, <2>2
  <2> QED BY <1>18, <2>3, <2>4 DEF ICrash
<1>19. CASE SyncRead
  BY <1>19 DEF SyncRead, Current
<1>20. CASE SyncWrite
  <2>1. PICK W \in SUBSET syncing :
          /\ Write(W, index')
          /\ synced' = synced \cup W
          /\ overtaken' = overtaken \cup {f \in (remote \cap Searched) \ sent :
                                           \E g \in W : Dir[f] < Born[g]}
    BY <1>20 DEF SyncWrite
  <2>2. /\ syncing' = {}
        /\ UNCHANGED <<storeVars, crawlVars, q1, q2, verifyVars, indexVars, histVars>>
    BY <1>20 DEF SyncWrite
  <2>3. W \in SUBSET Files /\ synced' \subseteq remote /\ overtaken' \subseteq remote
    BY <2>1
  <2>4. \A i \in Ids : index'[i] # NoFile
                          => index'[i] \in sent \cup synced' /\ Id[index'[i]] = i
    BY <2>1, <2>3, WriteFacts
  <2> QED BY <2>2, <2>3, <2>4
<1>21. CASE UNCHANGED vars
  BY <1>21 DEF vars
<1> QED
  BY <1>1, <1>2, <1>3, <1>4, <1>5, <1>6, <1>7, <1>8, <1>9, <1>10, <1>11, <1>12,
     <1>13, <1>14, <1>15, <1>16, <1>17, <1>18, <1>19, <1>20, <1>21
  DEF Next, CrawlNext, VerifyNext, IndexNext, SyncNext

(* The workers never touch the bucket, the crawler, the sent history or    *)
(* what the synchronization does.                                          *)
LEMMA WorkersLeaveCrawl ==
  VerifyNext \/ IndexNext => UNCHANGED <<storeVars, crawlVars, sent, syncVars>>
BY DEF VerifyNext, IndexNext, VReceive, VForward, VDelete, VSkip, VCrash,
       IReceive, IExamine, IDelete, ICheckpoint, ICheckpointFails, ICrash,
       storeVars, crawlVars, verifyVars, indexVars, histVars, syncVars

LEMMA CrawlOrderInit == Init => CrawlOrder /\ ShowsOne
BY DEF Init, CrawlOrder, Pending, ShowsOne

LEMMA ShowsOneStep == TypeOK /\ Provenance /\ ShowsOne /\ [Next]_vars => ShowsOne'
<1> SUFFICES ASSUME TypeOK, Provenance, ShowsOne, [Next]_vars PROVE ShowsOne'
  OBVIOUS
<1>1. ASSUME NEW f \in Files, Publish(f) PROVE ShowsOne'
  <2>1. remote' = remote \cup {f} /\ Dir[f] = today
    BY <1>1 DEF Publish
  <2>2. \A g \in remote : Dir[g] \in Nat /\ Dir[g] <= Dir[f]
    BY <2>1, FilesAssumption DEF TypeOK, Provenance
  <2>3. Dir[f] \in Nat
    BY FilesAssumption
  <2>4. Current(f)'
    BY <2>1, <2>2, <2>3 DEF Current
  <2>5. ASSUME NEW g \in remote, Id[g] # Id[f]
        PROVE  \E h \in remote' : Id[h] = Id[g] /\ Current(h)'
    <3>1. PICK h \in remote : Id[h] = Id[g] /\ Current(h)
      BY DEF ShowsOne
    <3>2. Current(h)'
      BY <2>1, <2>5, <3>1 DEF Current
    <3> QED BY <2>1, <3>1, <3>2
  <2> QED BY <2>1, <2>4, <2>5 DEF ShowsOne
<1>2. CASE remote' = remote
  BY <1>2 DEF ShowsOne, Current
<1> QED
  BY <1>1, <1>2, WorkersLeaveCrawl
  DEF Next, CrawlNext, SyncNext, NextDay, CrawlStart, StoreFile, BeginSending,
      SendFile, CrawlDone, CrawlCrash, SyncRead, SyncWrite, storeVars, vars

LEMMA CrawlOrderStep ==
  TypeOK /\ Provenance /\ CrawlOrder /\ [Next]_vars => CrawlOrder'
<1> SUFFICES ASSUME TypeOK, Provenance, CrawlOrder, [Next]_vars
             PROVE  CrawlOrder'
  OBVIOUS
<1> USE DEF TypeOK, CrawlOrder, storeVars, crawlVars, histVars, syncVars
<1>0. /\ s3 \subseteq remote \cap Searched /\ sent \subseteq s3 /\ todo \subseteq s3
      /\ synced \subseteq remote /\ syncing \subseteq remote /\ overtaken \subseteq remote
      /\ \A f \in remote : Dir[f] <= today
      /\ \A f \in Files : Dir[f] \in Nat /\ Born[f] \in Nat /\ Born[f] <= Dir[f]
      /\ \A i \in Indexed : index[i] \in sent \cup synced
  BY FilesAssumption DEF Provenance, Indexed
<1>a. ASSUME Pending' \subseteq Pending, UNCHANGED <<s3, checkpoint, sent, synced, crawlVars>>
      PROVE  CrawlOrder'
  <2>1. (s3 \ sent) \ overtaken' \subseteq (s3 \ sent) \ overtaken
    BY <1>a DEF Pending
  <2> QED BY <1>a, <2>1
<1>1. CASE NextDay
  BY <1>a, <1>1 DEF NextDay, Pending
<1>2. ASSUME NEW f \in Files, Publish(f) PROVE CrawlOrder'
  <2>1. /\ Dir[f] = today /\ remote' = remote \cup {f}
        /\ UNCHANGED <<s3, checkpoint, crawlVars, sent, synced, overtaken>>
    BY <1>2 DEF Publish
  <2>2. Pending' \subseteq Pending \cup {f}
    BY <2>1 DEF Pending
  <2>3. (\A g \in sent : Dir[g] <= Dir[f]) /\ \A g \in synced : Born[g] <= Dir[f]
    BY <1>0, <2>1
  <2>4. pc # "idle" => startDay <= Dir[f]
    BY <1>0, <2>1
  <2> QED BY <1>0, <2>1, <2>2, <2>3, <2>4
<1>3. CASE CrawlStart
  <2>1. \/ startDay' = 0
        \/ \E i \in Indexed : startDay' = Born[index[i]]
    BY <1>3 DEF CrawlStart
  <2>2. /\ UNCHANGED <<storeVars, sent, synced, overtaken>> /\ pc' = "updating"
        /\ Pending' = Pending
    BY <1>3 DEF CrawlStart, Pending
  <2>3. CASE startDay' = 0
    BY <1>0, <2>2, <2>3 DEF Pending
  <2>4. ASSUME NEW g \in sent \cup synced, startDay' = Born[g] PROVE CrawlOrder'
    <3>1. \A f \in Pending : startDay' <= Dir[f]
      BY <1>0, <2>4 DEF Pending
    <3> QED BY <2>2, <2>4, <3>1
  <2> QED BY <1>0, <2>1, <2>3, <2>4
<1>4. ASSUME NEW f \in Files, StoreFile(f) PROVE CrawlOrder'
  <2>1. /\ f \in (remote \cap Searched) \ s3 /\ s3' = s3 \cup {f} /\ pc = "updating"
        /\ checkpoint <= Dir[f]
        /\ checkpoint' = IF Dir[f] > checkpoint THEN Dir[f] ELSE checkpoint
        /\ UNCHANGED <<remote, sent, synced, overtaken, pc, startDay, todo>>
    BY <1>4 DEF StoreFile
  <2>2. \A g \in s3' : Dir[g] <= checkpoint'
    BY <1>0, <2>1
  <2>3. checkpoint <= checkpoint'
    BY <1>0, <2>1
  <2>4. Pending' \subseteq Pending
    BY <1>0, <2>1, <2>3 DEF Pending
  <2> QED BY <2>1, <2>2, <2>4
<1>5. CASE BeginSending
  <2>1. UNCHANGED <<storeVars, sent, synced, overtaken>> /\ Pending' = Pending
    BY <1>5 DEF BeginSending, Pending
  <2>2. CASE pc' = "idle"
    BY <2>1, <2>2
  <2>3. CASE /\ pc' = "sending" /\ pc = "updating" /\ startDay' = startDay
             /\ todo' = {f \in s3 : startDay <= Dir[f] /\ Dir[f] <= checkpoint}
    <3>1. (s3 \ sent) \ overtaken \subseteq todo'
      BY <1>0, <2>3 DEF Pending
    <3> QED BY <2>1, <2>3, <3>1
  <2> QED BY <1>5, <2>2, <2>3 DEF BeginSending
<1>6. ASSUME NEW f \in Files, SendFile(f) PROVE CrawlOrder'
  <2>1. /\ f \in todo /\ pc = "sending"
        /\ \A g \in todo : Dir[f] <= Dir[g]
        /\ todo' = todo \ {f} /\ sent' = sent \cup {f}
        /\ UNCHANGED <<storeVars, pc, startDay, synced, overtaken>>
    BY <1>6 DEF SendFile
  <2>2. Pending' \subseteq Pending /\ (s3 \ sent) \ overtaken \subseteq todo
    BY <2>1 DEF Pending
  <2>3. \A h \in Pending : Dir[f] <= Dir[h]
    BY <1>0, <2>1, <2>2 DEF Pending
  <2> QED BY <2>1, <2>2, <2>3
<1>7. CASE CrawlDone
  BY <1>7 DEF CrawlDone, Pending
<1>8. CASE CrawlCrash
  BY <1>8 DEF CrawlCrash, Pending
<1>9. CASE VerifyNext \/ IndexNext
  BY <1>9, <1>a, WorkersLeaveCrawl DEF Pending
<1>10. CASE SyncRead
  BY <1>10, <1>a DEF SyncRead, Pending
<1>11. CASE SyncWrite
  <2>1. PICK W \in SUBSET syncing :
          /\ synced' = synced \cup W
          /\ overtaken' = overtaken \cup {f \in (remote \cap Searched) \ sent :
                                           \E g \in W : Dir[f] < Born[g]}
    BY <1>11 DEF SyncWrite
  <2>2. UNCHANGED <<storeVars, crawlVars, sent>>
    BY <1>11 DEF SyncWrite
  <2>3. Pending' \subseteq Pending
    BY <2>1, <2>2 DEF Pending
  <2>4. ASSUME NEW f \in Pending', NEW g \in W PROVE Born[g] <= Dir[f]
    <3>1. f \in (remote \cap Searched) \ sent /\ f \notin overtaken'
      BY <1>0, <2>2, <2>4 DEF Pending
    <3>2. ~(Dir[f] < Born[g])
      BY <2>1, <3>1
    <3>3. Dir[f] \in Nat /\ Born[g] \in Nat
      BY <1>0, <3>1
    <3> QED BY <3>2, <3>3
  <2>5. (s3 \ sent) \ overtaken' \subseteq (s3 \ sent) \ overtaken
    BY <2>1
  <2> QED BY <2>1, <2>2, <2>3, <2>4, <2>5
<1>12. CASE UNCHANGED vars
  BY <1>12, <1>a DEF vars, Pending
<1> QED
  BY <1>1, <1>2, <1>3, <1>4, <1>5, <1>6, <1>7, <1>8, <1>9, <1>10, <1>11, <1>12
  DEF Next, CrawlNext, SyncNext

LEMMA OrderImpliesWatermark ==
  TypeOK /\ Provenance /\ CrawlOrder => WatermarkBehindUnsent
<1> SUFFICES ASSUME TypeOK, Provenance, CrawlOrder,
                    NEW f \in (s3 \ sent) \ overtaken, NEW i \in Indexed
             PROVE  Born[index[i]] <= Dir[f]
  BY DEF WatermarkBehindUnsent
<1>1. index[i] \in sent \cup synced /\ index[i] \in Files /\ f \in Files
  BY DEF TypeOK, Provenance, Indexed
<1>2. /\ Born[index[i]] \in Nat /\ Dir[index[i]] \in Nat /\ Dir[f] \in Nat
      /\ Born[index[i]] <= Dir[index[i]]
  BY <1>1, FilesAssumption
<1>3. /\ \A g \in sent : Dir[g] <= Dir[f]
      /\ \A g \in synced : Born[g] <= Dir[f]
  BY DEF CrawlOrder, Pending
<1> QED BY <1>1, <1>2, <1>3

LEMMA OrderImpliesWindow ==
  TypeOK /\ Provenance /\ CrawlOrder /\ ShowsOne => IndexNotAheadOfS3
<1> SUFFICES ASSUME TypeOK, Provenance, CrawlOrder, ShowsOne,
                    pc = "updating", ToStore = {}, LeftOut = {}
             PROVE  startDay <= checkpoint
  BY DEF IndexNotAheadOfS3
<1>1. startDay \in Nat /\ checkpoint \in Nat
  BY DEF TypeOK
<1>2. CASE startDay = 0
  BY <1>1, <1>2
<1>3. ASSUME NEW g \in sent \cup synced, startDay = Born[g]
      PROVE  startDay <= checkpoint
  <2>1. g \in remote /\ g \in Files
    BY DEF TypeOK, Provenance
  <2>2. PICK h \in s3 : Dir[g] <= Dir[h]
    <3>1. CASE g \in sent
      BY <2>1, <3>1, FilesAssumption DEF Provenance
    <3>2. CASE g \in synced
      <4>1. PICK h \in remote : Id[h] = Id[g] /\ Current(h)
        BY <2>1 DEF ShowsOne
      <4>2. h \in Searched
        BY <3>2, <4>1 DEF LeftOut
      <4>3. h \in s3
        BY <4>1, <4>2 DEF ToStore
      <4> QED BY <2>1, <4>1, <4>3 DEF Current
    <3> QED BY <3>1, <3>2
  <2>3. /\ Born[g] \in Nat /\ Dir[g] \in Nat /\ Dir[h] \in Nat
        /\ Born[g] <= Dir[g]
    BY <2>1, <2>2, FilesAssumption DEF TypeOK
  <2>4. Dir[h] <= checkpoint
    BY <2>2 DEF CrawlOrder
  <2> QED BY <1>1, <1>3, <2>2, <2>3, <2>4
<1> QED BY <1>2, <1>3 DEF CrawlOrder

(* Whatever crashes, no file that waits in S3 is older than the day the    *)
(* next crawl resumes from, unless the synchronization wrote a younger     *)
(* document before the file was sent.                                      *)
THEOREM WatermarkCorrect == Spec => []WatermarkBehindUnsent
<1>1. Init => TypeOK /\ Provenance /\ CrawlOrder
  BY TypeInit, ProvenanceInit, CrawlOrderInit
<1>2. /\ TypeOK /\ Provenance /\ CrawlOrder /\ [Next]_vars
      => (TypeOK /\ Provenance /\ CrawlOrder)'
  BY TypeStep, ProvenanceStep, CrawlOrderStep
<1> QED BY <1>1, <1>2, OrderImpliesWatermark, PTL DEF Spec

(* After its update S3 is as recent as the index was before it, so the     *)
(* window of _crawl_documents_for_data_source is not inverted, while the   *)
(* synchronization has written nothing that the crawl's search leaves out. *)
THEOREM CrawlWindowCorrect == Spec => []IndexNotAheadOfS3
<1>1. Init => TypeOK /\ Provenance /\ CrawlOrder /\ ShowsOne
  BY TypeInit, ProvenanceInit, CrawlOrderInit
<1>2. /\ TypeOK /\ Provenance /\ CrawlOrder /\ ShowsOne /\ [Next]_vars
      => (TypeOK /\ Provenance /\ CrawlOrder /\ ShowsOne)'
  BY TypeStep, ProvenanceStep, CrawlOrderStep, ShowsOneStep
<1> QED BY <1>1, <1>2, OrderImpliesWindow, PTL DEF Spec

-----------------------------------------------------------------------------
(* No step loses an accepted document.                                     *)

(* What happened to a document is never taken back.                        *)
LEMMA HistoryGrows ==
  TypeOK /\ [Next]_vars =>
    /\ sent \subseteq sent' /\ suppressed \subseteq suppressed'
    /\ synced \subseteq synced'
    /\ dropped \subseteq dropped' /\ deadletter \subseteq deadletter'
    /\ Indexed \subseteq Indexed'
<1> DEFINE Grows == /\ sent \subseteq sent' /\ suppressed \subseteq suppressed'
                    /\ synced \subseteq synced'
                    /\ dropped \subseteq dropped' /\ deadletter \subseteq deadletter'
                    /\ Indexed \subseteq Indexed'
<1> SUFFICES ASSUME TypeOK, [Next]_vars PROVE Grows
  OBVIOUS
<1>1. CASE UNCHANGED <<histVars, synced, index>>
  BY <1>1 DEF histVars, Indexed
<1>2. ASSUME NEW f \in Files, SendFile(f) PROVE Grows
  BY <1>2 DEF syncVars, SendFile, indexVars, Indexed
<1>3. ASSUME NEW w \in VerifyWorkers, VSkip(w) \/ VCrash(w) PROVE Grows
  BY <1>3 DEF syncVars, VSkip, VCrash, VRelease, Indexed
<1>4. ASSUME NEW w \in IndexWorkers, NEW S \in SUBSET Files,
             NEW R \in SUBSET S, IReceive(w, S, R)
      PROVE  Grows
  BY <1>4 DEF syncVars, IReceive, Indexed
<1>5. ASSUME NEW w \in IndexWorkers, NEW f \in Files, IExamine(w, f) PROVE Grows
  BY <1>5 DEF syncVars, IExamine, Indexed
<1>6. ASSUME NEW w \in IndexWorkers, ICheckpoint(w) PROVE Grows
  <2>1. Write(batch[w], index') /\ batch[w] \in SUBSET Files
    BY <1>6 DEF ICheckpoint, TypeOK
  <2>2. Indexed \subseteq Indexed'
    BY <2>1, WriteFacts DEF Indexed
  <2> QED BY <1>6, <2>2 DEF syncVars, ICheckpoint, histVars
<1>7. ASSUME NEW w \in IndexWorkers, ICheckpointFails(w) PROVE Grows
  <2>1. PICK W \in SUBSET batch[w] : /\ Write(W, index')
                                     /\ dropped' = dropped \cup (batch[w] \ W)
    BY <1>7 DEF syncVars, ICheckpointFails
  <2>2. W \in SUBSET Files
    BY DEF TypeOK
  <2>3. Indexed \subseteq Indexed'
    BY <2>1, <2>2, WriteFacts DEF Indexed
  <2> QED BY <1>7, <2>1, <2>3 DEF syncVars, ICheckpointFails
<1>8. ASSUME NEW w \in IndexWorkers, ICrash(w) PROVE Grows
  BY <1>8 DEF syncVars, ICrash, Indexed
<1>9. CASE \/ NextDay \/ CrawlStart \/ BeginSending \/ CrawlDone \/ CrawlCrash
           \/ \E f \in Files : Publish(f) \/ StoreFile(f)
  BY <1>1, <1>9 DEF syncVars, NextDay, CrawlStart, BeginSending, CrawlDone, CrawlCrash,
                    Publish, StoreFile, histVars
<1>10. CASE \E w \in VerifyWorkers :
              \/ \E S \in SUBSET Files : VReceive(w, S)
              \/ VForward(w) \/ VDelete(w)
  BY <1>1, <1>10 DEF syncVars, VReceive, VForward, VDelete, histVars
<1>11. CASE \E w \in IndexWorkers : IDelete(w)
  BY <1>1, <1>11 DEF syncVars, IDelete, histVars
<1>13. CASE SyncRead
  BY <1>1, <1>13 DEF SyncRead, histVars
<1>14. CASE SyncWrite
  <2>1. PICK W \in SUBSET syncing : Write(W, index') /\ synced' = synced \cup W
    BY <1>14 DEF SyncWrite
  <2>2. W \in SUBSET Files
    BY DEF TypeOK
  <2>3. Indexed \subseteq Indexed'
    BY <2>1, <2>2, WriteFacts DEF Indexed
  <2> QED BY <1>14, <2>1, <2>3 DEF SyncWrite, histVars
<1>12. CASE UNCHANGED vars
  BY <1>1, <1>12 DEF syncVars, vars
<1> QED
  BY <1>2, <1>3, <1>4, <1>5, <1>6, <1>7, <1>8, <1>9, <1>10, <1>11, <1>12,
     <1>13, <1>14
  DEF Next, CrawlNext, VerifyNext, IndexNext, SyncNext

(* A document in the index stage stays there, is written or is recorded as *)
(* lost, unless its worker deletes its messages.                           *)
LEMMA IndexerStable ==
  ASSUME TypeOK, [Next]_vars, NEW g \in Files, InIndexer(g)
  PROVE  \/ InIndexer(g)' \/ IsIndexed(g)' \/ Lost(g)'
         \/ \E w \in IndexWorkers : IDelete(w) /\ g \in iheld[w]
<1> USE DEF TypeOK
<1> DEFINE Stays == \/ InIndexer(g)' \/ IsIndexed(g)' \/ Lost(g)'
                    \/ \E w \in IndexWorkers : IDelete(w) /\ g \in iheld[w]
<1> SUFFICES Stays
  OBVIOUS
<1>2. CASE UNCHANGED <<q2, iheld, batch>>
  BY <1>2 DEF InIndexer
<1>3. ASSUME NEW w \in VerifyWorkers, VForward(w) PROVE Stays
  <2>1. vheld[w] \cap Indexable \in SUBSET Files
    OBVIOUS
  <2>2. q2[g] > 0 => q2'[g] > 0
    BY <1>3, <2>1, QueueTypes DEF VForward
  <2> QED BY <1>3, <2>2 DEF VForward, indexVars, InIndexer
<1>4. ASSUME NEW w \in IndexWorkers, NEW S \in SUBSET Files,
             NEW R \in SUBSET S, IReceive(w, S, R)
      PROVE  Stays
  <2>1. q2[g] > 0 => q2'[g] > 0 \/ g \in S
    BY <1>4, QueueTypes DEF IReceive
  <2>2. iheld[w] = {} /\ iheld' = [iheld EXCEPT ![w] = S] /\ batch' = batch
    BY <1>4 DEF IReceive
  <2> QED BY <2>1, <2>2 DEF InIndexer
<1>5. ASSUME NEW w \in IndexWorkers, NEW f \in Files, IExamine(w, f)
      PROVE  Stays
  <2>1. \A v \in IndexWorkers : batch[v] \subseteq batch'[v]
    BY <1>5 DEF IExamine
  <2> QED BY <1>5, <2>1 DEF IExamine, InIndexer
<1>6. ASSUME NEW w \in IndexWorkers, IDelete(w) PROVE Stays
  BY <1>6 DEF IDelete, indexVars, InIndexer
<1>7. ASSUME NEW w \in IndexWorkers, ICheckpoint(w) PROVE Stays
  <2>1. g \in batch[w] => IsIndexed(g)'
    BY <1>7, FilesAssumption, NullAssumption DEF ICheckpoint, Write, IsIndexed
  <2> QED BY <1>7, <2>1 DEF ICheckpoint, InIndexer
<1>8. ASSUME NEW w \in IndexWorkers, ICheckpointFails(w) PROVE Stays
  <2>1. PICK W \in SUBSET batch[w] : /\ Write(W, index')
                                     /\ dropped' = dropped \cup (batch[w] \ W)
    BY <1>8 DEF ICheckpointFails
  <2>2. W \in SUBSET Files
    OBVIOUS
  <2>3. g \in batch[w] => IsIndexed(g)' \/ g \in dropped'
    BY <2>1, <2>2, FilesAssumption, NullAssumption DEF Write, IsIndexed
  <2> QED BY <1>8, <2>3 DEF ICheckpointFails, InIndexer, Lost
<1>9. ASSUME NEW w \in IndexWorkers, ICrash(w) PROVE Stays
  <2>1. PICK D \in SUBSET iheld[w] : /\ q2' = Enqueue(q2, iheld[w] \ D)
                                     /\ deadletter' = deadletter \cup D
    BY <1>9 DEF ICrash, Redeliver
  <2>2. iheld[w] \ D \in SUBSET Files
    OBVIOUS
  <2>3. q2[g] > 0 \/ g \in iheld[w] => q2'[g] > 0 \/ g \in deadletter'
    BY <2>1, <2>2, QueueTypes
  <2>4. g \in batch[w] => g \in dropped'
    BY <1>9 DEF ICrash
  <2>5. \A v \in IndexWorkers \ {w} : iheld'[v] = iheld[v] /\ batch'[v] = batch[v]
    BY <1>9 DEF ICrash
  <2> QED BY <2>3, <2>4, <2>5 DEF InIndexer, Lost
<1>10. CASE \/ NextDay \/ (\E f \in Files : Publish(f)) \/ CrawlNext \/ CrawlCrash
            \/ SyncNext
  BY <1>2, <1>10 DEF CrawlNext, NextDay, CrawlStart, BeginSending, CrawlDone,
       CrawlCrash, Publish, StoreFile, SendFile, SyncNext, SyncRead, SyncWrite,
       indexVars
<1>11. CASE \E w \in VerifyWorkers :
              \/ \E S \in SUBSET Files : VReceive(w, S)
              \/ VDelete(w) \/ VSkip(w) \/ VCrash(w)
  BY <1>2, <1>11 DEF VReceive, VDelete, VSkip, VCrash, indexVars
<1>12. CASE UNCHANGED vars
  BY <1>2, <1>12 DEF vars, indexVars
<1> QED
  BY <1>3, <1>4, <1>5, <1>6, <1>7, <1>8, <1>9, <1>10, <1>11, <1>12
  DEF Next, VerifyNext, IndexNext

(* A document that reached the second queue stays on its way, or its fate  *)
(* is one of the recorded ones.                                            *)
LEMMA DownstreamStable ==
  ASSUME TypeOK, HandedOn, [Next]_vars, NEW g \in Files, Downstream(g)
  PROVE  Downstream(g)'
<1>1. ASSUME IsIndexed(g) \/ g \in suppressed \/ Lost(g) PROVE Downstream(g)'
  BY <1>1, HistoryGrows, FilesAssumption DEF Downstream, IsIndexed, Lost, Indexed
<1>2. ASSUME NEW w \in IndexWorkers, IDelete(w), g \in iheld[w]
      PROVE  Downstream(g)'
  <2>1. g \in batch[w] \/ g \in suppressed
    BY <1>2 DEF IDelete, HandedOn
  <2>2. batch' = batch
    BY <1>2 DEF IDelete
  <2> QED BY <1>1, <2>1, <2>2 DEF Downstream, InIndexer
<1> QED
  BY <1>1, <1>2, IndexerStable DEF Downstream

LEMMA HandedOnInit == Init => HandedOn
BY DEF Init, HandedOn

LEMMA HandedOnStep == TypeOK /\ Provenance /\ HandedOn /\ [Next]_vars => HandedOn'
<1> SUFFICES ASSUME TypeOK, Provenance, HandedOn, [Next]_vars PROVE HandedOn'
  OBVIOUS
<1> USE DEF TypeOK
<1> DEFINE VOk(v) == vsent[v] => /\ vheld[v] # {}
                                 /\ \A f \in vheld[v] \cap Indexable : Downstream(f)
           IOk(v) == \A f \in iheld[v] \ itodo[v] : f \in batch[v] \/ f \in suppressed
<1>a. (\A v \in VerifyWorkers : VOk(v)) /\ (\A v \in IndexWorkers : IOk(v))
  BY DEF HandedOn
<1>b. \A v \in VerifyWorkers : vheld'[v] = vheld[v] /\ vsent'[v] = vsent[v] => VOk(v)'
  BY <1>a, DownstreamStable
<1>c. suppressed \subseteq suppressed'
  BY HistoryGrows
<1>d. \A v \in IndexWorkers :
        iheld'[v] = iheld[v] /\ itodo'[v] = itodo[v] /\ batch'[v] = batch[v] => IOk(v)'
  BY <1>a, <1>c
<1>e. UNCHANGED verifyVars => \A v \in VerifyWorkers : VOk(v)'
  BY <1>b DEF verifyVars
<1>f. UNCHANGED indexVars => \A v \in IndexWorkers : IOk(v)'
  BY <1>d DEF indexVars
<1> SUFFICES (\A v \in VerifyWorkers : VOk(v)') /\ (\A v \in IndexWorkers : IOk(v)')
  BY DEF HandedOn
<1> HIDE DEF VOk, IOk
<1>1. CASE UNCHANGED <<verifyVars, indexVars>>
  BY <1>1, <1>e, <1>f
<1>2. ASSUME NEW w \in VerifyWorkers, NEW S \in SUBSET Files, VReceive(w, S)
      PROVE  \A v \in VerifyWorkers : VOk(v)'
  BY <1>2, <1>a, <1>b DEF VReceive, VOk
<1>3. ASSUME NEW w \in VerifyWorkers, VForward(w)
      PROVE  \A v \in VerifyWorkers : VOk(v)'
  <2>1. vheld[w] \cap Indexable \in SUBSET Files
    OBVIOUS
  <2>2. \A f \in vheld[w] \cap Indexable : q2'[f] > 0
    BY <1>3, <2>1, QueueTypes DEF VForward
  <2>3. vheld' = vheld /\ vheld[w] # {} /\ vsent' = [vsent EXCEPT ![w] = TRUE]
    BY <1>3 DEF VForward
  <2>4. VOk(w)'
    BY <2>2, <2>3 DEF VOk, Downstream, InIndexer
  <2> QED BY <2>3, <2>4, <1>b
<1>4. ASSUME NEW w \in VerifyWorkers, VDelete(w) \/ VSkip(w) \/ VCrash(w)
      PROVE  \A v \in VerifyWorkers : VOk(v)'
  <2>1. vheld' = [vheld EXCEPT ![w] = {}] /\ vsent' = [vsent EXCEPT ![w] = FALSE]
    BY <1>4 DEF VDelete, VSkip, VCrash, VRelease
  <2>2. VOk(w)'
    BY <2>1 DEF VOk
  <2> QED BY <2>1, <2>2, <1>b
<1>5. ASSUME NEW w \in IndexWorkers, NEW S \in SUBSET Files,
             NEW R \in SUBSET S, IReceive(w, S, R)
      PROVE  \A v \in IndexWorkers : IOk(v)'
  <2>1. IOk(w)'
    BY <1>5 DEF IReceive, IOk
  <2> QED BY <1>5, <2>1, <1>d DEF IReceive
<1>6. ASSUME NEW w \in IndexWorkers, NEW f \in Files, IExamine(w, f)
      PROVE  \A v \in IndexWorkers : IOk(v)'
  <2>1. IOk(w)'
    BY <1>6, <1>a DEF IExamine, IOk
  <2>2. \A v \in IndexWorkers \ {w} :
          iheld'[v] = iheld[v] /\ itodo'[v] = itodo[v] /\ batch'[v] = batch[v]
    BY <1>6 DEF IExamine
  <2> QED BY <2>1, <2>2, <1>d
<1>7. ASSUME NEW w \in IndexWorkers,
             IDelete(w) \/ ICheckpoint(w) \/ ICheckpointFails(w) \/ ICrash(w)
      PROVE  \A v \in IndexWorkers : IOk(v)'
  <2>1. IOk(w)'
    BY <1>7 DEF IDelete, ICheckpoint, ICheckpointFails, ICrash, IOk
  <2>2. \A v \in IndexWorkers \ {w} :
          iheld'[v] = iheld[v] /\ itodo'[v] = itodo[v] /\ batch'[v] = batch[v]
    BY <1>7 DEF IDelete, ICheckpoint, ICheckpointFails, ICrash
  <2> QED BY <2>1, <2>2, <1>d
<1>8. VerifyNext => UNCHANGED indexVars
  BY DEF VerifyNext, VReceive, VForward, VDelete, VSkip, VCrash
<1>9. IndexNext => UNCHANGED verifyVars
  BY DEF IndexNext, IReceive, IExamine, IDelete, ICheckpoint, ICheckpointFails,
         ICrash
<1>10. CASE VerifyNext
  BY <1>10, <1>8, <1>f, <1>2, <1>3, <1>4 DEF VerifyNext
<1>11. CASE IndexNext
  BY <1>11, <1>9, <1>e, <1>5, <1>6, <1>7 DEF IndexNext
<1>12. CASE \/ NextDay \/ (\E f \in Files : Publish(f)) \/ CrawlNext \/ CrawlCrash
            \/ SyncNext
  BY <1>1, <1>12 DEF CrawlNext, NextDay, CrawlStart, BeginSending, CrawlDone,
       CrawlCrash, Publish, StoreFile, SendFile, SyncNext, SyncRead, SyncWrite
<1>13. CASE UNCHANGED vars
  BY <1>1, <1>13 DEF vars
<1> QED BY <1>10, <1>11, <1>12, <1>13 DEF Next

LEMMA NothingLostInit == Init => NothingLostSilently
BY DEF Init, NothingLostSilently

LEMMA NothingLostStep ==
  /\ TypeOK /\ Provenance /\ HandedOn /\ NothingLostSilently /\ [Next]_vars
  => NothingLostSilently'
<1> SUFFICES ASSUME TypeOK, Provenance, HandedOn, NothingLostSilently,
                    [Next]_vars, NEW f \in sent' \cap Indexable
             PROVE  InVerify(f)' \/ Downstream(f)'
  BY DEF NothingLostSilently, Downstream
<1> USE DEF TypeOK
<1>1. f \in Files
  BY FilesAssumption
<1>2. f \in sent => InVerify(f) \/ Downstream(f)
  BY DEF NothingLostSilently, Downstream
<1>3. ASSUME f \in sent, Downstream(f) PROVE Downstream(f)'
  BY <1>1, <1>3, DownstreamStable
<1>4. CASE UNCHANGED <<q1, vheld, sent>>
  BY <1>2, <1>3, <1>4 DEF InVerify
<1>5. ASSUME NEW g \in Files, SendFile(g) PROVE InVerify(f)' \/ Downstream(f)'
  <2>1. q1'[f] = IF f = g THEN q1[f] + 1 ELSE q1[f]
    BY <1>1, <1>5, QueueTypes DEF SendFile
  <2>2. sent' = sent \cup {g} /\ vheld' = vheld
    BY <1>5 DEF SendFile, verifyVars
  <2> QED BY <1>1, <1>2, <1>3, <2>1, <2>2 DEF InVerify
<1>6. ASSUME NEW w \in VerifyWorkers, NEW S \in SUBSET Files, VReceive(w, S)
      PROVE  InVerify(f)' \/ Downstream(f)'
  <2>1. q1'[f] = IF f \in S THEN q1[f] - 1 ELSE q1[f]
    BY <1>1, <1>6, QueueTypes DEF VReceive
  <2>2. sent' = sent /\ vheld[w] = {} /\ vheld' = [vheld EXCEPT ![w] = S]
    BY <1>6 DEF VReceive, histVars
  <2> QED BY <1>2, <1>3, <2>1, <2>2 DEF InVerify
<1>7. ASSUME NEW w \in VerifyWorkers, VDelete(w)
      PROVE  InVerify(f)' \/ Downstream(f)'
  <2>1. /\ sent' = sent /\ q1' = q1
        /\ vsent[w] /\ vheld' = [vheld EXCEPT ![w] = {}]
    BY <1>7 DEF VDelete, histVars
  <2>2. f \in vheld[w] => Downstream(f)
    BY <2>1 DEF HandedOn
  <2> QED BY <1>2, <1>3, <2>1, <2>2 DEF InVerify
<1>8. ASSUME NEW w \in VerifyWorkers, VSkip(w) \/ VCrash(w)
      PROVE  InVerify(f)' \/ Downstream(f)'
  <2>1. PICK D \in SUBSET vheld[w] : /\ q1' = Enqueue(q1, vheld[w] \ D)
                                     /\ deadletter' = deadletter \cup D
                                     /\ vheld' = [vheld EXCEPT ![w] = {}]
    BY <1>8 DEF VSkip, VCrash, VRelease, Redeliver
  <2>2. vheld[w] \ D \in SUBSET Files /\ sent' = sent
    BY <1>8 DEF VSkip, VCrash
  <2>3. q1'[f] = IF f \in vheld[w] \ D THEN q1[f] + 1 ELSE q1[f]
    BY <1>1, <2>1, <2>2, QueueTypes
  <2>4. f \in D => Downstream(f)'
    BY <2>1 DEF Downstream, Lost
  <2>5. f \in vheld[w] => InVerify(f)' \/ Downstream(f)'
    BY <1>1, <2>3, <2>4 DEF InVerify
  <2>6. q1[f] > 0 => InVerify(f)'
    BY <1>1, <2>3 DEF InVerify
  <2> QED BY <1>2, <1>3, <2>1, <2>2, <2>5, <2>6 DEF InVerify
<1>9. ASSUME NEW w \in VerifyWorkers, VForward(w)
      PROVE  InVerify(f)' \/ Downstream(f)'
  BY <1>4, <1>9 DEF VForward, histVars
<1>10. CASE IndexNext
  BY <1>4, <1>10 DEF IndexNext, IReceive, IExamine, IDelete, ICheckpoint,
       ICheckpointFails, ICrash, verifyVars, histVars
<1>11. CASE \/ NextDay \/ CrawlStart \/ BeginSending \/ CrawlDone \/ CrawlCrash
            \/ SyncNext
            \/ \E g \in Files : Publish(g) \/ StoreFile(g)
  BY <1>4, <1>11 DEF NextDay, CrawlStart, BeginSending, CrawlDone, CrawlCrash,
       Publish, StoreFile, SyncNext, SyncRead, SyncWrite, verifyVars, histVars
<1>12. CASE UNCHANGED vars
  BY <1>4, <1>12 DEF vars, verifyVars, histVars
<1> QED
  BY <1>5, <1>6, <1>7, <1>8, <1>9, <1>10, <1>11, <1>12
  DEF Next, CrawlNext, VerifyNext

(* An accepted document that was enqueued is always on its way, searchable,*)
(* dropped as a duplicate, or recorded as taken by a crash: the order of   *)
(* hand-over and delete in both workers loses nothing else.                *)
THEOREM NothingLostCorrect == Spec => []NothingLostSilently
<1>1. Init => TypeOK /\ Provenance /\ HandedOn /\ NothingLostSilently
  BY TypeInit, ProvenanceInit, HandedOnInit, NothingLostInit
<1>2. /\ TypeOK /\ Provenance /\ HandedOn /\ NothingLostSilently /\ [Next]_vars
      => (TypeOK /\ Provenance /\ HandedOn /\ NothingLostSilently)'
  BY TypeStep, ProvenanceStep, HandedOnStep, NothingLostStep
<1> QED BY <1>1, <1>2, PTL DEF Spec

-----------------------------------------------------------------------------
(* Duplicate emails never suppress each other in a circle.                 *)

LEMMA HeldIsCoveredStep ==
  TypeOK /\ Provenance /\ HeldIsCovered /\ [Next]_vars => HeldIsCovered'
<1> SUFFICES ASSUME TypeOK, Provenance, HeldIsCovered, [Next]_vars,
                    NEW w \in IndexWorkers, NEW f \in iheld'[w]
             PROVE  KeyCovered(w, f)'
  BY DEF HeldIsCovered
<1> USE DEF TypeOK
<1>1. \A g \in Files : IsIndexed(g) => IsIndexed(g)'
  BY HistoryGrows, FilesAssumption DEF IsIndexed, Indexed
<1>2. CASE /\ iheld'[w] = iheld[w] /\ itodo'[w] = itodo[w]
           /\ batch[w] \subseteq batch'[w]
  <2>1. KeyCovered(w, f)
    BY <1>2 DEF HeldIsCovered
  <2> QED BY <1>1, <1>2, <2>1 DEF KeyCovered
<1>3. CASE iheld'[w] = {}
  BY <1>3
<1>4. ASSUME NEW S \in SUBSET Files, NEW R \in SUBSET S, IReceive(w, S, R)
      PROVE  KeyCovered(w, f)'
  BY <1>4 DEF IReceive, DedupDocumentBatch, KeyCovered
<1>5. ASSUME NEW h \in Files, IExamine(w, h) PROVE KeyCovered(w, f)'
  <2>1. /\ h \in itodo[w] /\ h \in Indexable /\ iheld' = iheld
        /\ itodo' = [itodo EXCEPT ![w] = @ \ {h}]
        /\ RecentDuplicateExists(h) \/ batch' = [batch EXCEPT ![w] = @ \cup {h}]
        /\ batch[w] \subseteq batch'[w]
    BY <1>5 DEF IExamine, Provenance
  <2>2. PICK g \in Files : /\ Key[g] = Key[f]
                           /\ g \in itodo[w] \/ g \in batch[w] \/ IsIndexed(g)
    BY <2>1 DEF HeldIsCovered, KeyCovered
  <2>3. CASE g # h \/ g \in batch[w] \/ IsIndexed(g)
    BY <1>1, <2>1, <2>2, <2>3 DEF KeyCovered
  <2>4. CASE g = h /\ RecentDuplicateExists(h)
    <3>1. PICK i \in Indexed : Key[index[i]] = Key[h]
      BY <2>4 DEF RecentDuplicateExists
    <3>2. index[i] \in Files /\ IsIndexed(index[i])
      BY <3>1, FilesAssumption DEF Provenance, IsIndexed, Indexed
    <3> QED BY <1>1, <2>2, <2>4, <3>1, <3>2 DEF KeyCovered
  <2>5. CASE g = h /\ batch' = [batch EXCEPT ![w] = @ \cup {h}]
    BY <2>2, <2>5 DEF KeyCovered
  <2> QED BY <2>1, <2>3, <2>4, <2>5
<1>6. ASSUME IDelete(w) \/ ICheckpoint(w) \/ ICheckpointFails(w) \/ ICrash(w)
      PROVE  iheld'[w] = {}
  BY <1>6 DEF IDelete, ICheckpoint, ICheckpointFails, ICrash
<1>7. ASSUME NEW v \in IndexWorkers \ {w},
             \/ \E S \in SUBSET Files : \E R \in SUBSET S : IReceive(v, S, R)
             \/ \E h \in Files : IExamine(v, h)
             \/ IDelete(v) \/ ICheckpoint(v) \/ ICheckpointFails(v) \/ ICrash(v)
      PROVE  /\ iheld'[w] = iheld[w] /\ itodo'[w] = itodo[w]
             /\ batch[w] \subseteq batch'[w]
  BY <1>7 DEF IReceive, IExamine, IDelete, ICheckpoint, ICheckpointFails, ICrash
<1>8. CASE IndexNext
  BY <1>2, <1>3, <1>4, <1>5, <1>6, <1>7, <1>8 DEF IndexNext
<1>9. CASE \/ NextDay \/ (\E g \in Files : Publish(g)) \/ CrawlNext
           \/ CrawlCrash \/ VerifyNext \/ SyncNext
  BY <1>2, <1>9 DEF CrawlNext, NextDay, CrawlStart, BeginSending, CrawlDone,
     CrawlCrash, Publish, StoreFile, SendFile, VerifyNext, VReceive, VForward,
     VDelete, VSkip, VCrash, SyncNext, SyncRead, SyncWrite, indexVars
<1>10. CASE UNCHANGED vars
  BY <1>2, <1>10 DEF vars, indexVars
<1> QED BY <1>8, <1>9, <1>10 DEF Next

LEMMA RepresentedInit == Init => HeldIsCovered /\ SuppressedIsRepresented
BY DEF Init, HeldIsCovered, SuppressedIsRepresented

LEMMA RepresentedStep ==
  /\ TypeOK /\ Provenance /\ HeldIsCovered /\ SuppressedIsRepresented
  /\ [Next]_vars
  => SuppressedIsRepresented'
<1> DEFINE Holds(g) == IsIndexed(g) \/ InIndexer(g) \/ Lost(g)
           Rep(f) == \E g \in Files : Key[g] = Key[f] /\ Holds(g)
<1> SUFFICES ASSUME TypeOK, Provenance, HeldIsCovered, SuppressedIsRepresented,
                    [Next]_vars, NEW f \in suppressed'
             PROVE  Rep(f)'
  BY DEF SuppressedIsRepresented
<1> USE DEF TypeOK
<1>0. f \in Files
  BY TypeStep
<1>1. \A g \in Files : /\ IsIndexed(g) => IsIndexed(g)'
                       /\ Lost(g) => Lost(g)'
  BY HistoryGrows, FilesAssumption DEF IsIndexed, Indexed, Lost
<1>2. ASSUME NEW w \in IndexWorkers, NEW g \in iheld[w], g \in Files, IDelete(w)
      PROVE  Rep(g)'
  <2>1. PICK h \in Files : Key[h] = Key[g] /\ (h \in batch[w] \/ IsIndexed(h))
    BY <1>2 DEF IDelete, HeldIsCovered, KeyCovered
  <2>2. batch' = batch
    BY <1>2 DEF IDelete
  <2> QED BY <1>1, <2>1, <2>2 DEF InIndexer
<1>3. ASSUME NEW g \in Files, Holds(g) PROVE Rep(g)'
  BY <1>1, <1>2, <1>3, IndexerStable
<1>4. f \in suppressed => Rep(f)'
  <2> SUFFICES ASSUME f \in suppressed PROVE Rep(f)'
    OBVIOUS
  <2>1. PICK g \in Files : Key[g] = Key[f] /\ Holds(g)
    BY DEF SuppressedIsRepresented
  <2>2. Rep(g)'
    BY <1>3, <2>1
  <2> QED BY <2>1, <2>2
<1>5. CASE suppressed' = suppressed
  BY <1>4, <1>5
<1>6. ASSUME NEW w \in IndexWorkers, NEW S \in SUBSET Files,
             NEW R \in SUBSET S, IReceive(w, S, R)
      PROVE  Rep(f)'
  <2>1. iheld'[w] = S /\ suppressed' = suppressed \cup (S \ R)
    BY <1>6 DEF IReceive
  <2>2. f \in S => InIndexer(f)'
    BY <2>1 DEF InIndexer
  <2> QED BY <1>0, <1>4, <2>1, <2>2
<1>7. ASSUME NEW w \in IndexWorkers, NEW h \in Files, IExamine(w, h)
      PROVE  Rep(f)'
  <2>1. /\ h \in iheld[w] /\ iheld' = iheld
        /\ suppressed' \subseteq suppressed \cup {h}
    BY <1>7 DEF IExamine, Provenance
  <2>2. f = h => InIndexer(f)'
    BY <2>1 DEF InIndexer
  <2> QED BY <1>0, <1>4, <2>1, <2>2
<1>8. CASE \E w \in IndexWorkers :
             IDelete(w) \/ ICheckpoint(w) \/ ICheckpointFails(w) \/ ICrash(w)
  BY <1>5, <1>8 DEF IDelete, ICheckpoint, ICheckpointFails, ICrash, histVars
<1>9. CASE \/ NextDay \/ (\E g \in Files : Publish(g)) \/ CrawlNext
           \/ CrawlCrash \/ VerifyNext \/ SyncNext
  BY <1>5, <1>9 DEF CrawlNext, NextDay, CrawlStart, BeginSending, CrawlDone,
     CrawlCrash, Publish, StoreFile, SendFile, VerifyNext, VReceive, VForward,
     VDelete, VSkip, VCrash, SyncNext, SyncRead, SyncWrite, histVars
<1>10. CASE UNCHANGED vars
  BY <1>5, <1>10 DEF vars, histVars
<1> QED BY <1>6, <1>7, <1>8, <1>9, <1>10 DEF Next, IndexNext

(* An email is only ever dropped while another with the same key is        *)
(* searchable, on its way or recorded as lost.                             *)
THEOREM SuppressionCorrect == Spec => []SuppressedIsRepresented
<1> DEFINE J == /\ TypeOK /\ Provenance /\ HeldIsCovered
                /\ SuppressedIsRepresented
<1>1. Init => J
  BY TypeInit, ProvenanceInit, RepresentedInit
<1>2. J /\ [Next]_vars => J'
  BY TypeStep, ProvenanceStep, HeldIsCoveredStep, RepresentedStep
<1> QED BY <1>1, <1>2, PTL DEF Spec

-----------------------------------------------------------------------------
(* The pipeline keeps the promise of DeliveryPromise.                      *)

LEMMA PromiseInit == Init => Promise!Init
BY DEF Init, Promise!Init, Indexed

(* SendFile accepts and settles nothing; the synchronization puts what it  *)
(* writes; the other steps accept nothing.                                 *)
LEMMA WhoAccepts ==
  [Next]_vars => \/ sent' = sent /\ synced' = synced
                 \/ UNCHANGED <<index, dropped, deadletter>>
                 \/ UNCHANGED <<sent, dropped, deadletter>> /\ SyncWrite
BY DEF Next, CrawlNext, VerifyNext, IndexNext, SyncNext, NextDay, CrawlStart,
   BeginSending, CrawlDone, CrawlCrash, Publish, StoreFile, SendFile, VReceive,
   VForward, VDelete, VSkip, VCrash, IReceive, IExamine, IDelete, ICheckpoint,
   ICheckpointFails, ICrash, SyncRead, SyncWrite, vars, histVars, syncVars

LEMMA PromiseStep ==
  TypeOK /\ Provenance /\ [Next]_vars
  => [Promise!Next]_<<{Id[f] : f \in sent \cup synced}, Indexed,
                      {Id[f] : f \in dropped \cup deadletter}>>
<1> DEFINE acc == {Id[f] : f \in sent \cup synced}
           forf == {Id[f] : f \in dropped \cup deadletter}
<1> SUFFICES ASSUME TypeOK, Provenance, [Next]_vars
             PROVE  \E D, F \in SUBSET Ids :
                      Promise!Accept(D) \/ Promise!Settle(D, F) \/ Promise!Put(D)
  BY DEF Promise!Next
<1>1. /\ sent \subseteq sent' /\ sent' \subseteq Files
      /\ synced \subseteq synced' /\ synced' \subseteq Files
      /\ Indexed \subseteq Indexed' /\ forf \subseteq forf'
  BY HistoryGrows, TypeStep DEF TypeOK
<1>2. Provenance' /\ TypeOK'
  BY TypeStep, ProvenanceStep
<1>3. CASE sent' = sent /\ synced' = synced
  <2>1. Indexed' \subseteq acc /\ forf' \subseteq acc
    BY <1>2, <1>3 DEF Provenance, Indexed
  <2>2. Indexed' \in SUBSET Ids /\ forf' \in SUBSET Ids
    BY <1>2, <2>1, FilesAssumption DEF TypeOK, Indexed
  <2>3. PICK D \in SUBSET Ids, F \in SUBSET Ids : D = Indexed' /\ F = forf'
    BY <2>2
  <2>4. Promise!Settle(D, F)
    BY <1>1, <1>3, <2>1, <2>3 DEF Promise!Settle
  <2> QED BY <2>4
<1>4. CASE UNCHANGED <<index, dropped, deadletter>>
  <2>1. acc' \in SUBSET Ids /\ acc \subseteq acc'
    BY <1>1, FilesAssumption
  <2>2. PICK D \in SUBSET Ids : D = acc'
    BY <2>1
  <2>3. Promise!Accept(D)
    BY <1>4, <2>1, <2>2 DEF Promise!Accept, Indexed
  <2> QED BY <2>3
<1>5. CASE UNCHANGED <<sent, dropped, deadletter>> /\ SyncWrite
  <2>1. PICK W \in SUBSET syncing : Write(W, index') /\ synced' = synced \cup W
    BY <1>5 DEF SyncWrite
  <2>2. W \in SUBSET Files
    BY DEF TypeOK
  <2>3. Indexed' = Indexed \cup {Id[f] : f \in W}
    <3>1. \A f \in W : Id[f] \in Indexed'
      BY <2>1, <2>2, FilesAssumption, NullAssumption DEF Write, Indexed
    <3>2. \A i \in Indexed' : i \in Indexed \/ \E f \in W : Id[f] = i
      BY <2>1 DEF Write, Indexed
    <3> QED BY <1>1, <3>1, <3>2
  <2>4. PICK D \in SUBSET Ids : D = {Id[f] : f \in W}
    BY <2>2, FilesAssumption
  <2>5. acc' = acc \cup D
    BY <1>5, <2>1, <2>4
  <2>6. Promise!Put(D)
    BY <1>5, <2>3, <2>4, <2>5 DEF Promise!Put
  <2> QED BY <2>6
<1> QED BY <1>3, <1>4, <1>5, WhoAccepts

(* Every behaviour of the pipeline, crashes included, is one of            *)
(* DeliveryPromise: what is searchable was enqueued or put there by the    *)
(* synchronization, and neither fact is ever taken back.                   *)
THEOREM PromiseKept == Spec => KeepsPromise
<1>1. Init => TypeOK /\ Provenance
  BY TypeInit, ProvenanceInit
<1>2. TypeOK /\ Provenance /\ [Next]_vars => (TypeOK /\ Provenance)'
  BY TypeStep, ProvenanceStep
<1> QED BY <1>1, <1>2, PromiseInit, PromiseStep, PTL
        DEF Spec, KeepsPromise, Promise!Spec
=============================================================================
