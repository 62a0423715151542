------------------------------- MODULE GptSearch -------------------------------
(***************************************************************************)
(* GPT search of one query (manager/gpt_search_manager.py and its routes):  *)
(* the first request starts a thread that finds documents and asks GPT      *)
(* about them; two more requests wait for what the thread puts into the     *)
(* caches.  All searches for the same words share the entries of the        *)
(* caches, whichever process serves them.                                   *)
(***************************************************************************)
EXTENDS Naturals, FiniteSets

CONSTANTS
  Searches,     \* searches for the words, each with its three requests
  Documents,    \* documents that match them
  MaxExpiries,  \* bound on entries that expire
  MaxFaults     \* bound on failing requests to other services

Assumptions ==
  IsFiniteSet(Documents) /\ MaxExpiries \in Nat /\ MaxFaults \in Nat

VARIABLES
  threads,  \* [Searches -> the search: its request, then its thread]
  waits,    \* [Searches -> [{"knn", "gpt"} -> what the request has got]]
  cache,    \* the entries for the words, per cache
  index,    \* the matching documents in OpenSearch
  record    \* expiries and faults, and what happened to the entries

vars == <<threads, waits, cache, index, record>>

Lookups == {"emb", "dsl"}    \* what the first request asks for, both at once
Results == {"knn", "gpt"}    \* what the two others wait for

(* An entry holds no result, an error, or documents: the ids that were      *)
(* found, or those that support the answer.                                 *)
NoEntry == [kind |-> "none", docs |-> {}]
Error == [kind |-> "error", docs |-> {}]
Found(docs) == [kind |-> "docs", docs |-> docs]
Entries == [kind : {"none", "error", "docs"}, docs : SUBSET Documents]

TypeOK ==
  /\ threads \in [Searches ->
       [at : {"idle", "look up", "knn?", "knn", "get", "gpt?", "gpt", "done", "refused"},
        todo : SUBSET Lookups, error : BOOLEAN, hits : SUBSET Documents]]
  /\ waits \in [Searches -> [Results -> {"idle", "waiting", "docs", "nothing", "answer", "error"}]]
  /\ cache \in [emb : BOOLEAN, dsl : BOOLEAN, knn : Entries, gpt : Entries]
  /\ index \subseteq Documents
  /\ record \in [expiries : 0 .. MaxExpiries, faults : 0 .. MaxFaults,
                 overlapped : BOOLEAN, expired : SUBSET Results]

Init ==
  /\ threads = [s \in Searches |-> [at |-> "idle", todo |-> Lookups, error |-> FALSE, hits |-> {}]]
  /\ waits = [s \in Searches |-> [w \in Results |-> "idle"]]
  /\ cache = [emb |-> FALSE, dsl |-> FALSE, knn |-> NoEntry, gpt |-> NoEntry]
  /\ index = {}
  /\ record = [expiries |-> 0, faults |-> 0, overlapped |-> FALSE, expired |-> {}]

At(s, label) == threads[s].at = label
GoTo(s, label) == threads' = [threads EXCEPT ![s].at = label]
Active(s) == threads[s].at \in {"knn?", "knn", "get", "gpt?", "gpt"}
NoFault == UNCHANGED record
Fault == record.faults < MaxFaults /\ record' = [record EXCEPT !.faults = @ + 1]
GivesUp(s) == threads' = [threads EXCEPT ![s].at = "done", ![s].error = TRUE]

-----------------------------------------------------------------------------
(* gpt_search: the request arrives, ...                                     *)
Start(s) ==
  /\ At(s, "idle")
  /\ GoTo(s, "look up")
  /\ UNCHANGED <<waits, cache, index, record>>

(* ... get_embedding_cached and get_dsl_query_cached take what is cached or *)
(* ask for it, ...                                                          *)
LookUp(s, what) ==
  /\ At(s, "look up") /\ what \in threads[s].todo
  /\ \/ /\ threads' = [threads EXCEPT ![s].todo = @ \ {what}]
        /\ cache' = [cache EXCEPT ![what] = TRUE]
        /\ NoFault
     \/ /\ ~cache[what]
        /\ threads' = [threads EXCEPT ![s].todo = @ \ {what}, ![s].error = TRUE]
        /\ UNCHANGED cache
        /\ Fault
  /\ UNCHANGED <<waits, index>>

(* ... and with both the thread is started and the browser sends its other  *)
(* requests; an error is answered at once.                                  *)
StartThread(s) ==
  /\ At(s, "look up") /\ threads[s].todo = {}
  /\ IF threads[s].error THEN GoTo(s, "refused") /\ UNCHANGED <<waits, record>>
     ELSE /\ GoTo(s, "knn?")
          /\ waits' = [waits EXCEPT ![s] = [w \in Results |-> "waiting"]]
          /\ record' = [record EXCEPT !.overlapped = @ \/ \E other \in Searches : Active(other)]
  /\ UNCHANGED <<cache, index>>

(* knn_search_cached: ids are used again, an error is not, ...              *)
Reusable(entry) == entry.kind = "docs" /\ entry.docs # {}

CheckKnn(s) ==
  /\ At(s, "knn?")
  /\ threads' = IF Reusable(cache.knn)
                THEN [threads EXCEPT ![s].at = "get", ![s].hits = cache.knn.docs]
                ELSE [threads EXCEPT ![s].at = "knn"]
  /\ UNCHANGED <<waits, cache, index, record>>

(* ... and without them the index is searched, which finds the nearest      *)
(* documents or some of them; none at all are an error, with which          *)
(* init_search ends.                                                        *)
RunKnn(s) ==
  /\ At(s, "knn")
  /\ \/ \E ids \in (SUBSET index) \ {{}} :
          /\ cache' = [cache EXCEPT !.knn = Found(ids)]
          /\ threads' = [threads EXCEPT ![s].at = "get", ![s].hits = ids]
          /\ NoFault
     \/ /\ cache' = [cache EXCEPT !.knn = Error]
        /\ GivesUp(s)
        /\ IF index = {} THEN NoFault ELSE Fault
  /\ UNCHANGED <<waits, index>>

(* run_mget                                                                 *)
Get(s) ==
  /\ At(s, "get")
  /\ \/ GoTo(s, "gpt?") /\ NoFault
     \/ GivesUp(s) /\ Fault
  /\ UNCHANGED <<waits, cache, index>>

(* A mistake: an error counts as an answer.                                 *)
CheckGpt_ReusesErrors(s) ==
  /\ At(s, "gpt?")
  /\ GoTo(s, IF cache.gpt.kind # "none" THEN "done" ELSE "gpt")
  /\ UNCHANGED <<waits, cache, index, record>>

(* gpt_chat_completion_cached: an answer is used again, an error is not, ...*)
CheckGpt(s) ==
  /\ At(s, "gpt?")
  /\ GoTo(s, IF cache.gpt.kind = "docs" THEN "done" ELSE "gpt")
  /\ UNCHANGED <<waits, cache, index, record>>

(* ... and without one GPT is asked.  What supports the answer is among the *)
(* documents that were sent (extract_supporting_docs); an answer without    *)
(* the fields it should have ends the thread with nothing cached.           *)
RunGpt(s) ==
  /\ At(s, "gpt")
  /\ \/ \E support \in SUBSET threads[s].hits :
          /\ cache' = [cache EXCEPT !.gpt = Found(support)]
          /\ GoTo(s, "done")
          /\ NoFault
     \/ /\ cache' \in {cache, [cache EXCEPT !.gpt = Error]}
        /\ GivesUp(s)
        /\ Fault
  /\ UNCHANGED <<waits, index>>

-----------------------------------------------------------------------------
Answers(s, w, what) ==
  /\ waits' = [waits EXCEPT ![s][w] = what]
  /\ UNCHANGED <<threads, cache, index>>

(* wait_for_knn_results: any entry ends the waiting, and one without ids is *)
(* answered as nothing found.  The documents may fail to load.              *)
KnnResults(s) ==
  /\ waits[s].knn = "waiting" /\ cache.knn # NoEntry
  /\ IF cache.knn.docs = {} THEN Answers(s, "knn", "nothing") /\ NoFault
     ELSE \/ Answers(s, "knn", "docs") /\ NoFault
          \/ Answers(s, "knn", "error") /\ Fault

(* wait_for_gpt_answer                                                      *)
GptAnswer(s) ==
  /\ waits[s].gpt = "waiting" /\ cache.gpt # NoEntry
  /\ Answers(s, "gpt", IF cache.gpt.kind = "docs" THEN "answer" ELSE "error")
  /\ NoFault

(* A mistake: only one of them gives up.                                    *)
TimesOut_GptOnly(s, w) ==
  /\ w = "gpt" /\ waits[s][w] = "waiting" /\ cache[w] = NoEntry
  /\ Answers(s, w, "error")
  /\ NoFault

(* Either gives up after 45 seconds without an entry.                       *)
TimesOut(s, w) ==
  /\ waits[s][w] = "waiting" /\ cache[w] = NoEntry
  /\ Answers(s, w, "error")
  /\ NoFault

-----------------------------------------------------------------------------
(* An hour after it was last set an entry is gone.                          *)
Expire(w) ==
  /\ record.expiries < MaxExpiries /\ cache[w] # NoEntry
  /\ cache' = [cache EXCEPT ![w] = NoEntry]
  /\ record' = [record EXCEPT !.expiries = @ + 1, !.expired = @ \cup {w}]
  /\ UNCHANGED <<threads, waits, index>>

(* Documents go on being indexed (module IngestPipeline).                   *)
Arrive(d) ==
  /\ d \notin index
  /\ index' = index \cup {d}
  /\ UNCHANGED <<threads, waits, cache, record>>

Serve(s) ==
  \/ \E what \in Lookups : LookUp(s, what)
  \/ StartThread(s) \/ CheckKnn(s) \/ RunKnn(s) \/ Get(s) \/ CheckGpt(s) \/ RunGpt(s)
  \/ KnnResults(s) \/ GptAnswer(s)
  \/ \E w \in Results : TimesOut(s, w)

Server == \E s \in Searches : Serve(s)

Next ==
  \/ Server
  \/ \E s \in Searches : Start(s)
  \/ \E w \in Results : Expire(w)
  \/ \E d \in Documents : Arrive(d)

-----------------------------------------------------------------------------
(* An answer that GPT gave stays until it expires: a later search that      *)
(* fails does not put its error in the place of it, unless two searches ran *)
(* at once (gpt_chat_completion_cached).                                    *)
KeepsAnswer ==
  cache.gpt.kind = "docs" /\ cache'.gpt.kind # "docs" =>
    record'.expiries # record.expiries \/ record.overlapped

(* The documents that support the answer are among those that are shown     *)
(* with it, though both come from caches of their own, unless the ids       *)
(* expired or two searches ran at once (knn_search_cached,                  *)
(* gpt_chat_completion_cached).                                             *)
SupportAmongShown ==
  Reusable(cache.knn) /\ cache.gpt.kind = "docs" =>
    cache.gpt.docs \subseteq cache.knn.docs \/ "knn" \in record.expired \/ record.overlapped

(* An error is not final: a search that itself meets no failure leaves an   *)
(* answer, also after others that failed, as long as it does not expire and *)
(* no two run at once (knn_search_cached, gpt_chat_completion_cached).      *)
RetryAnswers ==
  \A s \in Searches :
    At(s, "done") /\ ~threads[s].error =>
      cache.gpt.kind = "docs" \/ "gpt" \in record.expired \/ record.overlapped

(* Each request of a browser is answered in the end.                        *)
AllAnswered ==
  \A s \in Searches : /\ threads[s].at \in {"idle", "done", "refused"}
                      /\ \A w \in Results : waits[s][w] # "waiting"
=============================================================================
