------------------------------ MODULE VectorSearch ------------------------------
(***************************************************************************)
(* Which documents a search by meaning finds, which of them are put into a  *)
(* prompt of limited length, and which are shown (dal/opensearch_interface, *)
(* manager/gpt_search_manager).  Documents are in sequences of distinct     *)
(* ones; score and length are functions of documents.                       *)
(***************************************************************************)
EXTENDS Naturals, Sequences, FiniteSets, FiniteSetsExt, SequencesExt

First(s, n) == SubSeq(s, 1, Min({n, Len(s)}))

(* perform_knn_search: of the hits, which come best first, those over the   *)
(* threshold, as many as are wanted.                                        *)
PerformKnnSearch(hits, score, threshold, count) ==
  First(SelectSeq(hits, LAMBDA d : score[d] >= threshold), count)

(* multi_get leaves out what is no longer in the index.                     *)
MultiGet(docs, index) == SelectSeq(docs, LAMBDA d : d \in index)

TotalLength(docs, length) == FoldLeft(LAMBDA sum, d : sum + length[d], 0, docs)

(* A mistake: a document that is too long makes room for the next one.      *)
UnderContentLengthLimit_Skipping(docs, length, limit) ==
  FoldLeft(LAMBDA taken, d : IF TotalLength(taken, length) + length[d] > limit THEN taken
                             ELSE Append(taken, d),
           <<>>, docs)

(* get_max_docs_under_content_length_limit: documents until the first that  *)
(* is too long.                                                             *)
UnderContentLengthLimit(docs, length, limit) ==
  First(docs, Max({n \in 0 .. Len(docs) : TotalLength(First(docs, n), length) <= limit}))

(* extract_supporting_docs: of the documents that GPT names, the first ones *)
(* that were found.                                                         *)
ExtractSupportingDocs(named, hits, count) ==
  SelectSeq(First(named, count), LAMBDA d : d \in ToSet(hits))

-----------------------------------------------------------------------------
(* A document that is left out of the prompt, though it was found, is not   *)
(* better than one that is in it: neither the threshold, nor what is gone   *)
(* from the index, nor what is too long, lets the search pass over a better *)
(* document for a worse one (knn_search, run_mget, gpt_chat_completion).    *)
NothingBetterLeftOut(hits, index, score, length, threshold, count, limit) ==
  LET found == MultiGet(PerformKnnSearch(hits, score, threshold, count), index)
      sent == UnderContentLengthLimit(found, length, limit)
  IN /\ TotalLength(sent, length) <= limit
     /\ \A d \in ToSet(sent), other \in ToSet(found) \ ToSet(sent) : score[d] >= score[other]

(* What is shown as the support of an answer was found, and is shown in the *)
(* order in which GPT named it, however many inventions it names among it   *)
(* (extract_supporting_docs).                                               *)
SupportWasFound(named, hits, count) ==
  LET shown == ExtractSupportingDocs(named, hits, count)
  IN /\ ToSet(shown) \subseteq ToSet(hits) \cap ToSet(named)
     /\ Len(shown) <= count
     /\ \A d \in ToSet(hits) : (\E n \in 1 .. Min({count, Len(named)}) : named[n] = d)
          => d \in ToSet(shown)
=============================================================================
