----------------------------- MODULE SentimentSearch -----------------------------
(***************************************************************************)
(* Sentiment search (manager/sentiment_search_manager.py): the documents    *)
(* near a topic, of which a classifier that is trained on the spot keeps    *)
(* those about it (manager/topic_similarity_manager.py); the sentiment of   *)
(* each is counted by day, week or month.                                   *)
(*                                                                         *)
(* score is the similarity in hundredths, embedded says which documents     *)
(* have an embedding, sentiment and period what the classifier and the      *)
(* calendar say of a document.                                              *)
(***************************************************************************)
EXTENDS VectorSearch, Integers

CONSTANTS
  MaxRelated,    \* 75: likely related documents that GPT is asked about
  MaxUnrelated   \* 50: likely unrelated ones

Assumptions == MaxRelated \in Nat /\ MaxUnrelated \in Nat

Categories == {"strongly similar", "similar", "neither", "dissimilar", "strongly dissimilar"}

(* sort_documents_using_cosine_similarity: some documents are in no list.   *)
Category(score) ==
  CASE score > 82 -> "strongly similar"
    [] score \in 81 .. 82 -> "similar"
    [] score \in 79 .. 80 -> "neither"
    [] score \in 77 .. 78 -> "dissimilar"
    [] score < 77 -> "strongly dissimilar"

Sorted(docs, score, category) == SelectSeq(docs, LAMBDA d : Category(score[d]) = category)

(* construct_svm_for_filtering: the documents by similarity, ...            *)
TrainingOrder(docs, score) ==
  Sorted(docs, score, "strongly similar") \o Sorted(docs, score, "similar")
    \o Sorted(docs, score, "dissimilar") \o Sorted(docs, score, "strongly dissimilar")

(* ... of which some of the first half are likely related and some of the   *)
(* rest likely unrelated.                                                   *)
RelatedCount(docs) == Min({MaxRelated, Len(docs) \div 2})
LikelyRelated(docs) == First(docs, RelatedCount(docs))

LikelyUnrelated(docs) ==
  SubSeq(docs, Max({Len(docs) - MaxUnrelated, RelatedCount(docs)}) + 1, Len(docs))

(* verify_topic_using_gpt: by turns, the surest first, ...                  *)
ByTurns(s, t) ==
  FlattenSeq(Zip(s, t)) \o SubSeq(s, Len(t) + 1, Len(s)) \o SubSeq(t, Len(s) + 1, Len(t))

(* ... as many as the prompt holds.                                         *)
AskedAbout(docs, length, limit) ==
  UnderContentLengthLimit(ByTurns(LikelyRelated(docs), Reverse(LikelyUnrelated(docs))),
                          length, limit)

(* The examples of a class are what GPT names as such, apart from           *)
(* inventions; it may name a document as both.  Beside them, the topic is   *)
(* an example of one class and the word "unrelated" of the other.           *)
Examples(docs, length, limit, named) ==
  SelectSeq(AskedAbout(docs, length, limit), LAMBDA d : d \in named)

(* filter_documents_using_topic: without its own, strongly dissimilar, the  *)
(* documents are put to the classifier, which fails on none at all.         *)
Candidates(hits, score, embedded) ==
  LET docs == SelectSeq(hits, LAMBDA d : d \in embedded)
  IN Sorted(docs, score, "similar") \o Sorted(docs, score, "strongly similar")
       \o Sorted(docs, score, "dissimilar")

FilterDocumentsUsingTopic(hits, score, embedded, predicted) ==
  SelectSeq(Candidates(hits, score, embedded), LAMBDA d : d \in predicted)

-----------------------------------------------------------------------------
(* aggregate_sentiment_data: of each sentiment the sum of the scores and    *)
(* the number of documents in every period that has any.                    *)
AggregateSentimentData(docs, sentiment, period, weight) ==
  LET count(buckets, d) ==
        LET key == <<sentiment[d], period[d]>>
            old == IF key \in DOMAIN buckets THEN buckets[key] ELSE [sum |-> 0, documents |-> 0]
        IN [k \in DOMAIN buckets \cup {key} |->
              IF k = key THEN [sum |-> old.sum + weight[d], documents |-> old.documents + 1]
              ELSE buckets[k]]
  IN FoldLeft(count, <<>>, docs)

(* sentiment_search: results and the two series of buckets; an error where  *)
(* nothing is left to classify.                                             *)
Search(hits, score, embedded, predicted, sentiment, period, weight) ==
  LET found == PerformKnnSearch(hits, score, 50, Len(hits))
      related == FilterDocumentsUsingTopic(found, score, embedded, predicted)
      buckets == AggregateSentimentData(related, sentiment, period, weight)
      counted == {k \in DOMAIN buckets : k[1] # "neutral"}
  IN IF Candidates(found, score, embedded) = <<>> THEN [error |-> TRUE]
     ELSE [error |-> FALSE,
           results |-> SelectSeq(related, LAMBDA d : sentiment[d] # "neutral"),
           buckets |-> [k \in counted |-> buckets[k]]]

-----------------------------------------------------------------------------
(* GPT is asked about the two ends of the list: no document is asked about  *)
(* as both, none while one that is surer is left out, and about as many of  *)
(* one end as of the other until one end is used up                         *)
(* (construct_svm_for_filtering, verify_topic_using_gpt).                   *)
AskedFromBothEnds(docs, length, limit) ==
  LET asked == AskedAbout(docs, length, limit)
      from(ends) == Cardinality(ToSet(asked) \cap ToSet(ends))
      first == from(LikelyRelated(docs))
      last == from(LikelyUnrelated(docs))
  IN /\ Len(asked) = first + last /\ IsInjective(asked)
     /\ ToSet(asked) = ToSet(First(docs, first))
                       \cup ToSet(SubSeq(docs, Len(docs) - last + 1, Len(docs)))
     /\ \/ first - last \in {0, 1}
        \/ first < last /\ first = Len(LikelyRelated(docs))
        \/ last < first /\ last = Len(LikelyUnrelated(docs))

(* The buckets count the results that are listed beside them, each once     *)
(* (sentiment_search, aggregate_sentiment_data).                            *)
BucketsCountResults(found, weight) ==
  LET counted == DOMAIN found.buckets
  IN ~found.error =>
       /\ IsInjective(found.results)
       /\ MapThenSumSet(LAMBDA k : found.buckets[k].documents, counted) = Len(found.results)
       /\ MapThenSumSet(LAMBDA k : found.buckets[k].sum, counted)
            = FoldLeft(LAMBDA sum, d : sum + weight[d], 0, found.results)
=============================================================================
