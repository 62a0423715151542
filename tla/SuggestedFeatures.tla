--------------------------- MODULE SuggestedFeatures ---------------------------
(***************************************************************************)
(* Which features are suggested for a bug report                            *)
(* (manager/jira_feature_manager.py).  Features are numbered in the order   *)
(* of the configuration; a text is a function from terms, the names of      *)
(* features and their synonyms, to how often each is in it, apart from      *)
(* where it is but a part of words that are to be ignored.                  *)
(***************************************************************************)
EXTENDS Naturals, Sequences, FiniteSets, FiniteSetsExt, SequencesExt

CONSTANTS
  Features,    \* 1 .. the number of features
  Terms,       \* what texts are searched for
  FeatureOf,   \* [Terms -> Features]
  Limit,       \* 5 suggestions from texts
  ExtraLimit   \* 2 beside those that the metadata give

Assumptions == FeatureOf \in [Terms -> Features] /\ Limit \in Nat /\ ExtraLimit \in Nat

First(s, n) == SubSeq(s, 1, Min({n, Len(s)}))

(* _get_valid_features: what Jira knows and the configuration as well; all  *)
(* failing requests to Jira look like no features.                          *)
ValidFeatures(onJira) == onJira \cap Features

Count(text, feature) ==
  MapThenSumSet(LAMBDA term : text[term], {t \in Terms : FeatureOf[t] = feature})

(* _get_text_suggested_features: the valid ones that are mentioned, the     *)
(* most often first.                                                        *)
TextSuggestedFeatures(text, valid) ==
  SetToSortSeq({f \in valid : Count(text, f) > 0},
               LAMBDA f, g : Count(text, f) > Count(text, g)
                             \/ (Count(text, f) = Count(text, g) /\ f < g))

(* What the user wrote comes first; if it mentions fewer features than are  *)
(* wanted the generated description fills up, perhaps with the same ones.   *)
TextSuggestions(user, generated, valid) ==
  LET theirs == TextSuggestedFeatures(user, valid)
      ours == TextSuggestedFeatures(generated, valid)
  IN First(theirs, Limit) \o
       IF Len(theirs) < Limit THEN First(ours, Limit - Len(theirs)) ELSE <<>>

(* get_suggested_features: metadata say that the course is mathematics, or  *)
(* which screen it was, and then the texts add only a few.                  *)
SuggestedFeatures(user, generated, valid, special) ==
  LET fromTexts == TextSuggestions(user, generated, valid)
  IN IF special = {} THEN ToSet(fromTexts) ELSE special \cup ToSet(First(fromTexts, ExtraLimit))

OtherFeatures(valid, suggested) == valid \ suggested

-----------------------------------------------------------------------------
(* A feature that the user mentions gives way only to those that metadata   *)
(* give and those that the user mentions at least as often, never to what   *)
(* the program wrote itself; and no feature is offered twice or left out    *)
(* (get_suggested_features).                                                *)
UsersWordComesFirst(user, generated, valid, special) ==
  LET suggested == SuggestedFeatures(user, generated, valid, special)
      other == OtherFeatures(valid, suggested)
  IN /\ \A f \in other : Count(user, f) > 0 =>
          \A g \in suggested \ special : Count(user, g) >= Count(user, f)
     /\ suggested \cap other = {} /\ valid \subseteq suggested \cup other
     /\ suggested \subseteq valid \cup special
     /\ Cardinality(suggested \ special) <= Limit
=============================================================================
