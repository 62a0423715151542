---------------------------- MODULE DuplicateSearch ----------------------------
(***************************************************************************)
(* Searching for duplicates of an issue in the index                        *)
(* (dal/opensearch_interface.py) and choosing who represents a group of     *)
(* duplicates (DuplicateGraphResolver.resolve_duplicate_graphs).  All of it *)
(* reads the links that documents had when they were indexed.               *)
(*                                                                         *)
(* docs is a function from issues; a document tells its type, which issues  *)
(* it links to as duplicates and as clones, whether it has the label of a   *)
(* parent, its project and its resolution.  hits is what the index answers, *)
(* the best first; where it answers page by page, a hit that moves while    *)
(* others are indexed is on two pages.  Links stay during a search.         *)
(***************************************************************************)
EXTENDS Naturals, Sequences, FiniteSets, SequencesExt

Parents(docs) == {i \in DOMAIN docs : docs[i].parent}

(* Filter out known duplicates and clones.                                  *)
Known(docs, target) == docs[target].linked \cup docs[target].clones

NotParent(docs, target, i, sameProject) ==
  /\ sameProject => docs[i].project = docs[target].project
  /\ i # target
  /\ i \notin Known(docs, target) /\ i \notin Parents(docs)

(* get_parent_for_jira: the parents among those linked, in an order Jira    *)
(* knows; the issue itself where it has none.                               *)
Substitutes(docs, i) ==
  IF docs[i].linked \cap Parents(docs) = {} THEN {i} ELSE docs[i].linked \cap Parents(docs)

Linked(docs, found) == UNION {docs[found[k]].linked : k \in DOMAIN found}

(* find_potential_jira_duplicates: the first hits that may be answered; with *)
(* use_parent_issues each hit, unless it is excluded by now, is substituted *)
(* and excludes what it then is and is linked to.  chosen says which parent *)
(* comes first.                                                             *)
PotentialDuplicates(docs, target, hits, chosen, sameProject, count, useParents) ==
  LET results[n \in 0 .. Len(hits)] ==
        IF n = 0 THEN <<>>
        ELSE LET found == results[n - 1]
                 i == hits[n]
             IN IF \/ Len(found) >= count
                   \/ ~NotParent(docs, target, i, sameProject)
                   \/ useParents /\ i \in ToSet(found) \cup Linked(docs, found)
                THEN found
                ELSE Append(found, IF useParents THEN chosen[i] ELSE i)
  IN results[Len(hits)]

(* A mistake: only duplicates of the target are left out.                   *)
MoreLikeThis_OfTarget(docs, target, hits, count) ==
  LET results[n \in 0 .. Len(hits)] ==
        IF n = 0 THEN <<>>
        ELSE LET found == results[n - 1]
             IN IF \/ Len(found) >= count
                   \/ docs[hits[n]].type # "Bug" \/ hits[n] \in docs[target].linked
                THEN found
                ELSE Append(found, hits[n])
  IN results[Len(hits)]

(* run_more_like_this_for_duplicates: the bugs among the hits, page after   *)
(* page, without known duplicates of the target or of a result.  What a     *)
(* result links to is known from then on, but not the result itself.        *)
MoreLikeThis(docs, target, hits, count) ==
  LET results[n \in 0 .. Len(hits)] ==
        IF n = 0 THEN <<>>
        ELSE LET found == results[n - 1]
             IN IF \/ Len(found) >= count
                   \/ docs[hits[n]].type # "Bug"
                   \/ hits[n] \in docs[target].linked \cup Linked(docs, found)
                THEN found
                ELSE Append(found, hits[n])
  IN results[Len(hits)]

-----------------------------------------------------------------------------
(* get_duplicate_graph from one issue: all that can be reached, which is    *)
(* what is in every set that holds the issue and what its members link to.  *)
Closed(docs, S) == \A j \in S : docs[j].linked \subseteq S
Graph(docs, i) ==
  {j \in DOMAIN docs : \A S \in SUBSET DOMAIN docs : i \in S /\ Closed(docs, S) => j \in S}

Open(docs, group) == {i \in group : docs[i].resolution = ""}

(* Who may represent a group: of the parents only bugs are looked at.  The  *)
(* order in which a set is visited decides among equals.                    *)
Representatives(docs, group) ==
  LET parents   == {i \in group \cap Parents(docs) : docs[i].type = "Bug"}
      notDupes  == {i \in group : docs[i].resolution # "Duplicate"}
      preferred == IF parents # {} THEN parents ELSE group
  IN CASE Cardinality(preferred) = 1    -> preferred
       [] Open(docs, preferred) # {}    -> Open(docs, preferred)
       [] parents # {}                  -> parents
       [] parents = {} /\ notDupes # {} -> notDupes
       [] OTHER                         -> group

(* resolve_duplicate_graphs: the issues in turn, unless a graph held them.  *)
(* represent says who is picked of a group; an epic is given to the others  *)
(* for a parent, but is not answered.                                       *)
Resolve(docs, issues, represent) ==
  LET resolved[n \in 0 .. Len(issues)] ==
        IF n = 0 THEN [visited |-> {}, representatives |-> <<>>,
                       parentOf |-> [j \in DOMAIN docs |-> {}]]
        ELSE LET before == resolved[n - 1]
                 group == Graph(docs, issues[n])
                 parent == represent[group]
             IN IF issues[n] \in before.visited THEN before
                ELSE [visited |-> before.visited \cup group,
                      representatives |->
                        IF docs[parent].type = "Epic" THEN before.representatives
                        ELSE Append(before.representatives, parent),
                      parentOf |-> [j \in DOMAIN docs |->
                                      IF j \in group \ {parent} THEN {parent} ELSE before.parentOf[j]]]
  IN resolved[Len(issues)]

-----------------------------------------------------------------------------
(* Both ends of a link were indexed since it was made.                      *)
Settled(docs) ==
  \A a, b \in DOMAIN docs : b \in docs[a].linked => a \in docs[b].linked
Outdated(docs, i) ==
  \E j \in DOMAIN docs : i \in docs[j].linked /\ j \notin docs[i].linked

(* A parent stands for its children once: "a given parent does not appear   *)
(* twice in the list of results", unless its document is older than a link  *)
(* to it; else neither is the target answered.  What the target is linked   *)
(* to is, when it is the parent of a hit that the target is not linked to,  *)
(* and only then (find_potential_jira_duplicates).                          *)
AppearsOnce(docs, target, results) ==
  /\ \A m, n \in DOMAIN results :
       m # n /\ results[m] = results[n] => Outdated(docs, results[m])
  /\ \A m \in DOMAIN results :
       /\ results[m] = target => Outdated(docs, target)
       /\ results[m] \in Known(docs, target) =>
            /\ results[m] \in Parents(docs)
            /\ \E i \in DOMAIN docs \ Known(docs, target) : results[m] \in docs[i].linked

(* No two results link to each other and none is known of the target, and   *)
(* only what is on two pages is answered twice                              *)
(* (run_more_like_this_for_duplicates).                                     *)
Disjoint(docs, target, hits, pages, results) ==
  /\ \A m, n \in DOMAIN results :
       m # n /\ results[n] \in docs[results[m]].linked => results[m] \notin docs[results[n]].linked
  /\ \A m, n \in DOMAIN results :
       m # n /\ results[m] = results[n] =>
         \E j, k \in DOMAIN hits :
           hits[j] = results[m] /\ hits[k] = results[m] /\ pages[j] # pages[k]
  /\ \A m \in DOMAIN results : results[m] \notin docs[target].linked

(* Every issue is represented by one of the answer, by itself or by the     *)
(* parent it is given, unless that is an epic; and where the links of all   *)
(* documents agree, by not more than one, and no group is in the answer     *)
(* twice, whatever the order of the issues (resolve_duplicate_graphs).      *)
StandsFor(resolved, m, i) == resolved.representatives[m] \in {i} \cup resolved.parentOf[i]
HeadOf(resolved, i) == IF resolved.parentOf[i] = {} THEN {i} ELSE resolved.parentOf[i]

Represented(docs, issues, resolved) ==
  \A n \in DOMAIN issues :
    \/ \E m \in DOMAIN resolved.representatives : StandsFor(resolved, m, issues[n])
    \/ \E e \in HeadOf(resolved, issues[n]) : docs[e].type = "Epic"

RepresentedOnce(docs, issues, resolved) ==
  /\ Represented(docs, issues, resolved)
  /\ Settled(docs) =>
       /\ \A n \in DOMAIN issues : \A l, m \in DOMAIN resolved.representatives :
            StandsFor(resolved, l, issues[n]) /\ StandsFor(resolved, m, issues[n]) => l = m
       /\ \A l, m \in DOMAIN resolved.representatives :
            l # m => resolved.representatives[l] \notin Graph(docs, resolved.representatives[m])
=============================================================================
