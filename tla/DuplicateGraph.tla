--------------------------- MODULE DuplicateGraph ---------------------------
(***************************************************************************)
(* DuplicateGraphResolver (manager/duplicate_graph_resolver.py) and the    *)
(* request handlers that call it, on top of the Jira REST calls of         *)
(* dal/jira_dal.py.  The graph of duplicate issues lives in Jira; every    *)
(* request reads it level by level, decides on its snapshot, and writes    *)
(* back one REST call at a time, so the handlers of a server with many     *)
(* threads interleave between any two calls, and any call may fail.        *)
(*                                                                         *)
(* Issue keys are numbers in the string order of the keys.  The date an    *)
(* issue was last updated is abstracted to a choice.                       *)
(***************************************************************************)
EXTENDS Naturals, FiniteSets

CONSTANTS
  Issues,       \* issue keys at the start
  Spares,       \* keys Jira gives to the issues it creates
  Hidden,       \* issues Jira does not return (no permission, moved)
  InitState,    \* [Issues -> {"open", "progress", "closed"}]
  InitLinks,    \* duplicate links <<outward, inward>> at the start
  InitParents,  \* issues with the parent_bug label at the start
  Ops,          \* requests
  Kind,         \* [Ops -> {"connect", "noparent", "disconnect", "submit"}]
  Subject,      \* the first issue key of a request
  Others,       \* its other issue keys
  MaxRunning,   \* bound on the requests in progress at one time
  MaxFailures,  \* bound on the REST calls that fail
  NoKey         \* no issue key

Keys == Issues \cup Spares

Assumptions ==
  /\ Keys \subseteq Nat /\ IsFiniteSet(Keys) /\ Issues \cap Spares = {}
  /\ NoKey \notin Keys
  /\ InitState \in [Issues -> {"open", "progress", "closed"}]
  /\ InitLinks \subseteq Issues \X Issues /\ InitParents \subseteq Issues
  /\ Kind \in [Ops -> {"connect", "noparent", "disconnect", "submit"}]
  /\ Subject \in [Ops -> Issues] /\ Others \in [Ops -> SUBSET Issues]
  /\ \A o \in Ops : Kind[o] \in {"noparent", "submit"} => Others[o] # {}
  /\ MaxRunning \in Nat /\ MaxFailures \in Nat

(* Where requests run one after another: issues Jira does not return are   *)
(* not linked, for such a link would join groups that no request can see   *)
(* to be one.                                                              *)
HiddenApart ==
  /\ \A e \in InitLinks : e[1] \notin Hidden /\ e[2] \notin Hidden
  /\ \A o \in Ops : Kind[o] \in {"noparent", "submit"} =>
       Subject[o] \notin Hidden /\ Others[o] \cap Hidden = {}
  /\ Spares \cap Hidden = {}

VARIABLES
  \* Jira
  state,      \* [Keys -> {"none", "open", "progress", "closed"}]
  links,      \* duplicate links <<outward, inward>>
  labelled,   \* issues with the parent_bug label
  data,       \* what a parent's description counts: [Keys -> [Keys -> Nat]]
  \* requests
  pc, frontier, docs, missing, chosen, deprecated,
  current,    \* the parent whose label was just removed
  todo,       \* calls of the current loop that are still to be made
  ok,         \* links made (removed), as far as the request knows
  failed,     \* links not made (not removed), as far as the request knows
  failures

jira == <<state, links, labelled, data>>
read == <<frontier, docs, missing>>
plan == <<chosen, deprecated, current>>
outcome == <<ok, failed>>
vars == <<jira, pc, read, plan, todo, outcome, failures>>

Pairs == Keys \X Keys
Snapshots == [nbrs : SUBSET Keys, outs : SUBSET Keys, label : BOOLEAN,
              state : {"open", "progress", "closed"}, data : [Keys -> Nat]]

TypeOK ==
  /\ state \in [Keys -> {"none", "open", "progress", "closed"}]
  /\ links \subseteq Pairs /\ labelled \subseteq Keys
  /\ data \in [Keys -> [Keys -> Nat]]
  /\ pc \in [Ops -> {"idle", "fetch", "read", "deprecate", "closedep", "link",
                     "close", "unlink", "mark", "closeone", "done", "error"}]
  /\ {frontier, missing, deprecated} \subseteq [Ops -> SUBSET Keys]
  /\ {chosen, current} \subseteq [Ops -> Keys \cup {NoKey}]
  /\ {todo, ok, failed} \subseteq [Ops -> SUBSET Pairs]
  /\ DOMAIN docs = Ops
  /\ \A o \in Ops : /\ DOMAIN docs[o] \subseteq Keys
                    /\ \A k \in DOMAIN docs[o] : docs[o][k] \in Snapshots
  /\ failures \in 0 .. MaxFailures

Init ==
  /\ state = [k \in Keys |-> IF k \in Issues THEN InitState[k] ELSE "none"]
  /\ links = InitLinks /\ labelled = InitParents
  /\ data = [k \in Keys |-> [c \in Keys |-> 0]]
  /\ pc = [o \in Ops |-> "idle"]
  /\ frontier = [o \in Ops |-> {}] /\ docs = [o \in Ops |-> << >>]
  /\ missing = [o \in Ops |-> {}]
  /\ chosen = [o \in Ops |-> NoKey] /\ deprecated = [o \in Ops |-> {}]
  /\ current = [o \in Ops |-> NoKey]
  /\ todo = [o \in Ops |-> {}] /\ ok = [o \in Ops |-> {}]
  /\ failed = [o \in Ops |-> {}]
  /\ failures = 0

Finished(o) == pc[o] \in {"done", "error"}
Running == {o \in Ops : pc[o] # "idle" /\ ~Finished(o)}
Goto(o, label) == pc' = [pc EXCEPT ![o] = label]
Fail == failures < MaxFailures /\ failures' = failures + 1

-----------------------------------------------------------------------------
(* Reading the graph. *)

(* The links of an issue name its neighbours on either side; outs are the  *)
(* ones an issue link of the document lists as inwardIssue.                *)
Snapshot(k) ==
  [nbrs  |-> {j \in Keys : <<j, k>> \in links \/ <<k, j>> \in links},
   outs  |-> {j \in Keys : <<k, j>> \in links},
   label |-> k \in labelled, state |-> state[k], data |-> data[k]]

Start(o) ==
  /\ pc[o] = "idle" /\ Cardinality(Running) < MaxRunning
  /\ Goto(o, IF Kind[o] \in {"connect", "disconnect"} THEN "fetch" ELSE "mark")
  /\ frontier' = [frontier EXCEPT ![o] =
       CASE Kind[o] = "connect"    -> {Subject[o]} \cup Others[o]
         [] Kind[o] = "disconnect" -> {Subject[o]}
         [] OTHER                  -> {}]
  /\ todo' = [todo EXCEPT ![o] =
       CASE Kind[o] = "noparent" -> {Subject[o]} \X Others[o]
         [] Kind[o] = "submit"   -> Others[o] \X {Subject[o]}
         [] OTHER                -> {}]
  /\ UNCHANGED <<jira, docs, missing, plan, outcome, failures>>

(* One bulk download: every issue reached and not yet loaded.              *)
Fetch(o) ==
  LET found == {k \in frontier[o] \ Hidden : state[k] # "none"}
      loaded == [k \in DOMAIN docs[o] \cup found |->
                   IF k \in found THEN Snapshot(k) ELSE docs[o][k]]
      absent == missing[o] \cup (frontier[o] \ found)
  IN /\ pc[o] = "fetch" /\ frontier[o] # {}
     /\ docs' = [docs EXCEPT ![o] = loaded]
     /\ missing' = [missing EXCEPT ![o] = absent]
     /\ frontier' = [frontier EXCEPT ![o] =
          (UNION {loaded[k].nbrs : k \in DOMAIN loaded}) \ (DOMAIN loaded \cup absent)]
     /\ UNCHANGED <<jira, pc, plan, todo, outcome, failures>>

Loaded(o, kind) == pc[o] = "fetch" /\ frontier[o] = {} /\ Kind[o] = kind
GroupParents(o) == {k \in DOMAIN docs[o] : docs[o][k].label}
ExistingLinks(o) ==
  {e \in Pairs : /\ e[1] <= e[2]
                 /\ \/ e[1] \in DOMAIN docs[o] /\ e[2] \in docs[o][e[1]].nbrs
                    \/ e[2] \in DOMAIN docs[o] /\ e[1] \in docs[o][e[2]].nbrs}

-----------------------------------------------------------------------------
(* connect_duplicates_remote. *)

(* all_possible_links - existing_links: the existing ones are sorted pairs.*)
RemainingLinks(o, p, dep, ds) ==
  {<<k, p>> : k \in DOMAIN ds \ ({p} \cup dep)} \ ExistingLinks(o)

(* choose_parent_issue: those it picks the most recently updated one of.   *)
Candidates(o) ==
  LET P == GroupParents(o)
      inProgress == {k \in P : docs[o][k].state = "progress"}
      resolutionSet == {k \in P : docs[o][k].state = "closed"}
  IN CASE inProgress # {} -> inProgress
       [] inProgress = {} /\ resolutionSet # {} -> resolutionSet
       [] OTHER -> P

(* Nothing could be loaded: Counter([]).most_common(1)[0] raises.          *)
ConnectNothing(o) ==
  /\ Loaded(o, "connect") /\ DOMAIN docs[o] = {}
  /\ Goto(o, "error")
  /\ UNCHANGED <<jira, read, plan, todo, outcome, failures>>

AdoptParent(o) ==
  /\ Loaded(o, "connect")
  /\ \E p \in GroupParents(o) :
       /\ GroupParents(o) = {p}
       /\ chosen' = [chosen EXCEPT ![o] = p]
       /\ todo' = [todo EXCEPT ![o] = RemainingLinks(o, p, {}, docs[o])]
  /\ Goto(o, "link")
  /\ UNCHANGED <<jira, read, deprecated, current, outcome, failures>>

\* mutant of CreateParent: the parent is named before Jira has created it
CreateParent_NotStored(o) ==
  /\ Loaded(o, "connect") /\ DOMAIN docs[o] # {} /\ GroupParents(o) = {}
  /\ \E p \in {k \in Spares : state[k] = "none"} :
       chosen' = [chosen EXCEPT ![o] = p]
  /\ Goto(o, "read")
  /\ UNCHANGED <<jira, read, deprecated, current, todo, outcome, failures>>

(* _upload_template_parent_issue *)
CreateParent(o) ==
  /\ Loaded(o, "connect") /\ DOMAIN docs[o] # {} /\ GroupParents(o) = {}
  /\ \E p \in {k \in Spares : state[k] = "none"} :
       /\ state' = [state EXCEPT ![p] = "open"]
       /\ labelled' = labelled \cup {p}
       /\ chosen' = [chosen EXCEPT ![o] = p]
  /\ Goto(o, "read")
  /\ UNCHANGED <<links, data, read, deprecated, current, todo, outcome, failures>>

(* jira_dal.get_issue of the new parent. *)
ReadParent(o) ==
  LET p == chosen[o]
      ds == [k \in DOMAIN docs[o] \cup {p} |->
               IF k = p THEN Snapshot(p) ELSE docs[o][k]]
  IN /\ pc[o] = "read"
     /\ docs' = [docs EXCEPT ![o] = ds]
     /\ todo' = [todo EXCEPT ![o] = RemainingLinks(o, p, {}, ds)]
     /\ Goto(o, "link")
     /\ UNCHANGED <<jira, frontier, missing, plan, outcome, failures>>

(* resolve_multiple_parent_issues: the others are to be deprecated.        *)
ChooseParent(o) ==
  /\ Loaded(o, "connect") /\ Cardinality(GroupParents(o)) > 1
  /\ \E p \in Candidates(o) :
       /\ chosen' = [chosen EXCEPT ![o] = p]
       /\ deprecated' = [deprecated EXCEPT ![o] = GroupParents(o) \ {p}]
       /\ todo' = [todo EXCEPT ![o] = {<<k, k>> : k \in GroupParents(o) \ {p}}]
  /\ Goto(o, "deprecate")
  /\ UNCHANGED <<jira, read, current, outcome, failures>>

\* mutant of RemoveLabel: a deprecated parent keeps its label
RemoveLabel_Kept(o, d) ==
  /\ pc[o] = "deprecate" /\ <<d, d>> \in todo[o]
  /\ current' = [current EXCEPT ![o] = d]
  /\ todo' = [todo EXCEPT ![o] = @ \ {<<d, d>>}]
  /\ Goto(o, "closedep")
  /\ UNCHANGED <<jira, read, chosen, deprecated, outcome, failures>>

(* _deprecate_parent_issues: two calls for each of them. *)
RemoveLabel(o, d) ==
  /\ pc[o] = "deprecate" /\ <<d, d>> \in todo[o]
  /\ labelled' = labelled \ {d}
  /\ current' = [current EXCEPT ![o] = d]
  /\ todo' = [todo EXCEPT ![o] = @ \ {<<d, d>>}]
  /\ Goto(o, "closedep")
  /\ UNCHANGED <<state, links, data, read, chosen, deprecated, outcome, failures>>

CloseDeprecated(o) ==
  /\ pc[o] = "closedep"
  /\ state' = [state EXCEPT ![current[o]] = "closed"]
  /\ current' = [current EXCEPT ![o] = NoKey]
  /\ Goto(o, "deprecate")
  /\ UNCHANGED <<links, labelled, data, read, chosen, deprecated, todo,
                 outcome, failures>>

AllDeprecated(o) ==
  /\ pc[o] = "deprecate" /\ todo[o] = {}
  /\ todo' = [todo EXCEPT ![o] =
                RemainingLinks(o, chosen[o], deprecated[o], docs[o])]
  /\ Goto(o, "link")
  /\ UNCHANGED <<jira, read, plan, outcome, failures>>

(* mark_duplicates_async: the links are posted in parallel.                *)
LinkChild(o, e) ==
  /\ pc[o] = "link" /\ e \in todo[o]
  /\ links' = links \cup {e}
  /\ todo' = [todo EXCEPT ![o] = @ \ {e}]
  /\ ok' = [ok EXCEPT ![o] = @ \cup {e}]
  /\ UNCHANGED <<state, labelled, data, pc, read, plan, failed, failures>>

\* mutant of LinkChildFails: a failed request counts as made
LinkChildFails_ReportedAsMade(o, e) ==
  /\ pc[o] = "link" /\ e \in todo[o] /\ Fail
  /\ links' \in {links, links \cup {e}}
  /\ todo' = [todo EXCEPT ![o] = @ \ {e}]
  /\ ok' = [ok EXCEPT ![o] = @ \cup {e}]
  /\ UNCHANGED <<state, labelled, data, pc, read, plan, failed>>

(* A request that failed may still have reached Jira. *)
LinkChildFails(o, e) ==
  /\ pc[o] = "link" /\ e \in todo[o] /\ Fail
  /\ links' \in {links, links \cup {e}}
  /\ todo' = [todo EXCEPT ![o] = @ \ {e}]
  /\ failed' = [failed EXCEPT ![o] = @ \cup {e}]
  /\ UNCHANGED <<state, labelled, data, pc, read, plan, ok>>

(* The children that are closed: unlabelled and unresolved in the snapshot *)
(* the request took, whether their link was made or not.                   *)
ToClose(o) ==
  {k \in DOMAIN docs[o] \ ({chosen[o]} \cup deprecated[o]) :
     ~docs[o][k].label /\ docs[o][k].state # "closed"}

(* update_issue of the parent, whose failure is only logged: the           *)
(* description counts the snapshot's children and the ones just linked.    *)
UpdateParent(o) ==
  LET p == chosen[o] IN
  /\ pc[o] = "link" /\ todo[o] = {}
  /\ \/ /\ data' = [data EXCEPT ![p] = [c \in Keys |->
                      docs[o][p].data[c] + IF <<c, p>> \in ok[o] THEN 1 ELSE 0]]
        /\ UNCHANGED failures
     \/ Fail /\ UNCHANGED data
  /\ todo' = [todo EXCEPT ![o] = {<<k, k>> : k \in ToClose(o)}]
  /\ Goto(o, "close")
  /\ UNCHANGED <<state, links, labelled, read, plan, outcome>>

(* close_issue_as_duplicate of a child; a failure is only logged.          *)
CloseChild(o, k) ==
  /\ pc[o] = "close" /\ <<k, k>> \in todo[o]
  /\ \/ state' = [state EXCEPT ![k] = "closed"] /\ UNCHANGED failures
     \/ Fail /\ UNCHANGED state
  /\ todo' = [todo EXCEPT ![o] = @ \ {<<k, k>>}]
  /\ UNCHANGED <<links, labelled, data, pc, read, plan, outcome>>

ConnectDone(o) ==
  /\ pc[o] = "close" /\ todo[o] = {}
  /\ Goto(o, "done")
  /\ UNCHANGED <<jira, read, plan, todo, outcome, failures>>

(* The exceptions that end the request: a download, the creation or the    *)
(* deprecation of a parent, the summary.  What was done stays done.        *)
Abort(o) ==
  /\ \/ pc[o] \in {"fetch", "read", "deprecate", "closedep"}
     \/ pc[o] = "link" /\ todo[o] = {}
  /\ Fail
  /\ Goto(o, "error")
  /\ UNCHANGED <<jira, read, plan, todo, outcome>>

ConnectNext(o) ==
  \/ ConnectNothing(o) \/ AdoptParent(o) \/ CreateParent(o) \/ ReadParent(o)
  \/ ChooseParent(o) \/ CloseDeprecated(o) \/ AllDeprecated(o) \/ UpdateParent(o)
  \/ ConnectDone(o)
  \/ \E k \in Keys : RemoveLabel(o, k) \/ CloseChild(o, k)
  \/ \E e \in Pairs : LinkChild(o, e) \/ LinkChildFails(o, e)

-----------------------------------------------------------------------------
(* disconnect_duplicates_remote. *)

\* mutant of LinksToDelete: only sorted pairs are looked up
LinksToDelete_OneDirection(o) ==
  {e \in Pairs : e[1] <= e[2] /\ e[1] \in DOMAIN docs[o] /\ e[2] \in docs[o][e[1]].outs}

(* edges_to_ids, found from either end of every existing link.             *)
LinksToDelete(o) ==
  {e \in Pairs : e[1] \in DOMAIN docs[o] /\ e[2] \in docs[o][e[1]].outs}

FindLinks(o) ==
  /\ Loaded(o, "disconnect")
  /\ todo' = [todo EXCEPT ![o] = LinksToDelete(o)]
  /\ Goto(o, "unlink")
  /\ UNCHANGED <<jira, read, plan, outcome, failures>>

(* A link that is gone already answers 404.  *)
Unlink(o, e) ==
  /\ pc[o] = "unlink" /\ e \in todo[o]
  /\ links' = links \ {e}
  /\ todo' = [todo EXCEPT ![o] = @ \ {e}]
  /\ IF e \in links
     THEN ok' = [ok EXCEPT ![o] = @ \cup {e}] /\ UNCHANGED failed
     ELSE failed' = [failed EXCEPT ![o] = @ \cup {e}] /\ UNCHANGED ok
  /\ UNCHANGED <<state, labelled, data, pc, read, plan, failures>>

UnlinkFails(o, e) ==
  /\ pc[o] = "unlink" /\ e \in todo[o] /\ Fail
  /\ links' \in {links, links \ {e}}
  /\ todo' = [todo EXCEPT ![o] = @ \ {e}]
  /\ failed' = [failed EXCEPT ![o] = @ \cup {e}]
  /\ UNCHANGED <<state, labelled, data, pc, read, plan, ok>>

DisconnectDone(o) ==
  /\ pc[o] = "unlink" /\ todo[o] = {}
  /\ Goto(o, "done")
  /\ UNCHANGED <<jira, read, plan, todo, outcome, failures>>

DisconnectNext(o) ==
  \/ FindLinks(o) \/ DisconnectDone(o)
  \/ \E e \in Pairs : Unlink(o, e) \/ UnlinkFails(o, e)

-----------------------------------------------------------------------------
(* connect_duplicates_no_parent and submit_duplicates go through           *)
(* try_mark_duplicate_remote, which answers True whenever mark_duplicate   *)
(* returns, and mark_duplicate returns also when the request failed.       *)
TryMarkDuplicate(o, e) ==
  /\ pc[o] = "mark" /\ e \in todo[o]
  /\ \/ links' = links \cup {e} /\ UNCHANGED failures
     \/ links' \in {links, links \cup {e}} /\ Fail
  /\ todo' = [todo EXCEPT ![o] = @ \ {e}]
  /\ ok' = [ok EXCEPT ![o] = @ \cup {e}]
  /\ UNCHANGED <<state, labelled, data, pc, read, plan, failed>>

AllMarked(o) ==
  /\ pc[o] = "mark" /\ todo[o] = {}
  /\ Goto(o, IF Kind[o] = "noparent" THEN "closeone" ELSE "done")
  /\ UNCHANGED <<jira, read, plan, todo, outcome, failures>>

CloseSubject(o) ==
  /\ pc[o] = "closeone"
  /\ \/ state' = [state EXCEPT ![Subject[o]] = "closed"] /\ UNCHANGED failures
     \/ Fail /\ UNCHANGED state
  /\ Goto(o, "done")
  /\ UNCHANGED <<links, labelled, data, read, plan, todo, outcome>>

MarkNext(o) ==
  \/ \E e \in Pairs : TryMarkDuplicate(o, e)
  \/ AllMarked(o) \/ CloseSubject(o)

-----------------------------------------------------------------------------
AllFinished == (\A o \in Ops : Finished(o)) /\ UNCHANGED vars

Next ==
  \/ \E o \in Ops : \/ Start(o) \/ Fetch(o) \/ Abort(o)
                    \/ ConnectNext(o) \/ DisconnectNext(o) \/ MarkNext(o)
  \/ AllFinished

Spec == Init /\ [][Next]_vars

-----------------------------------------------------------------------------
(* The first line of the manifest. *)
Status(o) == CASE failed[o] = {}                  -> "SUCCESS"
               [] failed[o] # {} /\ ok[o] # {}    -> "PARTIAL"
               [] OTHER                           -> "FAILURE"
Succeeded(o) == pc[o] = "done" /\ Status(o) = "SUCCESS"

Linked(a, b) == <<a, b>> \in links \/ <<b, a>> \in links

(* The connected component of an issue in Jira's duplicate graph.          *)
Group(k) ==
  {j \in Keys : \A S \in SUBSET Keys :
     k \in S /\ (\A e \in links : e[1] \in S <=> e[2] \in S) => j \in S}

(* A connect request that answers SUCCESS leaves every issue of its group  *)
(* linked to the parent it names, also when other connect requests         *)
(* interleave with it and calls fail (connect_duplicates_remote).  Stated  *)
(* of runs in which nobody disconnects.                                    *)
SuccessIsStar ==
  \A o \in Ops : Kind[o] = "connect" /\ Succeeded(o) =>
    \A k \in DOMAIN docs[o] \ ({chosen[o]} \cup deprecated[o]) :
      Linked(k, chosen[o])

(* What a parent's description counts was linked to it: a child whose link *)
(* failed is not counted, whatever request wrote the description last      *)
(* (update_parent_data_from_child is called for created links only).       *)
CountedIsLinked ==
  \A p, c \in Keys : data[p][c] > 0 => Linked(c, p)

(* A connect request that runs alone and answers SUCCESS leaves exactly    *)
(* one parent in the group it worked on, however many it found and         *)
(* whichever calls failed in earlier requests.                             *)
Completes(o) == ~Finished(o) /\ Succeeded(o)'
LeavesOneParent ==
  \A o \in Ops : Kind[o] = "connect" /\ Completes(o) =>
    labelled' \cap Group(chosen[o])' = {chosen'[o]}

(* A disconnect request that runs alone and answers SUCCESS turns the      *)
(* whole component of its issue into single issues                         *)
(* (fully_disconnect_duplicates).                                          *)
LeavesSingles ==
  \A o \in Ops : Kind[o] = "disconnect" /\ Completes(o) =>
    \A k \in DOMAIN docs[o] \cup {Subject[o]} : Group(k)' = {k}

(* Docstring of connect_duplicates_remote: "enforces the presence of       *)
(* exactly one parent issue in the resulting group", here for requests     *)
(* that overlap.                                                           *)
ExactlyOneParent ==
  Running = {} =>
    \A o \in Ops : Kind[o] = "connect" /\ Succeeded(o) =>
      Cardinality(labelled \cap Group(chosen[o])) = 1

(* test_choose_parent_issue, "Favor to-do issues over done issues": of     *)
(* several parents, a resolved one is kept only when all are resolved.     *)
FavorsUnresolved ==
  \A o \in Ops : chosen[o] # NoKey /\ deprecated[o] # {} =>
    (docs[o][chosen[o]].state = "closed" =>
       \A d \in deprecated[o] : docs[o][d].state = "closed")
=============================================================================
