-------------------------- MODULE DuplicateGraphProofs --------------------------
(***************************************************************************)
(* What requests promise, for any issues, links and requests: a connect    *)
(* request that others interleave with, as long as nobody disconnects, and *)
(* connect and disconnect requests that run one after another.             *)
(***************************************************************************)
EXTENDS DuplicateGraph, FiniteSetTheorems, TLAPS

(* A request is only ever at steps of its own kind.                        *)
KindFits ==
  \A o \in Ops :
    /\ pc[o] \in {"read", "deprecate", "closedep", "link", "close"} =>
         Kind[o] = "connect"
    /\ pc[o] = "unlink" => Kind[o] = "disconnect"
    /\ pc[o] \in {"mark", "closeone"} => Kind[o] \in {"noparent", "submit"}

(* The parent that is being read exists, and the parent that the links are *)
(* made to was loaded.                                                     *)
HasParent ==
  \A o \in Ops :
    /\ pc[o] = "read" => chosen[o] \in Keys /\ state[chosen[o]] # "none"
    /\ pc[o] \in {"deprecate", "closedep", "link"} => chosen[o] \in DOMAIN docs[o]

WellFormed == TypeOK /\ KindFits /\ HasParent

-----------------------------------------------------------------------------
LEMMA TypeInit == ASSUME Assumptions, Init PROVE WellFormed
BY SMT DEF WellFormed, KindFits, HasParent, Assumptions, Init, TypeOK, Keys, Pairs, Snapshots

(* What a request reads of an issue that exists is a snapshot.             *)
LEMMA SnapshotType ==
  ASSUME TypeOK, NEW k \in Keys, state[k] # "none"
  PROVE  Snapshot(k) \in Snapshots
BY DEF TypeOK, Snapshot, Snapshots

LEMMA FetchType ==
  ASSUME TypeOK, NEW o \in Ops, Fetch(o)
  PROVE  TypeOK'
<1> DEFINE found == {k \in frontier[o] \ Hidden : state[k] # "none"}
           loaded == [k \in DOMAIN docs[o] \cup found |->
                        IF k \in found THEN Snapshot(k) ELSE docs[o][k]]
<1>1. found \subseteq Keys
  BY DEF TypeOK
<1>2. \A k \in DOMAIN loaded : k \in Keys /\ loaded[k] \in Snapshots
  BY <1>1, SnapshotType DEF TypeOK
<1>3. UNION {loaded[k].nbrs : k \in DOMAIN loaded} \subseteq Keys
  <2> HIDE DEF loaded
  <2> QED BY <1>2 DEF Snapshots
<1>4. docs' = [docs EXCEPT ![o] = loaded]
  BY DEF Fetch
<1>5. /\ DOMAIN docs' = Ops
      /\ \A q \in Ops : /\ DOMAIN docs'[q] \subseteq Keys
                        /\ \A k \in DOMAIN docs'[q] : docs'[q][k] \in Snapshots
  <2> HIDE DEF loaded
  <2> QED BY <1>2, <1>4 DEF TypeOK
<1>6. frontier' \in [Ops -> SUBSET Keys] /\ missing' \in [Ops -> SUBSET Keys]
  <2> DEFINE absent == missing[o] \cup (frontier[o] \ found)
             next == (UNION {loaded[k].nbrs : k \in DOMAIN loaded}) \ (DOMAIN loaded \cup absent)
  <2>1. missing' = [missing EXCEPT ![o] = absent] /\ frontier' = [frontier EXCEPT ![o] = next]
    BY DEF Fetch
  <2>2. absent \subseteq Keys
    BY DEF TypeOK
  <2>3. next \subseteq Keys
    <3> HIDE DEF loaded
    <3> QED BY <1>3
  <2> HIDE DEF absent, next
  <2> QED BY <2>1, <2>2, <2>3 DEF TypeOK
<1>7. UNCHANGED <<jira, pc, plan, todo, outcome, failures>>
  BY DEF Fetch
<1> HIDE DEF found, loaded
<1> QED BY <1>5, <1>6, <1>7 DEF TypeOK, jira, plan, outcome

LEMMA RemainingType ==
  ASSUME NEW o \in Ops, NEW p \in Keys, NEW dep, NEW ds, DOMAIN ds \subseteq Keys
  PROVE  RemainingLinks(o, p, dep, ds) \in SUBSET Pairs
BY DEF RemainingLinks, Pairs

(* A call that fails stays within the bound on failures.                   *)
LEMMA FailType ==
  ASSUME Assumptions, failures \in 0 .. MaxFailures, Fail \/ UNCHANGED failures
  PROVE  failures' \in 0 .. MaxFailures
BY SMT DEF Assumptions, Fail

LEMMA ConnectType ==
  ASSUME Assumptions, WellFormed, NEW o \in Ops, ConnectNext(o)
  PROVE  TypeOK'
<1> USE DEF WellFormed, TypeOK, Goto, jira, read, plan, outcome
<1>1. CASE ConnectNothing(o) \/ ConnectDone(o)
  BY <1>1 DEF ConnectNothing, ConnectDone
<1>2. CASE AdoptParent(o)
  <2>1. PICK p \in GroupParents(o) :
          /\ chosen' = [chosen EXCEPT ![o] = p]
          /\ todo' = [todo EXCEPT ![o] = RemainingLinks(o, p, {}, docs[o])]
    BY <1>2 DEF AdoptParent
  <2>2. p \in Keys
    BY DEF GroupParents
  <2>3. RemainingLinks(o, p, {}, docs[o]) \in SUBSET Pairs
    BY <2>2, RemainingType
  <2> QED BY <1>2, <2>1, <2>2, <2>3 DEF AdoptParent
<1>3. CASE CreateParent(o)
  BY <1>3 DEF CreateParent, Keys
<1>4. CASE ReadParent(o)
  <2> DEFINE ds == [k \in DOMAIN docs[o] \cup {chosen[o]} |->
                      IF k = chosen[o] THEN Snapshot(chosen[o]) ELSE docs[o][k]]
  <2>1. chosen[o] \in Keys /\ state[chosen[o]] # "none"
    BY <1>4 DEF ReadParent, HasParent
  <2>2. \A k \in DOMAIN ds : k \in Keys /\ ds[k] \in Snapshots
    BY <2>1, SnapshotType
  <2>3. RemainingLinks(o, chosen[o], {}, ds) \in SUBSET Pairs
    BY <2>1, <2>2, RemainingType
  <2>4. /\ docs' = [docs EXCEPT ![o] = ds]
        /\ todo' = [todo EXCEPT ![o] = RemainingLinks(o, chosen[o], {}, ds)]
        /\ pc' = [pc EXCEPT ![o] = "link"]
        /\ UNCHANGED <<jira, frontier, missing, plan, outcome, failures>>
    BY <1>4 DEF ReadParent
  <2> HIDE DEF ds
  <2> QED BY <2>2, <2>3, <2>4
<1>5. CASE ChooseParent(o)
  <2>1. PICK p \in Candidates(o) :
          /\ chosen' = [chosen EXCEPT ![o] = p]
          /\ deprecated' = [deprecated EXCEPT ![o] = GroupParents(o) \ {p}]
          /\ todo' = [todo EXCEPT ![o] = {<<k, k>> : k \in GroupParents(o) \ {p}}]
    BY <1>5 DEF ChooseParent
  <2>2. p \in Keys /\ GroupParents(o) \subseteq Keys
    BY DEF Candidates, GroupParents
  <2> QED BY <1>5, <2>1, <2>2 DEF ChooseParent, Pairs
<1>6. CASE CloseDeprecated(o)
  <2>1. state' \in [Keys -> {"none", "open", "progress", "closed"}]
    BY <1>6 DEF CloseDeprecated
  <2>2. current' \in [Ops -> Keys \cup {NoKey}]
    BY <1>6 DEF CloseDeprecated
  <2> QED BY <1>6, <2>1, <2>2 DEF CloseDeprecated
<1>7. CASE AllDeprecated(o)
  <2>1. chosen[o] \in Keys
    BY <1>7 DEF AllDeprecated, HasParent
  <2>2. RemainingLinks(o, chosen[o], deprecated[o], docs[o]) \in SUBSET Pairs
    BY <2>1, RemainingType
  <2> QED BY <1>7, <2>2 DEF AllDeprecated
<1>8. CASE UpdateParent(o)
  <2>1. failures' \in 0 .. MaxFailures
    BY <1>8, FailType DEF UpdateParent
  <2>2. data' \in [Keys -> [Keys -> Nat]]
    <3>1. chosen[o] \in DOMAIN docs[o] /\ docs[o][chosen[o]] \in Snapshots
      BY <1>8 DEF UpdateParent, HasParent
    <3>2. [c \in Keys |-> docs[o][chosen[o]].data[c]
                          + IF <<c, chosen[o]>> \in ok[o] THEN 1 ELSE 0]
            \in [Keys -> Nat]
      BY <3>1, SMT DEF Snapshots
    <3> DEFINE counts == [c \in Keys |-> docs[o][chosen[o]].data[c]
                                        + IF <<c, chosen[o]>> \in ok[o] THEN 1 ELSE 0]
    <3>3. data' = [data EXCEPT ![chosen[o]] = counts] \/ data' = data
      BY <1>8 DEF UpdateParent
    <3> HIDE DEF counts
    <3>4. [data EXCEPT ![chosen[o]] = counts] \in [Keys -> [Keys -> Nat]]
      BY <3>2 DEF counts
    <3> QED BY <3>3, <3>4
  <2>3. {<<k, k>> : k \in ToClose(o)} \in SUBSET Pairs
    BY DEF ToClose, Pairs
  <2> QED BY <1>8, <2>1, <2>2, <2>3 DEF UpdateParent
<1>9. ASSUME NEW k \in Keys, RemoveLabel(o, k) \/ CloseChild(o, k)
      PROVE  TypeOK'
  <2>1. CASE RemoveLabel(o, k)
    BY <2>1 DEF RemoveLabel
  <2>2. CASE CloseChild(o, k)
    <3>1. failures' \in 0 .. MaxFailures
      BY <2>2, FailType DEF CloseChild
    <3> QED BY <2>2, <3>1 DEF CloseChild
  <2> QED BY <1>9, <2>1, <2>2
<1>10. ASSUME NEW e \in Pairs, LinkChild(o, e) \/ LinkChildFails(o, e)
       PROVE  TypeOK'
  <2>1. CASE LinkChild(o, e)
    BY <2>1 DEF LinkChild
  <2>2. CASE LinkChildFails(o, e)
    <3>1. failures' \in 0 .. MaxFailures
      BY <2>2, FailType DEF LinkChildFails
    <3> QED BY <2>2, <3>1 DEF LinkChildFails
  <2> QED BY <1>10, <2>1, <2>2
<1> QED BY <1>1, <1>2, <1>3, <1>4, <1>5, <1>6, <1>7, <1>8, <1>9, <1>10 DEF ConnectNext

LEMMA TypeStep ==
  ASSUME Assumptions, WellFormed, [Next]_vars
  PROVE  TypeOK'
<1> USE DEF WellFormed, TypeOK, Goto, jira, read, plan, outcome
<1>1. ASSUME NEW o \in Ops, Start(o) PROVE TypeOK'
  <2>1. \A l \in {"fetch", "mark"} :
          [pc EXCEPT ![o] = l] \in [Ops -> {"idle", "fetch", "read", "deprecate",
                     "closedep", "link", "close", "unlink", "mark",
                     "closeone", "done", "error"}]
    OBVIOUS
  <2>2. pc' \in [Ops -> {"idle", "fetch", "read", "deprecate",
                     "closedep", "link", "close", "unlink", "mark",
                     "closeone", "done", "error"}]
    BY <1>1, <2>1 DEF Start
  <2>3. /\ {Subject[o]} \cup Others[o] \subseteq Keys
        /\ {Subject[o]} \X Others[o] \subseteq Pairs
        /\ Others[o] \X {Subject[o]} \subseteq Pairs
    BY DEF Assumptions, Keys, Pairs
  <2>4. frontier' \in [Ops -> SUBSET Keys]
    BY <1>1, <2>3 DEF Start
  <2>5. todo' \in [Ops -> SUBSET Pairs]
    BY <1>1, <2>3 DEF Start
  <2> QED BY <1>1, <2>2, <2>4, <2>5 DEF Start
<1>2. ASSUME NEW o \in Ops, Fetch(o) PROVE TypeOK'
  BY <1>2, FetchType
<1>3. ASSUME NEW o \in Ops, Abort(o) PROVE TypeOK'
  <2>1. failures' \in 0 .. MaxFailures
    BY <1>3, FailType DEF Abort
  <2> QED BY <1>3, <2>1 DEF Abort
<1>4. ASSUME NEW o \in Ops, ConnectNext(o) PROVE TypeOK'
  BY <1>4, ConnectType
<1>5. ASSUME NEW o \in Ops, FindLinks(o) PROVE TypeOK'
  <2>1. LinksToDelete(o) \in SUBSET Pairs
    BY DEF LinksToDelete
  <2> QED BY <1>5, <2>1 DEF FindLinks
<1>6. ASSUME NEW o \in Ops, DisconnectDone(o) \/ AllMarked(o) PROVE TypeOK'
  <2>1. \E l \in {"closeone", "done"} : pc' = [pc EXCEPT ![o] = l]
    BY <1>6 DEF DisconnectDone, AllMarked
  <2>2. UNCHANGED <<jira, read, plan, todo, outcome, failures>>
    BY <1>6 DEF DisconnectDone, AllMarked
  <2>3. pc' \in [Ops -> {"idle", "fetch", "read", "deprecate",
                     "closedep", "link", "close", "unlink", "mark",
                     "closeone", "done", "error"}]
    BY <2>1
  <2> QED BY <2>2, <2>3
<1>7. ASSUME NEW o \in Ops, NEW e \in Pairs, Unlink(o, e) PROVE TypeOK'
  <2>1. CASE e \in links
    BY <1>7, <2>1 DEF Unlink
  <2>2. CASE e \notin links
    BY <1>7, <2>2 DEF Unlink
  <2> QED BY <2>1, <2>2
<1>8. ASSUME NEW o \in Ops, NEW e \in Pairs, UnlinkFails(o, e) PROVE TypeOK'
  <2>1. failures' \in 0 .. MaxFailures
    BY <1>8, FailType DEF UnlinkFails
  <2> QED BY <1>8, <2>1 DEF UnlinkFails
<1>9. ASSUME NEW o \in Ops, NEW e \in Pairs, TryMarkDuplicate(o, e) PROVE TypeOK'
  <2>1. failures' \in 0 .. MaxFailures
    BY <1>9, FailType DEF TryMarkDuplicate
  <2> QED BY <1>9, <2>1 DEF TryMarkDuplicate
<1>10. ASSUME NEW o \in Ops, CloseSubject(o) PROVE TypeOK'
  <2>1. failures' \in 0 .. MaxFailures
    BY <1>10, FailType DEF CloseSubject
  <2>2. state' \in [Keys -> {"none", "open", "progress", "closed"}]
    BY <1>10 DEF CloseSubject
  <2> QED BY <1>10, <2>1, <2>2 DEF CloseSubject
<1>11. CASE UNCHANGED vars
  BY <1>11 DEF vars
<1> QED BY <1>1, <1>2, <1>3, <1>4, <1>5, <1>6, <1>7, <1>8, <1>9, <1>10, <1>11
        DEF Next, DisconnectNext, MarkNext, AllFinished

(* The step of a request moves that request alone.                         *)
LEMMA KindStep ==
  ASSUME Assumptions, WellFormed, [Next]_vars
  PROVE  KindFits'
<1> USE DEF WellFormed, TypeOK, KindFits, Goto
<1>1. ASSUME NEW o \in Ops, Start(o) \/ Fetch(o) \/ Abort(o) PROVE KindFits'
  <2>1. CASE Start(o)
    <3>1. CASE Kind[o] \in {"connect", "disconnect"}
      BY <2>1, <3>1 DEF Start
    <3>2. CASE Kind[o] \in {"noparent", "submit"}
      BY <2>1, <3>2 DEF Start
    <3> QED BY <3>1, <3>2 DEF Assumptions
  <2>2. CASE Fetch(o)
    BY <2>2 DEF Fetch
  <2>3. CASE Abort(o)
    BY <2>3 DEF Abort
  <2> QED BY <1>1, <2>1, <2>2, <2>3
<1>2. ASSUME NEW o \in Ops, ConnectNext(o) PROVE KindFits'
  <2>1. CASE ConnectNothing(o) \/ AdoptParent(o) \/ CreateParent(o) \/ ChooseParent(o)
    BY <2>1 DEF ConnectNothing, AdoptParent, CreateParent, ChooseParent, Loaded
  <2>2. CASE \/ ReadParent(o) \/ CloseDeprecated(o) \/ AllDeprecated(o)
             \/ UpdateParent(o) \/ ConnectDone(o)
    BY <2>2 DEF ReadParent, CloseDeprecated, AllDeprecated, UpdateParent, ConnectDone
  <2>3. ASSUME NEW k \in Keys, RemoveLabel(o, k) \/ CloseChild(o, k) PROVE KindFits'
    BY <2>3 DEF RemoveLabel, CloseChild
  <2>4. ASSUME NEW e \in Pairs, LinkChild(o, e) \/ LinkChildFails(o, e)
        PROVE  KindFits'
    BY <2>4 DEF LinkChild, LinkChildFails
  <2> QED BY <1>2, <2>1, <2>2, <2>3, <2>4 DEF ConnectNext
<1>3. ASSUME NEW o \in Ops, DisconnectNext(o) PROVE KindFits'
  BY <1>3 DEF DisconnectNext, FindLinks, DisconnectDone, Unlink, UnlinkFails, Loaded
<1>4. ASSUME NEW o \in Ops, MarkNext(o) PROVE KindFits'
  BY <1>4 DEF MarkNext, TryMarkDuplicate, AllMarked, CloseSubject
<1>5. CASE UNCHANGED vars
  BY <1>5 DEF vars
<1> QED BY <1>1, <1>2, <1>3, <1>4, <1>5 DEF Next, AllFinished

(* No issue is ever deleted.                                               *)
LEMMA StateKept ==
  ASSUME WellFormed, [Next]_vars, NEW k \in Keys, state[k] # "none"
  PROVE  state'[k] # "none"
<1> USE DEF WellFormed, TypeOK, jira
<1>1. ASSUME NEW o \in Ops, Start(o) \/ Fetch(o) \/ Abort(o) PROVE state' = state
  BY <1>1 DEF Start, Fetch, Abort
<1>2. ASSUME NEW o \in Ops, ConnectNext(o) PROVE state'[k] # "none"
  <2>1. CASE \/ ConnectNothing(o) \/ AdoptParent(o) \/ ReadParent(o) \/ ChooseParent(o)
             \/ AllDeprecated(o) \/ UpdateParent(o) \/ ConnectDone(o)
    BY <2>1 DEF ConnectNothing, AdoptParent, ReadParent, ChooseParent, AllDeprecated,
                UpdateParent, ConnectDone
  <2>2. CASE CreateParent(o) \/ CloseDeprecated(o)
    BY <2>2 DEF CreateParent, CloseDeprecated
  <2>3. ASSUME NEW d \in Keys, RemoveLabel(o, d) \/ CloseChild(o, d)
        PROVE  state'[k] # "none"
    BY <2>3 DEF RemoveLabel, CloseChild
  <2>4. ASSUME NEW e \in Pairs, LinkChild(o, e) \/ LinkChildFails(o, e)
        PROVE  state' = state
    BY <2>4 DEF LinkChild, LinkChildFails
  <2> QED BY <1>2, <2>1, <2>2, <2>3, <2>4 DEF ConnectNext
<1>3. ASSUME NEW o \in Ops, DisconnectNext(o) PROVE state' = state
  BY <1>3 DEF DisconnectNext, FindLinks, DisconnectDone, Unlink, UnlinkFails
<1>4. ASSUME NEW o \in Ops, MarkNext(o) PROVE state'[k] # "none"
  BY <1>4 DEF MarkNext, TryMarkDuplicate, AllMarked, CloseSubject
<1>5. CASE UNCHANGED vars
  BY <1>5 DEF vars
<1> QED BY <1>1, <1>2, <1>3, <1>4, <1>5 DEF Next, AllFinished

(* A request keeps what it has loaded and, once it has chosen a parent,    *)
(* its choice.                                                             *)
LEMMA ParentStep ==
  ASSUME Assumptions, WellFormed, [Next]_vars
  PROVE  HasParent'
<1> USE DEF WellFormed, TypeOK, HasParent, Goto, jira, read, plan
<1>0. ASSUME UNCHANGED docs, UNCHANGED chosen, NEW o \in Ops, NEW l,
             l \notin {"read", "deprecate", "closedep", "link"},
             pc' = [pc EXCEPT ![o] = l]
      PROVE  HasParent'
  BY <1>0, StateKept
<1>1. ASSUME NEW o \in Ops, Start(o) PROVE HasParent'
  <2>1. \E l \in {"fetch", "mark"} : pc' = [pc EXCEPT ![o] = l]
    BY <1>1 DEF Start
  <2> QED BY <1>0, <1>1, <2>1 DEF Start
<1>2. ASSUME NEW o \in Ops, Fetch(o) PROVE HasParent'
  BY <1>2, StateKept DEF Fetch
<1>3. ASSUME NEW o \in Ops, Abort(o) PROVE HasParent'
  BY <1>0, <1>3 DEF Abort
<1>4. ASSUME NEW o \in Ops, ConnectNext(o) PROVE HasParent'
  <2>1. CASE ConnectNothing(o) \/ ConnectDone(o) \/ UpdateParent(o)
    BY <1>0, <2>1 DEF ConnectNothing, ConnectDone, UpdateParent
  <2>2. CASE AdoptParent(o) \/ ChooseParent(o)
    BY <2>2, StateKept DEF AdoptParent, ChooseParent, GroupParents, Candidates, Loaded
  <2>3. CASE CreateParent(o)
    <3>1. PICK p \in Spares : /\ state' = [state EXCEPT ![p] = "open"]
                              /\ chosen' = [chosen EXCEPT ![o] = p]
      BY <2>3 DEF CreateParent
    <3>2. /\ pc' = [pc EXCEPT ![o] = "read"] /\ UNCHANGED docs
          /\ pc[o] = "fetch"
      BY <2>3 DEF CreateParent, Loaded
    <3>3. \A q \in Ops : pc'[q] = "read" => chosen'[q] \in Keys /\ state'[chosen'[q]] # "none"
      BY <3>1, <3>2, StateKept DEF Keys
    <3>4. \A q \in Ops : pc'[q] \in {"deprecate", "closedep", "link"} =>
                            chosen'[q] \in DOMAIN docs'[q]
      BY <3>1, <3>2
    <3> QED BY <3>3, <3>4
  <2>4. CASE ReadParent(o)
    BY <2>4, StateKept DEF ReadParent
  <2>5. CASE CloseDeprecated(o) \/ AllDeprecated(o)
    BY <2>5, StateKept DEF CloseDeprecated, AllDeprecated
  <2>6. ASSUME NEW k \in Keys, RemoveLabel(o, k) \/ CloseChild(o, k)
        PROVE  HasParent'
    BY <2>6, StateKept DEF RemoveLabel, CloseChild
  <2>7. ASSUME NEW e \in Pairs, LinkChild(o, e) \/ LinkChildFails(o, e)
        PROVE  HasParent'
    BY <2>7, StateKept DEF LinkChild, LinkChildFails
  <2> QED BY <1>4, <2>1, <2>2, <2>3, <2>4, <2>5, <2>6, <2>7 DEF ConnectNext
<1>5. ASSUME NEW o \in Ops, DisconnectNext(o) PROVE HasParent'
  BY <1>5, StateKept DEF DisconnectNext, FindLinks, DisconnectDone, Unlink, UnlinkFails
<1>6. ASSUME NEW o \in Ops, MarkNext(o) PROVE HasParent'
  <2>1. UNCHANGED <<docs, chosen>>
    BY <1>6 DEF MarkNext, TryMarkDuplicate, AllMarked, CloseSubject
  <2>2. PICK l \in {"mark", "closeone", "done"} : pc' = [pc EXCEPT ![o] = l]
    BY <1>6 DEF MarkNext, TryMarkDuplicate, AllMarked, CloseSubject
  <2>3. l \notin {"read", "deprecate", "closedep", "link"}
    OBVIOUS
  <2> QED BY <1>0, <2>1, <2>2, <2>3
<1>7. CASE UNCHANGED vars
  BY <1>7 DEF vars
<1> QED BY <1>1, <1>2, <1>3, <1>4, <1>5, <1>6, <1>7 DEF Next, AllFinished

LEMMA WellFormedStep ==
  ASSUME Assumptions, WellFormed, [Next]_vars
  PROVE  WellFormed'
BY TypeStep, KindStep, ParentStep DEF WellFormed

(* Every variable has its type, whatever the requests do.                  *)
THEOREM TypeCorrect == ASSUME Assumptions PROVE Spec => []TypeOK
<1>1. Init => WellFormed
  BY TypeInit
<1>2. WellFormed /\ [Next]_vars => WellFormed'
  BY WellFormedStep
<1>3. WellFormed => TypeOK
  BY DEF WellFormed
<1> QED BY <1>1, <1>2, <1>3, PTL DEF Spec

-----------------------------------------------------------------------------
(* Connecting.  Nobody disconnects: Jira keeps every link that was made.   *)
NoDisconnect == \A o \in Ops : Kind[o] # "disconnect"

(* What a request has read of the links and of a description still holds.  *)
SnapshotsHold ==
  \A o \in Ops : \A k \in DOMAIN docs[o] :
    /\ \A j \in docs[o][k].nbrs : Linked(j, k)
    /\ \A c \in Keys : docs[o][k].data[c] > 0 => Linked(c, k)

(* The links a connect request reports as made are there.                  *)
MadeIsLinked == \A o \in Ops : Kind[o] = "connect" => ok[o] \subseteq links

(* From the choice of the parent on, every other issue that was loaded is  *)
(* linked to it, or about to be, or its link is known to have failed.      *)
StarSoFar ==
  \A o \in Ops : Kind[o] = "connect" /\ pc[o] \in {"link", "close", "done"} =>
    \A k \in DOMAIN docs[o] \ ({chosen[o]} \cup deprecated[o]) :
      \/ Linked(k, chosen[o])
      \/ pc[o] = "link" /\ <<k, chosen[o]>> \in todo[o]
      \/ <<k, chosen[o]>> \in failed[o]

ConnectInv ==
  WellFormed /\ SnapshotsHold /\ MadeIsLinked /\ StarSoFar /\ CountedIsLinked

LEMMA ConnectInit == ASSUME Assumptions, Init PROVE ConnectInv
<1>1. WellFormed
  BY TypeInit
<1>2. SnapshotsHold
  BY DEF Init, SnapshotsHold
<1>3. MadeIsLinked
  BY DEF Init, MadeIsLinked
<1>4. StarSoFar
  BY DEF Init, StarSoFar
<1>5. CountedIsLinked
  BY SMT DEF Init, CountedIsLinked
<1> QED BY <1>1, <1>2, <1>3, <1>4, <1>5 DEF ConnectInv

(* Only a disconnect request takes a link away.                            *)
LEMMA LinksGrow ==
  ASSUME NoDisconnect, WellFormed, [Next]_vars
  PROVE  links \subseteq links'
<1> USE DEF jira
<1>1. ASSUME NEW o \in Ops, Start(o) \/ Fetch(o) \/ Abort(o) PROVE links' = links
  BY <1>1 DEF Start, Fetch, Abort
<1>2. ASSUME NEW o \in Ops, ConnectNext(o) PROVE links \subseteq links'
  <2>1. ASSUME NEW e \in Pairs, LinkChild(o, e) \/ LinkChildFails(o, e)
        PROVE  links \subseteq links'
    BY <2>1 DEF LinkChild, LinkChildFails
  <2> QED BY <1>2, <2>1 DEF ConnectNext, ConnectNothing, AdoptParent, CreateParent,
        ReadParent, ChooseParent, CloseDeprecated, AllDeprecated, UpdateParent,
        ConnectDone, RemoveLabel, CloseChild
<1>3. ASSUME NEW o \in Ops, DisconnectNext(o) PROVE FALSE
  BY <1>3 DEF NoDisconnect, WellFormed, KindFits, DisconnectNext, FindLinks, Loaded,
              DisconnectDone, Unlink, UnlinkFails
<1>4. ASSUME NEW o \in Ops, MarkNext(o) PROVE links \subseteq links'
  BY <1>4 DEF MarkNext, TryMarkDuplicate, AllMarked, CloseSubject
<1>5. CASE UNCHANGED vars
  BY <1>5 DEF vars
<1> QED BY <1>1, <1>2, <1>3, <1>4, <1>5 DEF Next, AllFinished

(* What a request knows of an issue is what it knew or what it reads now.  *)
LEMMA DocsChange ==
  ASSUME WellFormed, [Next]_vars, NEW o \in Ops, NEW k \in DOMAIN docs'[o]
  PROVE  \/ k \in DOMAIN docs[o] /\ docs'[o][k] = docs[o][k]
         \/ k \in Keys /\ docs'[o][k] = Snapshot(k)
<1> USE DEF WellFormed, TypeOK, read
<1>1. ASSUME NEW q \in Ops, Fetch(q)
      PROVE  \/ k \in DOMAIN docs[o] /\ docs'[o][k] = docs[o][k]
             \/ k \in Keys /\ docs'[o][k] = Snapshot(k)
  BY <1>1 DEF Fetch
<1>2. ASSUME NEW q \in Ops, ReadParent(q)
      PROVE  \/ k \in DOMAIN docs[o] /\ docs'[o][k] = docs[o][k]
             \/ k \in Keys /\ docs'[o][k] = Snapshot(k)
  BY <1>2 DEF ReadParent, HasParent
<1>3. ASSUME NEW q \in Ops, Start(q) \/ Abort(q) \/ DisconnectNext(q) \/ MarkNext(q)
      PROVE  docs' = docs
  BY <1>3 DEF Start, Abort, DisconnectNext, FindLinks, DisconnectDone, Unlink,
       UnlinkFails, MarkNext, TryMarkDuplicate, AllMarked, CloseSubject
<1>4. ASSUME NEW q \in Ops, ConnectNext(q), ~ReadParent(q) PROVE docs' = docs
  BY <1>4 DEF ConnectNext, ConnectNothing, AdoptParent, CreateParent, ChooseParent,
       CloseDeprecated, AllDeprecated, UpdateParent, ConnectDone, RemoveLabel,
       CloseChild, LinkChild, LinkChildFails
<1>5. CASE UNCHANGED vars
  BY <1>5 DEF vars
<1> QED BY <1>1, <1>2, <1>3, <1>4, <1>5 DEF Next, AllFinished

LEMMA SnapshotsStep ==
  ASSUME NoDisconnect, ConnectInv, [Next]_vars
  PROVE  SnapshotsHold'
<1> SUFFICES ASSUME NEW o \in Ops, NEW k \in DOMAIN docs'[o]
             PROVE  /\ \A j \in docs'[o][k].nbrs : Linked(j, k)'
                    /\ \A c \in Keys : docs'[o][k].data[c] > 0 => Linked(c, k)'
  BY DEF SnapshotsHold
<1>1. links \subseteq links'
  BY LinksGrow DEF ConnectInv
<1>2. \/ k \in DOMAIN docs[o] /\ docs'[o][k] = docs[o][k]
      \/ k \in Keys /\ docs'[o][k] = Snapshot(k)
  BY DocsChange DEF ConnectInv
<1>3. CASE k \in DOMAIN docs[o] /\ docs'[o][k] = docs[o][k]
  BY <1>1, <1>3 DEF ConnectInv, SnapshotsHold, Linked
<1>4. CASE k \in Keys /\ docs'[o][k] = Snapshot(k)
  <2>1. \A j \in Snapshot(k).nbrs : Linked(j, k)
    BY DEF Snapshot, Linked
  <2>2. \A c \in Keys : Snapshot(k).data[c] > 0 => Linked(c, k)
    BY <1>4 DEF Snapshot, ConnectInv, CountedIsLinked
  <2> QED BY <1>1, <1>4, <2>1, <2>2 DEF Linked
<1> QED BY <1>2, <1>3, <1>4

LEMMA MadeStep ==
  ASSUME NoDisconnect, ConnectInv, [Next]_vars
  PROVE  MadeIsLinked'
<1> USE DEF ConnectInv, WellFormed, TypeOK, MadeIsLinked, outcome
<1>1. links \subseteq links'
  BY LinksGrow
<1>2. ASSUME NEW o \in Ops, NEW e \in Pairs, LinkChild(o, e) PROVE MadeIsLinked'
  BY <1>2 DEF LinkChild
<1>3. ASSUME NEW o \in Ops, NEW e \in Pairs, TryMarkDuplicate(o, e) PROVE MadeIsLinked'
  <2>1. Kind[o] # "connect"
    BY <1>3 DEF TryMarkDuplicate, KindFits
  <2> QED BY <1>1, <1>3, <2>1 DEF TryMarkDuplicate
<1>4. ASSUME NEW o \in Ops, NEW e \in Pairs, LinkChildFails(o, e) PROVE ok' = ok
  BY <1>4 DEF LinkChildFails
<1>5. ASSUME NEW o \in Ops,
             \/ Start(o) \/ Fetch(o) \/ Abort(o) \/ AllMarked(o) \/ CloseSubject(o)
             \/ ConnectNothing(o) \/ AdoptParent(o) \/ CreateParent(o)
             \/ ReadParent(o) \/ ChooseParent(o) \/ CloseDeprecated(o)
             \/ AllDeprecated(o) \/ UpdateParent(o) \/ ConnectDone(o)
             \/ \E k \in Keys : RemoveLabel(o, k) \/ CloseChild(o, k)
      PROVE  ok' = ok
  BY <1>5 DEF Start, Fetch, Abort, AllMarked, CloseSubject, ConnectNothing,
       AdoptParent, CreateParent, ReadParent, ChooseParent, CloseDeprecated,
       AllDeprecated, UpdateParent, ConnectDone, RemoveLabel, CloseChild
<1>6. ASSUME NEW o \in Ops, DisconnectNext(o) PROVE FALSE
  BY <1>6 DEF NoDisconnect, KindFits, DisconnectNext, FindLinks, Loaded,
              DisconnectDone, Unlink, UnlinkFails
<1>7. CASE UNCHANGED vars
  BY <1>1, <1>7 DEF vars
<1>8. CASE ok' = ok
  BY <1>1, <1>8
<1>9. ASSUME NEW o \in Ops, ConnectNext(o) PROVE MadeIsLinked'
  <2> HIDE DEF MadeIsLinked
  <2> QED BY <1>2, <1>4, <1>5, <1>8, <1>9 DEF ConnectNext
<1>10. ASSUME NEW o \in Ops, MarkNext(o) PROVE MadeIsLinked'
  <2> HIDE DEF MadeIsLinked
  <2> QED BY <1>3, <1>5, <1>8, <1>10 DEF MarkNext
<1> HIDE DEF ConnectInv, WellFormed, TypeOK, MadeIsLinked
<1>11. CASE AllFinished
  BY <1>7, <1>11 DEF AllFinished
<1> QED BY <1>5, <1>6, <1>7, <1>8, <1>9, <1>10, <1>11 DEF Next

(* The links that are still to be made, and the ones that are not because  *)
(* the snapshot has them, cover every issue that was loaded.               *)
LEMMA RemainingCovers ==
  ASSUME ConnectInv, NEW o \in Ops, NEW p \in Keys, NEW dep, NEW ds,
         DOMAIN ds \subseteq Keys, NEW k \in DOMAIN ds \ ({p} \cup dep)
  PROVE  <<k, p>> \in RemainingLinks(o, p, dep, ds) \/ Linked(k, p)
<1>1. CASE <<k, p>> \in ExistingLinks(o)
  <2>1. \/ k \in DOMAIN docs[o] /\ p \in docs[o][k].nbrs
        \/ p \in DOMAIN docs[o] /\ k \in docs[o][p].nbrs
    BY <1>1 DEF ExistingLinks
  <2> QED BY <2>1 DEF ConnectInv, SnapshotsHold, Linked
<1>2. CASE <<k, p>> \notin ExistingLinks(o)
  BY <1>2 DEF RemainingLinks
<1> QED BY <1>1, <1>2

(* The step of a request is about that request and Jira.                   *)
LEMMA OthersKeep ==
  ASSUME WellFormed, NEW o \in Ops, NEW q \in Ops, q # o,
         \/ Start(o) \/ Fetch(o) \/ Abort(o)
         \/ ConnectNext(o) \/ DisconnectNext(o) \/ MarkNext(o)
  PROVE  UNCHANGED <<pc[q], docs[q], missing[q], chosen[q], deprecated[q], todo[q], failed[q]>>
<1> USE DEF WellFormed, TypeOK, Goto, jira, read, plan, outcome
<1>1. CASE Start(o) \/ Fetch(o) \/ Abort(o)
  BY <1>1 DEF Start, Fetch, Abort
<1>2. CASE ConnectNext(o)
  <2>1. CASE \/ ConnectNothing(o) \/ AdoptParent(o) \/ CreateParent(o)
             \/ ReadParent(o) \/ ChooseParent(o) \/ CloseDeprecated(o)
    BY <2>1 DEF ConnectNothing, AdoptParent, CreateParent, ReadParent, ChooseParent,
                CloseDeprecated
  <2>2. CASE AllDeprecated(o) \/ UpdateParent(o) \/ ConnectDone(o)
    BY <2>2 DEF AllDeprecated, UpdateParent, ConnectDone
  <2>3. ASSUME NEW k \in Keys, RemoveLabel(o, k) \/ CloseChild(o, k)
        PROVE  UNCHANGED <<pc[q], docs[q], missing[q], chosen[q], deprecated[q], todo[q], failed[q]>>
    BY <2>3 DEF RemoveLabel, CloseChild
  <2>4. ASSUME NEW e \in Pairs, LinkChild(o, e) \/ LinkChildFails(o, e)
        PROVE  UNCHANGED <<pc[q], docs[q], missing[q], chosen[q], deprecated[q], todo[q], failed[q]>>
    BY <2>4 DEF LinkChild, LinkChildFails
  <2> QED BY <1>2, <2>1, <2>2, <2>3, <2>4 DEF ConnectNext
<1>3. CASE DisconnectNext(o)
  BY <1>3 DEF DisconnectNext, FindLinks, DisconnectDone, Unlink, UnlinkFails
<1>4. CASE MarkNext(o)
  BY <1>4 DEF MarkNext, TryMarkDuplicate, AllMarked, CloseSubject
<1> QED BY <1>1, <1>2, <1>3, <1>4

LEMMA StarStep ==
  ASSUME Assumptions, NoDisconnect, ConnectInv, [Next]_vars
  PROVE  StarSoFar'
<1> DEFINE Covered(o, k) == \/ Linked(k, chosen[o])
                            \/ pc[o] = "link" /\ <<k, chosen[o]>> \in todo[o]
                            \/ <<k, chosen[o]>> \in failed[o]
           Loads(o) == DOMAIN docs[o] \ ({chosen[o]} \cup deprecated[o])
           Linking(o) == Kind[o] = "connect" /\ pc[o] \in {"link", "close", "done"}
           Star(o) == Linking(o) => \A k \in Loads(o) : Covered(o, k)
<1>a. StarSoFar <=> \A o \in Ops : Star(o)
  BY DEF StarSoFar
<1>b. StarSoFar' <=> \A o \in Ops : Star(o)'
  BY DEF StarSoFar
<1>c. links \subseteq links'
  BY LinksGrow DEF ConnectInv
<1> USE DEF ConnectInv, WellFormed, TypeOK, Goto, jira, read, plan, outcome
\* A request that keeps its parent and loses no link out of sight.
<1>d. ASSUME NEW o \in Ops,
             UNCHANGED <<docs[o], chosen[o], deprecated[o]>>,
             Linking(o)' => Linking(o),
             pc[o] = "link" => \A e \in todo[o] :
                      \/ e \in todo'[o] /\ pc'[o] = "link"
                      \/ e \in links' \/ e \in failed'[o],
             failed[o] \subseteq failed'[o]
      PROVE  Star(o)'
  BY <1>a, <1>c, <1>d DEF Linked
<1>e. ASSUME NEW o \in Ops, Linking(o)' => FALSE PROVE Star(o)'
  BY <1>e
\* The parent is chosen and the links to be made are worked out.
<1>f. ASSUME NEW o \in Ops, NEW p \in Keys, chosen'[o] = p, pc'[o] = "link",
             DOMAIN docs'[o] \subseteq Keys, NEW dep \in SUBSET deprecated'[o],
             todo'[o] = RemainingLinks(o, p, dep, docs'[o])
      PROVE  Star(o)'
  <2> SUFFICES ASSUME NEW k \in DOMAIN docs'[o] \ ({p} \cup deprecated'[o])
               PROVE  <<k, p>> \in todo'[o] \/ Linked(k, p)'
    BY <1>f DEF Linked
  <2>1. <<k, p>> \in RemainingLinks(o, p, dep, docs'[o]) \/ Linked(k, p)
    BY <1>f, RemainingCovers
  <2> QED BY <1>c, <1>f, <2>1 DEF Linked
<1>1. ASSUME NEW o \in Ops, Start(o) \/ Fetch(o) \/ Abort(o) PROVE Star(o)'
  BY <1>1, <1>e DEF Start, Fetch, Abort
<1>2. ASSUME NEW o \in Ops, AdoptParent(o) PROVE Star(o)'
  <2>1. PICK p \in GroupParents(o) :
          /\ chosen' = [chosen EXCEPT ![o] = p]
          /\ todo' = [todo EXCEPT ![o] = RemainingLinks(o, p, {}, docs[o])]
    BY <1>2 DEF AdoptParent
  <2>2. p \in Keys /\ pc'[o] = "link" /\ docs' = docs
    BY <1>2 DEF AdoptParent, GroupParents
  <2>3. todo'[o] = RemainingLinks(o, p, {}, docs'[o]) /\ chosen'[o] = p
    BY <2>1, <2>2
  <2>4. DOMAIN docs'[o] \subseteq Keys /\ {} \in SUBSET deprecated'[o]
    BY <2>2
  <2> HIDE DEF Star
  <2> QED BY <1>f, <2>2, <2>3, <2>4
<1>3. ASSUME NEW o \in Ops, ReadParent(o) PROVE Star(o)'
  <2> DEFINE ds == [k \in DOMAIN docs[o] \cup {chosen[o]} |->
                      IF k = chosen[o] THEN Snapshot(chosen[o]) ELSE docs[o][k]]
  <2>1. chosen[o] \in Keys /\ DOMAIN ds \subseteq Keys
    BY <1>3 DEF ReadParent, HasParent
  <2>2. /\ docs' = [docs EXCEPT ![o] = ds]
        /\ todo' = [todo EXCEPT ![o] = RemainingLinks(o, chosen[o], {}, ds)]
        /\ pc'[o] = "link" /\ chosen' = chosen
    BY <1>3 DEF ReadParent
  <2>3. todo'[o] = RemainingLinks(o, chosen[o], {}, docs'[o]) /\ chosen'[o] = chosen[o]
    BY <2>2
  <2> HIDE DEF ds
  <2>4. DOMAIN docs'[o] \subseteq Keys /\ {} \in SUBSET deprecated'[o]
    BY <2>1, <2>2
  <2> HIDE DEF Star
  <2> QED BY <1>f, <2>1, <2>2, <2>3, <2>4
<1>4. ASSUME NEW o \in Ops, AllDeprecated(o) PROVE Star(o)'
  <2>1. chosen[o] \in Keys
    BY <1>4 DEF AllDeprecated, HasParent
  <2> QED BY <1>4, <1>f, <2>1 DEF AllDeprecated
<1>5. ASSUME NEW o \in Ops,
             \/ ConnectNothing(o) \/ CreateParent(o) \/ ChooseParent(o)
             \/ CloseDeprecated(o) \/ \E k \in Keys : RemoveLabel(o, k)
      PROVE  Star(o)'
  BY <1>5, <1>e DEF ConnectNothing, CreateParent, ChooseParent, CloseDeprecated,
       RemoveLabel
<1>6. ASSUME NEW o \in Ops,
             \/ UpdateParent(o) \/ ConnectDone(o)
             \/ \E k \in Keys : CloseChild(o, k)
      PROVE  Star(o)'
  BY <1>6, <1>d DEF UpdateParent, ConnectDone, CloseChild
<1>7. ASSUME NEW o \in Ops, NEW e \in Pairs, LinkChild(o, e) \/ LinkChildFails(o, e)
      PROVE  Star(o)'
  <2>1. /\ todo' = [todo EXCEPT ![o] = @ \ {e}] /\ UNCHANGED <<pc, read, plan>>
        /\ \/ links' = links \cup {e} /\ failed' = failed
           \/ failed' = [failed EXCEPT ![o] = @ \cup {e}]
    BY <1>7 DEF LinkChild, LinkChildFails
  <2>2. \A d \in todo[o] : d \in todo'[o] \/ d \in links' \/ d \in failed'[o]
    BY <2>1
  <2>3. failed[o] \subseteq failed'[o]
    BY <2>1
  <2> HIDE DEF Star
  <2> QED BY <2>1, <2>2, <2>3, <1>d
<1>8. ASSUME NEW o \in Ops, MarkNext(o) PROVE Star(o)'
  <2>1. Kind[o] # "connect"
    BY <1>8 DEF KindFits, MarkNext, TryMarkDuplicate, AllMarked, CloseSubject
  <2> QED BY <1>e, <2>1
<1>9. ASSUME NEW o \in Ops, DisconnectNext(o) PROVE FALSE
  BY <1>9 DEF NoDisconnect, KindFits, DisconnectNext, FindLinks, Loaded,
              DisconnectDone, Unlink, UnlinkFails
<1>10. ASSUME NEW o \in Ops, NEW q \in Ops, q # o,
              \/ Start(o) \/ Fetch(o) \/ Abort(o)
              \/ ConnectNext(o) \/ DisconnectNext(o) \/ MarkNext(o)
       PROVE  Star(q)'
  <2>1. UNCHANGED <<pc[q], docs[q], chosen[q], deprecated[q], todo[q], failed[q]>>
    BY <1>10, OthersKeep
  <2> QED BY <2>1, <1>d
<1>11. ASSUME NEW o \in Ops, ConnectNext(o) PROVE Star(o)'
  <2> HIDE DEF Star
  <2> QED BY <1>2, <1>3, <1>4, <1>5, <1>6, <1>7, <1>11 DEF ConnectNext
<1>12. ASSUME UNCHANGED vars, NEW o \in Ops PROVE Star(o)'
  <2>1. UNCHANGED <<pc, docs, chosen, deprecated, todo, failed>>
    BY <1>12 DEF vars
  <2> HIDE DEF Star
  <2> QED BY <2>1, <1>d
<1> HIDE DEF Star, ConnectInv, WellFormed, TypeOK
<1> QED BY <1>b, <1>1, <1>8, <1>9, <1>10, <1>11, <1>12 DEF Next, AllFinished

(* A description counts what its request read there and the links the      *)
(* request has made.                                                       *)
LEMMA CountStep ==
  ASSUME Assumptions, NoDisconnect, ConnectInv, [Next]_vars
  PROVE  CountedIsLinked'
<1> USE DEF ConnectInv, WellFormed, TypeOK, jira
<1>1. links \subseteq links'
  BY LinksGrow
<1>2. ASSUME NEW o \in Ops, UpdateParent(o) PROVE CountedIsLinked'
  <2> SUFFICES ASSUME NEW p \in Keys, NEW c \in Keys, data'[p][c] > 0
               PROVE  Linked(c, p)'
    BY DEF CountedIsLinked
  <2>1. /\ pc[o] = "link" /\ Kind[o] = "connect" /\ chosen[o] \in DOMAIN docs[o]
        /\ ok[o] \subseteq links
    BY <1>2 DEF UpdateParent, KindFits, HasParent, MadeIsLinked
  <2>2. CASE data'[p][c] = data[p][c]
    BY <1>1, <2>2 DEF CountedIsLinked, Linked
  <2>3. CASE /\ p = chosen[o]
             /\ data'[p][c] = docs[o][p].data[c] + IF <<c, p>> \in ok[o] THEN 1 ELSE 0
    <3>1. CASE <<c, p>> \in ok[o]
      BY <1>1, <2>1, <3>1 DEF Linked
    <3>2. CASE <<c, p>> \notin ok[o]
      <4>1. docs[o][p].data[c] > 0
        <5>1. docs[o][p].data[c] \in Nat
          BY <2>1, <2>3 DEF Snapshots
        <5> QED BY <2>3, <3>2, <5>1, SMT
      <4> QED BY <1>1, <2>1, <2>3, <4>1 DEF SnapshotsHold, Linked
    <3> QED BY <3>1, <3>2
  <2> QED BY <1>2, <2>2, <2>3 DEF UpdateParent
<1>3. ASSUME NEW o \in Ops, ConnectNext(o), ~UpdateParent(o) PROVE data' = data
  BY <1>3 DEF ConnectNext, ConnectNothing, AdoptParent, CreateParent, ReadParent,
       ChooseParent, CloseDeprecated, AllDeprecated, ConnectDone, RemoveLabel,
       CloseChild, LinkChild, LinkChildFails
<1>4. ASSUME NEW o \in Ops,
             Start(o) \/ Fetch(o) \/ Abort(o) \/ DisconnectNext(o) \/ MarkNext(o)
      PROVE  data' = data
  BY <1>4 DEF Start, Fetch, Abort, DisconnectNext, FindLinks, DisconnectDone, Unlink,
       UnlinkFails, MarkNext, TryMarkDuplicate, AllMarked, CloseSubject
<1>5. ASSUME UNCHANGED vars PROVE data' = data
  BY <1>5 DEF vars
<1>6. CASE data' = data
  BY <1>1, <1>6 DEF CountedIsLinked, Linked
<1> HIDE DEF ConnectInv, WellFormed, TypeOK
<1> QED BY <1>2, <1>3, <1>4, <1>5, <1>6 DEF Next, AllFinished

LEMMA ConnectStep ==
  ASSUME Assumptions, NoDisconnect, ConnectInv, [Next]_vars
  PROVE  ConnectInv'
<1>1. WellFormed'
  BY WellFormedStep DEF ConnectInv
<1> QED BY <1>1, SnapshotsStep, MadeStep, StarStep, CountStep DEF ConnectInv

LEMMA StarAtTheEnd ==
  ASSUME ConnectInv
  PROVE  SuccessIsStar
<1>1. ASSUME NEW o \in Ops, Succeeded(o) PROVE pc[o] = "done" /\ failed[o] = {}
  BY <1>1 DEF Succeeded, Status
<1> QED BY <1>1 DEF ConnectInv, StarSoFar, SuccessIsStar

(* A connect request that answers SUCCESS leaves every issue it loaded     *)
(* linked to the parent it names, for any graph and any number of requests *)
(* that interleave with it, whichever of their calls fail                  *)
(* (connect_duplicates_remote), as long as nobody disconnects.             *)
THEOREM SuccessIsStarCorrect ==
  ASSUME Assumptions, NoDisconnect PROVE Spec => []SuccessIsStar
<1>1. Init => ConnectInv
  BY ConnectInit
<1>2. ConnectInv /\ [Next]_vars => ConnectInv'
  BY ConnectStep
<1> QED BY <1>1, <1>2, StarAtTheEnd, PTL DEF Spec

(* What the description of a parent counts was linked to it, whatever      *)
(* request wrote the description last (connect_duplicates_remote), as long *)
(* as nobody disconnects.                                                  *)
THEOREM CountedIsLinkedCorrect ==
  ASSUME Assumptions, NoDisconnect PROVE Spec => []CountedIsLinked
<1>1. Init => ConnectInv
  BY ConnectInit
<1>2. ConnectInv /\ [Next]_vars => ConnectInv'
  BY ConnectStep
<1>3. ConnectInv => CountedIsLinked
  BY DEF ConnectInv
<1> QED BY <1>1, <1>2, <1>3, PTL DEF Spec

-----------------------------------------------------------------------------
(* Requests one after another.                                             *)

Serial == \A o, q \in Running : o = q

Visible(k) == k \notin Hidden /\ state[k] # "none"

(* Links and labels are of issues that exist, the links of issues that     *)
(* Jira returns.                                                           *)
NothingDangles ==
  /\ \A e \in links : Visible(e[1]) /\ Visible(e[2])
  /\ \A k \in labelled \cup Issues : state[k] # "none"

Closed(D) == \A e \in links : e[1] \in D <=> e[2] \in D

Untouched(o) == pc[o] = "idle" => DOMAIN docs[o] = {} /\ missing[o] = {}

(* A snapshot says what Jira says, and the next download goes where the    *)
(* last ones pointed.                                                      *)
ReadTruly(o) ==
  pc[o] = "fetch" =>
    /\ \A k \in DOMAIN docs[o] :
         /\ Visible(k)
         /\ docs[o][k].nbrs = {j \in Keys : Linked(j, k)}
         /\ docs[o][k].outs = {j \in Keys : <<k, j>> \in links}
         /\ docs[o][k].label <=> k \in labelled
         /\ docs[o][k].nbrs \subseteq DOMAIN docs[o] \cup missing[o] \cup frontier[o]
    /\ \A k \in missing[o] : ~Visible(k)
    /\ Kind[o] = "disconnect" => Subject[o] \in DOMAIN docs[o] \cup missing[o] \cup frontier[o]

(* What was read is a whole group, and of its parents all but the chosen    *)
(* one are still to be deprecated.                                         *)
GroupInHand(o) ==
  /\ pc[o] = "read" =>
       /\ Closed(DOMAIN docs[o]) /\ \A k \in DOMAIN docs[o] : Visible(k)
       /\ labelled \cap DOMAIN docs[o] = {}
       /\ chosen[o] \in labelled /\ Visible(chosen[o])
       /\ \A e \in links : e[1] # chosen[o] /\ e[2] # chosen[o]
  /\ pc[o] \in {"deprecate", "closedep", "link", "close"} =>
       /\ Closed(DOMAIN docs[o]) /\ \A k \in DOMAIN docs[o] : Visible(k)
       /\ chosen[o] \in DOMAIN docs[o]
  /\ pc[o] \in {"deprecate", "closedep"} =>
       /\ labelled \cap DOMAIN docs[o] =
            {chosen[o]} \cup {k \in DOMAIN docs[o] : <<k, k>> \in todo[o]}
       /\ <<chosen[o], chosen[o]>> \notin todo[o]
  /\ pc[o] \in {"link", "close"} => labelled \cap DOMAIN docs[o] = {chosen[o]}
  /\ pc[o] = "link" => \A e \in todo[o] : e[1] \in DOMAIN docs[o] /\ e[2] \in DOMAIN docs[o]

(* The links of what was read are to be removed, or removing them failed.   *)
LinksInHand(o) ==
  pc[o] = "unlink" =>
    /\ \A e \in links : e[1] \in DOMAIN docs[o] \/ e[2] \in DOMAIN docs[o] =>
         e \in todo[o] \cup failed[o]
    /\ Subject[o] \in DOMAIN docs[o] \/ ~Visible(Subject[o])

(* A request that marks issues as duplicates marks its own.                *)
MarksOwn(o) ==
  pc[o] = "mark" => todo[o] \subseteq (Issues \ Hidden) \X (Issues \ Hidden)

LoneInv ==
  /\ WellFormed /\ Serial /\ NothingDangles
  /\ \A o \in Ops : /\ Untouched(o) /\ ReadTruly(o) /\ GroupInHand(o)
                    /\ LinksInHand(o) /\ MarksOwn(o)

LEMMA LoneInit ==
  ASSUME Assumptions, HiddenApart, Init
  PROVE  LoneInv
<1>1. WellFormed
  BY TypeInit
<1>2. Serial
  BY DEF Init, Serial, Running
<1>3. NothingDangles
  BY DEF Init, NothingDangles, Visible, HiddenApart, Assumptions, Keys
<1>4. \A o \in Ops : /\ Untouched(o) /\ ReadTruly(o) /\ GroupInHand(o)
                     /\ LinksInHand(o) /\ MarksOwn(o)
  BY DEF Init, Untouched, ReadTruly, GroupInHand, LinksInHand, MarksOwn
<1> QED BY <1>1, <1>2, <1>3, <1>4 DEF LoneInv

(* A request begins when no other is running.                              *)
LEMMA StartsAlone ==
  ASSUME MaxRunning = 1, Serial, NEW o \in Ops, Start(o)
  PROVE  Running = {}
<1> SUFFICES ASSUME NEW q \in Running PROVE FALSE
  OBVIOUS
<1>1. Running = {q}
  BY DEF Serial
<1>2. Cardinality(Running) = 1
  BY <1>1, FS_Singleton
<1> QED BY <1>2 DEF Start

(* While a request goes on every other is idle or finished, and stays so.  *)
LEMMA OthersRest ==
  ASSUME MaxRunning = 1, WellFormed, Serial, NEW o \in Ops, NEW q \in Ops, q # o,
         \/ Start(o) \/ Fetch(o) \/ Abort(o)
         \/ ConnectNext(o) \/ DisconnectNext(o) \/ MarkNext(o)
  PROVE  /\ pc[q] \in {"idle", "done", "error"} /\ pc'[q] = pc[q]
         /\ docs'[q] = docs[q] /\ missing'[q] = missing[q]
<1>1. pc'[q] = pc[q] /\ docs'[q] = docs[q] /\ missing'[q] = missing[q]
  BY OthersKeep
<1>2. CASE Start(o)
  BY <1>1, <1>2, StartsAlone DEF Running, Finished
<1>3. CASE ~Start(o)
  <2>1. o \in Running
    BY <1>3 DEF Running, Finished, Fetch, Abort, ConnectNext, DisconnectNext, MarkNext,
       ConnectNothing, AdoptParent, CreateParent, ReadParent, ChooseParent, CloseDeprecated,
       AllDeprecated, UpdateParent, ConnectDone, RemoveLabel, CloseChild, LinkChild,
       LinkChildFails, FindLinks, DisconnectDone, Unlink, UnlinkFails, TryMarkDuplicate,
       AllMarked, CloseSubject, Loaded
  <2>2. q \notin Running
    BY <2>1 DEF Serial
  <2> QED BY <1>1, <2>2 DEF Running, Finished
<1> QED BY <1>2, <1>3

LEMMA SerialStep ==
  ASSUME MaxRunning = 1, WellFormed, Serial, [Next]_vars
  PROVE  Serial'
<1>1. ASSUME NEW o \in Ops,
             \/ Start(o) \/ Fetch(o) \/ Abort(o)
             \/ ConnectNext(o) \/ DisconnectNext(o) \/ MarkNext(o)
      PROVE  Serial'
  <2>1. \A q \in Ops : q # o => q \notin Running'
    BY <1>1, OthersRest DEF Running, Finished
  <2> QED BY <2>1 DEF Serial, Running
<1>2. CASE UNCHANGED vars
  BY <1>2 DEF vars, Serial, Running, Finished
<1> QED BY <1>1, <1>2 DEF Next, AllFinished

(* An issue that is visible stays so.                                       *)
LEMMA StaysVisible ==
  ASSUME WellFormed, [Next]_vars, NEW k \in Keys, Visible(k)
  PROVE  Visible(k)'
BY StateKept DEF Visible

(* Links are added between visible issues, labels to issues that exist.     *)
LEMMA NothingDanglesStep ==
  ASSUME Assumptions, HiddenApart, LoneInv, [Next]_vars
  PROVE  NothingDangles'
<1> USE DEF LoneInv, jira
<1>1. TypeOK
  BY DEF WellFormed
<1>2. \A e \in links' : e \in links \/ (Visible(e[1]) /\ Visible(e[2]) /\ e \in Pairs)
  <2>1. ASSUME NEW o \in Ops, NEW e \in Pairs, LinkChild(o, e) \/ LinkChildFails(o, e)
        PROVE  links' \subseteq links \cup {e} /\ Visible(e[1]) /\ Visible(e[2])
    BY <2>1 DEF LinkChild, LinkChildFails, GroupInHand
  <2>2. ASSUME NEW o \in Ops, NEW e \in Pairs, TryMarkDuplicate(o, e)
        PROVE  links' \subseteq links \cup {e} /\ Visible(e[1]) /\ Visible(e[2])
    BY <2>2 DEF TryMarkDuplicate, MarksOwn, NothingDangles, Visible
  <2>3. ASSUME NEW o \in Ops, NEW e \in Pairs, Unlink(o, e) \/ UnlinkFails(o, e)
        PROVE  links' \subseteq links
    BY <2>3 DEF Unlink, UnlinkFails
  <2>4. CASE links' = links
    BY <2>4
  <2>5. ASSUME NEW o \in Ops,
               \/ Start(o) \/ Fetch(o) \/ Abort(o) \/ AllMarked(o) \/ CloseSubject(o)
               \/ ConnectNothing(o) \/ AdoptParent(o) \/ CreateParent(o)
               \/ ReadParent(o) \/ ChooseParent(o) \/ CloseDeprecated(o)
               \/ AllDeprecated(o) \/ UpdateParent(o) \/ ConnectDone(o)
               \/ FindLinks(o) \/ DisconnectDone(o)
               \/ \E k \in Keys : RemoveLabel(o, k) \/ CloseChild(o, k)
        PROVE  links' = links
    BY <2>5 DEF Start, Fetch, Abort, AllMarked, CloseSubject, ConnectNothing,
         AdoptParent, CreateParent, ReadParent, ChooseParent, CloseDeprecated,
         AllDeprecated, UpdateParent, ConnectDone, RemoveLabel, CloseChild, FindLinks,
         DisconnectDone
  <2>6. CASE UNCHANGED vars
    BY <2>4, <2>6 DEF vars
  <2> HIDE DEF LoneInv, jira
  <2> QED BY <2>1, <2>2, <2>3, <2>4, <2>5, <2>6
          DEF Next, AllFinished, ConnectNext, DisconnectNext, MarkNext
<1>3. \A k \in labelled' : k \in labelled \/ (k \in Keys /\ state'[k] # "none")
  <2>1. ASSUME NEW o \in Ops, CreateParent(o)
        PROVE  \A k \in labelled' : k \in labelled \/ (k \in Keys /\ state'[k] # "none")
    BY <1>1, <2>1 DEF CreateParent, Keys, TypeOK
  <2>2. ASSUME NEW o \in Ops, NEW k \in Keys, RemoveLabel(o, k)
        PROVE  labelled' \subseteq labelled
    BY <2>2 DEF RemoveLabel
  <2>3. ASSUME NEW o \in Ops,
               \/ Start(o) \/ Fetch(o) \/ Abort(o) \/ AllMarked(o) \/ CloseSubject(o)
               \/ ConnectNothing(o) \/ AdoptParent(o)
               \/ ReadParent(o) \/ ChooseParent(o) \/ CloseDeprecated(o)
               \/ AllDeprecated(o) \/ UpdateParent(o) \/ ConnectDone(o)
               \/ FindLinks(o) \/ DisconnectDone(o)
               \/ (\E k \in Keys : CloseChild(o, k))
               \/ \E e \in Pairs : \/ LinkChild(o, e) \/ LinkChildFails(o, e)
                                   \/ Unlink(o, e) \/ UnlinkFails(o, e)
                                   \/ TryMarkDuplicate(o, e)
        PROVE  labelled' = labelled
    BY <2>3 DEF Start, Fetch, Abort, AllMarked, CloseSubject, ConnectNothing,
         AdoptParent, ReadParent, ChooseParent, CloseDeprecated,
         AllDeprecated, UpdateParent, ConnectDone, CloseChild, FindLinks,
         DisconnectDone, LinkChild, LinkChildFails, Unlink, UnlinkFails, TryMarkDuplicate
  <2>4. CASE UNCHANGED vars
    BY <2>4 DEF vars
  <2> HIDE DEF LoneInv, jira
  <2> QED BY <2>1, <2>2, <2>3, <2>4
          DEF Next, AllFinished, ConnectNext, DisconnectNext, MarkNext
<1>4. \A e \in links' : Visible(e[1])' /\ Visible(e[2])'
  <2>1. \A e \in links' : e \in Pairs /\ Visible(e[1]) /\ Visible(e[2])
    BY <1>1, <1>2 DEF NothingDangles, TypeOK
  <2> QED BY <2>1, StaysVisible DEF Pairs
<1>5. \A k \in labelled' \cup Issues : state'[k] # "none"
  BY <1>1, <1>3, StateKept DEF NothingDangles, TypeOK, Keys
<1> QED BY <1>4, <1>5 DEF NothingDangles

(* One download: what is found is visible and read as it is.               *)
LEMMA FetchTruly ==
  ASSUME LoneInv, NEW o \in Ops, Fetch(o)
  PROVE  ReadTruly(o)'
<1> USE DEF LoneInv, jira
<1> DEFINE found == {k \in frontier[o] \ Hidden : state[k] # "none"}
           loaded == [k \in DOMAIN docs[o] \cup found |->
                        IF k \in found THEN Snapshot(k) ELSE docs[o][k]]
           absent == missing[o] \cup (frontier[o] \ found)
           next == (UNION {loaded[k].nbrs : k \in DOMAIN loaded}) \ (DOMAIN loaded \cup absent)
<1>1. /\ docs' = [docs EXCEPT ![o] = loaded] /\ missing' = [missing EXCEPT ![o] = absent]
      /\ frontier' = [frontier EXCEPT ![o] = next]
      /\ pc[o] = "fetch" /\ UNCHANGED <<links, labelled, state>>
  BY DEF Fetch
<1>2. TypeOK /\ frontier[o] \subseteq Keys
  BY DEF WellFormed, TypeOK
<1>3. docs'[o] = loaded /\ missing'[o] = absent /\ frontier'[o] = next
  BY <1>1, <1>2 DEF TypeOK
<1>4. \A k \in found : Visible(k)
  BY DEF Visible
<1>5. \A k \in absent : ~Visible(k)
  BY <1>1 DEF Visible, ReadTruly
<1>6. DOMAIN loaded = DOMAIN docs[o] \cup found
  OBVIOUS
<1>7. ASSUME NEW k \in DOMAIN loaded
      PROVE  /\ Visible(k)
             /\ loaded[k].nbrs = {j \in Keys : Linked(j, k)}
             /\ loaded[k].outs = {j \in Keys : <<k, j>> \in links}
             /\ loaded[k].label <=> k \in labelled
             /\ loaded[k].nbrs \subseteq DOMAIN loaded \cup absent \cup next
  <2>1. loaded[k].nbrs \subseteq DOMAIN loaded \cup absent \cup next
    <3> HIDE DEF loaded, absent
    <3> QED BY <1>7
  <2>2. CASE k \in found
    BY <1>4, <2>1, <2>2 DEF Snapshot, Linked
  <2>3. CASE k \notin found
    <3>1. k \in DOMAIN docs[o] /\ loaded[k] = docs[o][k]
      BY <2>3
    <3> QED BY <1>1, <2>1, <3>1 DEF ReadTruly
  <2> QED BY <2>2, <2>3
<1>8. Kind[o] = "disconnect" => Subject[o] \in DOMAIN loaded \cup absent
  BY <1>1, <1>6 DEF ReadTruly
<1> HIDE DEF found, loaded, absent, next, LoneInv, jira
<1> QED BY <1>1, <1>3, <1>5, <1>7, <1>8 DEF ReadTruly, Visible, Linked

(* When there is nothing left to download a whole group was read.          *)
LEMMA GroupRead ==
  ASSUME LoneInv, NEW o \in Ops, pc[o] = "fetch", frontier[o] = {}
  PROVE  /\ Closed(DOMAIN docs[o]) /\ \A k \in DOMAIN docs[o] : Visible(k)
         /\ labelled \cap DOMAIN docs[o] = GroupParents(o)
         /\ \A e \in links : e[1] \in DOMAIN docs[o] => e[2] \in docs[o][e[1]].outs
         /\ Kind[o] = "disconnect" =>
              Subject[o] \in DOMAIN docs[o] \/ ~Visible(Subject[o])
<1>1. /\ \A k \in DOMAIN docs[o] :
           /\ Visible(k)
           /\ docs[o][k].nbrs = {j \in Keys : Linked(j, k)}
           /\ docs[o][k].outs = {j \in Keys : <<k, j>> \in links}
           /\ docs[o][k].label <=> k \in labelled
           /\ docs[o][k].nbrs \subseteq DOMAIN docs[o] \cup missing[o]
      /\ \A k \in missing[o] : ~Visible(k)
      /\ Kind[o] = "disconnect" => Subject[o] \in DOMAIN docs[o] \cup missing[o]
  BY DEF LoneInv, ReadTruly
<1>2. \A e \in links : /\ e[1] \in Keys /\ e[2] \in Keys /\ e = <<e[1], e[2]>>
                       /\ Visible(e[1]) /\ Visible(e[2])
  BY DEF LoneInv, WellFormed, TypeOK, Pairs, NothingDangles
<1>3. ASSUME NEW e \in links
      PROVE  /\ e[1] \in DOMAIN docs[o] => e[2] \in DOMAIN docs[o]
             /\ e[2] \in DOMAIN docs[o] => e[1] \in DOMAIN docs[o]
  <2>1. Linked(e[2], e[1]) /\ Linked(e[1], e[2])
    BY <1>2 DEF Linked
  <2>2. e[1] \in DOMAIN docs[o] => e[2] \in docs[o][e[1]].nbrs
    BY <1>1, <1>2, <2>1
  <2>3. e[2] \in DOMAIN docs[o] => e[1] \in docs[o][e[2]].nbrs
    BY <1>1, <1>2, <2>1
  <2> QED BY <1>1, <1>2, <2>2, <2>3
<1>4. Closed(DOMAIN docs[o])
  BY <1>3 DEF Closed
<1>5. labelled \cap DOMAIN docs[o] = GroupParents(o)
  BY <1>1 DEF GroupParents
<1>6. \A e \in links : e[1] \in DOMAIN docs[o] => e[2] \in docs[o][e[1]].outs
  BY <1>1, <1>2
<1> QED BY <1>1, <1>4, <1>5, <1>6

(* A step of a connect request.                                            *)
LEMMA GroupInHandStep ==
  ASSUME Assumptions, HiddenApart, LoneInv, NEW o \in Ops, ConnectNext(o)
  PROVE  GroupInHand(o)'
<1> USE DEF Goto, jira, read, plan, outcome
<1>1. TypeOK /\ KindFits /\ HasParent /\ GroupInHand(o) /\ NothingDangles
  BY DEF LoneInv, WellFormed
<1>2. /\ DOMAIN docs[o] \subseteq Keys /\ o \in DOMAIN pc /\ o \in DOMAIN chosen
      /\ o \in DOMAIN docs /\ o \in DOMAIN todo /\ DOMAIN state = Keys
  BY <1>1 DEF TypeOK
<1>3. CASE ConnectNothing(o)
  BY <1>2, <1>3 DEF ConnectNothing, GroupInHand
<1>4. CASE AdoptParent(o)
  <2>1. PICK p \in GroupParents(o) :
          /\ GroupParents(o) = {p} /\ chosen' = [chosen EXCEPT ![o] = p]
          /\ todo' = [todo EXCEPT ![o] = RemainingLinks(o, p, {}, docs[o])]
    BY <1>4 DEF AdoptParent
  <2>2. /\ Closed(DOMAIN docs[o]) /\ \A k \in DOMAIN docs[o] : Visible(k)
        /\ labelled \cap DOMAIN docs[o] = {p} /\ p \in DOMAIN docs[o]
    BY <1>4, <2>1, GroupRead DEF AdoptParent, Loaded, GroupParents
  <2>3. /\ UNCHANGED <<links, labelled, state, docs>> /\ pc'[o] = "link"
        /\ chosen'[o] = p /\ todo'[o] = RemainingLinks(o, p, {}, docs[o])
    BY <1>2, <1>4, <2>1 DEF AdoptParent
  <2> QED BY <2>2, <2>3 DEF GroupInHand, Closed, Visible, RemainingLinks
<1>5. CASE CreateParent(o)
  <2>1. PICK p \in {k \in Spares : state[k] = "none"} :
          /\ state' = [state EXCEPT ![p] = "open"] /\ labelled' = labelled \cup {p}
          /\ chosen' = [chosen EXCEPT ![o] = p]
    BY <1>5 DEF CreateParent
  <2>2. /\ Closed(DOMAIN docs[o]) /\ \A k \in DOMAIN docs[o] : Visible(k)
        /\ labelled \cap DOMAIN docs[o] = {}
    BY <1>5, GroupRead DEF CreateParent, Loaded
  <2>3. UNCHANGED <<links, docs>> /\ pc'[o] = "read" /\ chosen'[o] = p
    BY <1>2, <1>5, <2>1 DEF CreateParent
  <2>4. p \in Keys /\ p \notin Hidden /\ ~Visible(p)
    BY <2>1 DEF Keys, Visible, HiddenApart
  <2>5. p \notin DOMAIN docs[o] /\ \A e \in links : e[1] # p /\ e[2] # p
    BY <1>1, <2>2, <2>4 DEF NothingDangles
  <2>6. state'[p] = "open" /\ \A k \in Keys : k # p => state'[k] = state[k]
    BY <1>2, <2>1, <2>4
  <2>7. \A k \in DOMAIN docs[o] : Visible(k)'
    BY <1>2, <2>2, <2>5, <2>6 DEF Visible
  <2>8. Visible(p)' /\ labelled' \cap DOMAIN docs[o] = {} /\ p \in labelled'
    BY <2>1, <2>2, <2>4, <2>5, <2>6 DEF Visible
  <2> QED BY <2>2, <2>3, <2>5, <2>7, <2>8 DEF GroupInHand, Closed
<1>6. CASE ReadParent(o)
  <2> DEFINE p == chosen[o]
             ds == [k \in DOMAIN docs[o] \cup {p} |->
                      IF k = p THEN Snapshot(p) ELSE docs[o][k]]
  <2>1. /\ docs'[o] = ds /\ pc'[o] = "link" /\ chosen' = chosen
        /\ todo'[o] = RemainingLinks(o, p, {}, ds)
        /\ UNCHANGED <<links, labelled, state>> /\ pc[o] = "read"
    BY <1>2, <1>6 DEF ReadParent
  <2>2. DOMAIN docs'[o] = DOMAIN docs[o] \cup {p}
    BY <2>1
  <2>3. \A e \in todo'[o] : e[1] \in DOMAIN docs'[o] /\ e[2] \in DOMAIN docs'[o]
    BY <2>1 DEF RemainingLinks
  <2> HIDE DEF ds, p
  <2> QED BY <1>1, <2>1, <2>2, <2>3 DEF GroupInHand, Closed, Visible, p
<1>7. CASE ChooseParent(o)
  <2>1. PICK p \in Candidates(o) :
          /\ chosen' = [chosen EXCEPT ![o] = p]
          /\ todo' = [todo EXCEPT ![o] = {<<k, k>> : k \in GroupParents(o) \ {p}}]
    BY <1>7 DEF ChooseParent
  <2>2. p \in GroupParents(o)
    BY DEF Candidates
  <2>3. /\ Closed(DOMAIN docs[o]) /\ \A k \in DOMAIN docs[o] : Visible(k)
        /\ labelled \cap DOMAIN docs[o] = GroupParents(o) /\ p \in DOMAIN docs[o]
    BY <1>7, <2>2, GroupRead DEF ChooseParent, Loaded, GroupParents
  <2>4. /\ UNCHANGED <<links, labelled, state, docs>> /\ pc'[o] = "deprecate"
        /\ chosen'[o] = p /\ todo'[o] = {<<k, k>> : k \in GroupParents(o) \ {p}}
    BY <1>2, <1>7, <2>1 DEF ChooseParent
  <2>5. \A k : <<k, k>> \in todo'[o] <=> k \in GroupParents(o) \ {p}
    BY <2>4
  <2>6. GroupParents(o) \subseteq DOMAIN docs[o]
    BY DEF GroupParents
  <2> HIDE DEF GroupParents
  <2> QED BY <2>2, <2>3, <2>4, <2>5, <2>6 DEF GroupInHand, Closed, Visible
<1>8. ASSUME NEW d \in Keys, RemoveLabel(o, d) PROVE GroupInHand(o)'
  <2>1. /\ pc[o] = "deprecate" /\ pc'[o] = "closedep" /\ <<d, d>> \in todo[o]
        /\ todo'[o] = todo[o] \ {<<d, d>>} /\ labelled' = labelled \ {d}
        /\ UNCHANGED <<links, state, docs, chosen>>
    BY <1>2, <1>8 DEF RemoveLabel
  <2> QED BY <1>1, <2>1 DEF GroupInHand, Closed, Visible
<1>9. CASE CloseDeprecated(o)
  <2>1. /\ pc[o] = "closedep" /\ pc'[o] = "deprecate"
        /\ UNCHANGED <<links, labelled, docs, chosen, todo>>
    BY <1>2, <1>9 DEF CloseDeprecated
  <2>2. state' = [state EXCEPT ![current[o]] = "closed"]
    BY <1>9 DEF CloseDeprecated
  <2>3. \A k \in DOMAIN docs[o] : Visible(k)'
    BY <1>1, <1>2, <2>1, <2>2 DEF GroupInHand, Visible
  <2> QED BY <1>1, <2>1, <2>3 DEF GroupInHand, Closed
<1>10. CASE AllDeprecated(o)
  <2>1. /\ pc[o] = "deprecate" /\ pc'[o] = "link" /\ todo[o] = {}
        /\ todo'[o] = RemainingLinks(o, chosen[o], deprecated[o], docs[o])
        /\ UNCHANGED <<links, labelled, state, docs, chosen>>
    BY <1>2, <1>10 DEF AllDeprecated
  <2>2. chosen[o] \in DOMAIN docs[o] /\ labelled \cap DOMAIN docs[o] = {chosen[o]}
    BY <1>1, <2>1 DEF GroupInHand
  <2> QED BY <1>1, <2>1, <2>2 DEF GroupInHand, Closed, Visible, RemainingLinks
<1>11. ASSUME NEW e \in Pairs, LinkChild(o, e) \/ LinkChildFails(o, e) PROVE GroupInHand(o)'
  <2>1. /\ pc[o] = "link" /\ pc' = pc /\ e \in todo[o] /\ todo'[o] = todo[o] \ {e}
        /\ links' \in {links, links \cup {e}} /\ UNCHANGED <<labelled, state, docs, chosen>>
    BY <1>2, <1>11 DEF LinkChild, LinkChildFails
  <2>2. e[1] \in DOMAIN docs[o] /\ e[2] \in DOMAIN docs[o]
    BY <1>1, <2>1 DEF GroupInHand
  <2>3. Closed(DOMAIN docs[o])'
    BY <1>1, <2>1, <2>2 DEF GroupInHand, Closed
  <2> QED BY <1>1, <2>1, <2>3 DEF GroupInHand, Visible
<1>12. CASE UpdateParent(o)
  <2>1. /\ pc[o] = "link" /\ pc'[o] = "close"
        /\ UNCHANGED <<links, labelled, state, docs, chosen>>
    BY <1>2, <1>12 DEF UpdateParent
  <2> QED BY <1>1, <2>1 DEF GroupInHand, Closed, Visible
<1>13. ASSUME NEW k \in Keys, CloseChild(o, k) PROVE GroupInHand(o)'
  <2>1. pc[o] = "close" /\ pc' = pc /\ UNCHANGED <<links, labelled, docs, chosen>>
    BY <1>13 DEF CloseChild
  <2>2. state' = [state EXCEPT ![k] = "closed"] \/ state' = state
    BY <1>13 DEF CloseChild
  <2>3. \A j \in DOMAIN docs[o] : Visible(j)'
    BY <1>1, <1>2, <2>1, <2>2 DEF GroupInHand, Visible
  <2> QED BY <1>1, <2>1, <2>3 DEF GroupInHand, Closed
<1>14. CASE ConnectDone(o)
  BY <1>2, <1>14 DEF ConnectDone, GroupInHand
<1> QED BY <1>3, <1>4, <1>5, <1>6, <1>7, <1>8, <1>9, <1>10, <1>11, <1>12, <1>13, <1>14
        DEF ConnectNext

(* A step of a disconnect request.                                         *)
LEMMA LinksInHandStep ==
  ASSUME LoneInv, NEW o \in Ops, DisconnectNext(o)
  PROVE  LinksInHand(o)'
<1> USE DEF Goto, jira, read, plan, outcome
<1>1. TypeOK /\ LinksInHand(o)
  BY DEF LoneInv, WellFormed
<1>2. /\ o \in DOMAIN pc /\ o \in DOMAIN todo /\ o \in DOMAIN failed
      /\ links \subseteq Pairs
  BY <1>1 DEF TypeOK
<1>3. CASE FindLinks(o)
  <2>1. /\ UNCHANGED <<links, state, docs>> /\ todo'[o] = LinksToDelete(o)
        /\ Kind[o] = "disconnect" /\ pc[o] = "fetch" /\ frontier[o] = {}
    BY <1>2, <1>3 DEF FindLinks, Loaded
  <2>2. \A e \in links : e[1] \in DOMAIN docs[o] \/ e[2] \in DOMAIN docs[o] =>
          e \in LinksToDelete(o)
    BY <1>2, <2>1, GroupRead DEF Closed, LinksToDelete
  <2>3. Subject[o] \in DOMAIN docs[o] \/ ~Visible(Subject[o])
    BY <2>1, GroupRead
  <2> QED BY <2>1, <2>2, <2>3 DEF LinksInHand, Visible
<1>4. ASSUME NEW e \in Pairs, Unlink(o, e) \/ UnlinkFails(o, e) PROVE LinksInHand(o)'
  <2>1. /\ pc[o] = "unlink" /\ UNCHANGED <<pc, state, docs>> /\ links' \subseteq links
        /\ todo'[o] = todo[o] \ {e}
    BY <1>2, <1>4 DEF Unlink, UnlinkFails
  <2>2. failed[o] \subseteq failed'[o] /\ (e \in links' => e \in failed'[o])
    BY <1>2, <1>4 DEF Unlink, UnlinkFails
  <2> QED BY <1>1, <2>1, <2>2 DEF LinksInHand, Visible
<1>5. CASE DisconnectDone(o)
  BY <1>2, <1>5 DEF DisconnectDone, LinksInHand
<1> QED BY <1>3, <1>4, <1>5 DEF DisconnectNext

(* A step of a request that marks issues as duplicates.                    *)
LEMMA MarksOwnStep ==
  ASSUME LoneInv, NEW o \in Ops, MarkNext(o)
  PROVE  MarksOwn(o)'
<1>1. TypeOK /\ MarksOwn(o)
  BY DEF LoneInv, WellFormed
<1>2. o \in DOMAIN pc /\ o \in DOMAIN todo
  BY <1>1 DEF TypeOK
<1> QED BY <1>1, <1>2 DEF MarkNext, TryMarkDuplicate, AllMarked, CloseSubject, Goto, MarksOwn

(* Where a step takes its request.                                         *)
LEMMA Whereto ==
  ASSUME TypeOK, NEW o \in Ops
  PROVE  /\ ConnectNext(o) => pc'[o] \in {"error", "link", "read", "deprecate", "closedep",
                                          "close", "done"}
         /\ DisconnectNext(o) => pc'[o] \in {"unlink", "done"}
         /\ MarkNext(o) => pc'[o] \in {"mark", "closeone", "done"}
         /\ Abort(o) => pc'[o] = "error"
         /\ Fetch(o) => pc'[o] = "fetch"
<1> USE DEF Goto, plan, outcome
<1>1. o \in DOMAIN pc
  BY DEF TypeOK
<1>2. ASSUME ConnectNext(o)
      PROVE  pc'[o] \in {"error", "link", "read", "deprecate", "closedep", "close", "done"}
  <2>1. CASE \/ ConnectNothing(o) \/ AdoptParent(o) \/ CreateParent(o) \/ ReadParent(o)
             \/ ChooseParent(o) \/ CloseDeprecated(o) \/ AllDeprecated(o)
             \/ UpdateParent(o) \/ ConnectDone(o)
    BY <1>1, <2>1 DEF ConnectNothing, AdoptParent, CreateParent, ReadParent, ChooseParent,
         CloseDeprecated, AllDeprecated, UpdateParent, ConnectDone
  <2>2. ASSUME NEW k \in Keys, RemoveLabel(o, k) \/ CloseChild(o, k)
        PROVE  pc'[o] \in {"closedep", "close"}
    BY <1>1, <2>2 DEF RemoveLabel, CloseChild
  <2>3. ASSUME NEW e \in Pairs, LinkChild(o, e) \/ LinkChildFails(o, e)
        PROVE  pc'[o] = "link"
    BY <1>1, <2>3 DEF LinkChild, LinkChildFails
  <2> QED BY <1>2, <2>1, <2>2, <2>3 DEF ConnectNext
<1>3. DisconnectNext(o) => pc'[o] \in {"unlink", "done"}
  BY <1>1 DEF DisconnectNext, FindLinks, DisconnectDone, Unlink, UnlinkFails
<1>4. MarkNext(o) => pc'[o] \in {"mark", "closeone", "done"}
  <2>1. \A e \in Pairs : TryMarkDuplicate(o, e) => pc'[o] = "mark"
    BY DEF TryMarkDuplicate
  <2>2. AllMarked(o) \/ CloseSubject(o) => pc'[o] \in {"closeone", "done"}
    BY <1>1 DEF AllMarked, CloseSubject
  <2> QED BY <2>1, <2>2 DEF MarkNext
<1>5. (Abort(o) => pc'[o] = "error") /\ (Fetch(o) => pc'[o] = "fetch")
  BY <1>1 DEF Abort, Fetch
<1> QED BY <1>2, <1>3, <1>4, <1>5

(* The request that moves.                                                 *)
LEMMA MoverStep ==
  ASSUME Assumptions, HiddenApart, LoneInv, NEW o \in Ops,
         \/ Start(o) \/ Fetch(o) \/ Abort(o)
         \/ ConnectNext(o) \/ DisconnectNext(o) \/ MarkNext(o)
  PROVE  /\ Untouched(o)' /\ ReadTruly(o)' /\ GroupInHand(o)'
         /\ LinksInHand(o)' /\ MarksOwn(o)'
<1> USE DEF Untouched, ReadTruly, GroupInHand, LinksInHand, MarksOwn
<1>1. TypeOK
  BY DEF LoneInv, WellFormed
<1>2. CASE Start(o)
  <2>1. /\ DOMAIN docs'[o] = {} /\ missing'[o] = {}
    BY <1>2 DEF Start, LoneInv, read
  <2>2. o \in DOMAIN pc /\ o \in DOMAIN todo /\ o \in DOMAIN frontier
    BY <1>1 DEF TypeOK
  <2>3. CASE Kind[o] \in {"connect", "disconnect"}
    <3>1. pc'[o] = "fetch" /\ (Kind[o] = "disconnect" => frontier'[o] = {Subject[o]})
      BY <1>2, <2>2, <2>3 DEF Start, Goto
    <3> QED BY <2>1, <3>1
  <2>4. CASE Kind[o] \in {"noparent", "submit"}
    <3>1. /\ pc'[o] = "mark"
          /\ todo'[o] \in {{Subject[o]} \X Others[o], Others[o] \X {Subject[o]}}
      BY <1>2, <2>2, <2>4 DEF Start, Goto
    <3>2. {Subject[o]} \cup Others[o] \subseteq Issues \ Hidden
      BY <2>4 DEF Assumptions, HiddenApart
    <3> QED BY <3>1, <3>2
  <2> QED BY <2>3, <2>4 DEF Assumptions
<1>3. CASE Fetch(o)
  BY <1>1, <1>3, FetchTruly, Whereto
<1>4. CASE Abort(o)
  BY <1>1, <1>4, Whereto
<1>5. CASE ConnectNext(o)
  BY <1>1, <1>5, GroupInHandStep, Whereto
<1>6. CASE DisconnectNext(o)
  BY <1>1, <1>6, LinksInHandStep, Whereto
<1>7. CASE MarkNext(o)
  BY <1>1, <1>7, MarksOwnStep, Whereto
<1> QED BY <1>2, <1>3, <1>4, <1>5, <1>6, <1>7

LEMMA LoneStep ==
  ASSUME Assumptions, MaxRunning = 1, HiddenApart, LoneInv, [Next]_vars
  PROVE  LoneInv'
<1> USE DEF Untouched, ReadTruly, GroupInHand, LinksInHand, MarksOwn
<1>1. WellFormed' /\ Serial' /\ NothingDangles'
  BY WellFormedStep, SerialStep, NothingDanglesStep DEF LoneInv
<1>2. ASSUME NEW o \in Ops,
             \/ Start(o) \/ Fetch(o) \/ Abort(o)
             \/ ConnectNext(o) \/ DisconnectNext(o) \/ MarkNext(o),
             NEW q \in Ops
      PROVE  /\ Untouched(q)' /\ ReadTruly(q)' /\ GroupInHand(q)'
             /\ LinksInHand(q)' /\ MarksOwn(q)'
  <2>1. CASE q = o
    <3> HIDE DEF Untouched, ReadTruly, GroupInHand, LinksInHand, MarksOwn
    <3> QED BY <1>2, <2>1, MoverStep
  <2>2. CASE q # o
    <3>1. /\ pc[q] \in {"idle", "done", "error"} /\ pc'[q] = pc[q]
          /\ docs'[q] = docs[q] /\ missing'[q] = missing[q]
      BY <1>2, <2>2, OthersRest DEF LoneInv
    <3> QED BY <3>1 DEF LoneInv
  <2> QED BY <2>1, <2>2
<1>3. ASSUME UNCHANGED vars, NEW q \in Ops
      PROVE  /\ Untouched(q)' /\ ReadTruly(q)' /\ GroupInHand(q)'
             /\ LinksInHand(q)' /\ MarksOwn(q)'
  BY <1>3 DEF LoneInv, vars, jira, read, plan, outcome, Visible, Linked, Closed
<1>4. \A q \in Ops : /\ Untouched(q)' /\ ReadTruly(q)' /\ GroupInHand(q)'
                     /\ LinksInHand(q)' /\ MarksOwn(q)'
  <2> HIDE DEF Untouched, ReadTruly, GroupInHand, LinksInHand, MarksOwn
  <2> QED BY <1>2, <1>3 DEF Next, AllFinished
<1> HIDE DEF Untouched, ReadTruly, GroupInHand, LinksInHand, MarksOwn
<1> QED BY <1>1, <1>4 DEF LoneInv

(* How a request that reads issues comes to its end.                       *)
LEMMA LastStep ==
  ASSUME MaxRunning = 1, LoneInv, [Next]_vars, NEW o \in Ops, Completes(o)
  PROVE  /\ Kind[o] = "connect" => ConnectDone(o)
         /\ Kind[o] = "disconnect" => DisconnectDone(o)
<1>1. ~Finished(o) /\ pc'[o] = "done"
  BY DEF Completes, Succeeded
<1>2. PICK q \in Ops : \/ Start(q) \/ Fetch(q) \/ Abort(q)
                       \/ ConnectNext(q) \/ DisconnectNext(q) \/ MarkNext(q)
  BY <1>1 DEF Next, AllFinished, vars, Finished
<1>3. q = o
  BY <1>1, <1>2, OthersRest DEF LoneInv, Finished
<1>4. TypeOK /\ KindFits
  BY DEF LoneInv, WellFormed
<1>5. o \in DOMAIN pc
  BY <1>4 DEF TypeOK
<1>6. ~Start(o) /\ ~Fetch(o) /\ ~Abort(o)
  BY <1>1, <1>4, <1>5, Whereto DEF Start, Goto
<1>7. ConnectNext(o) => ConnectDone(o)
  <2>1. \/ ConnectNothing(o) \/ AdoptParent(o) \/ CreateParent(o) \/ ReadParent(o)
        \/ ChooseParent(o) \/ CloseDeprecated(o) \/ AllDeprecated(o) \/ UpdateParent(o)
        => pc'[o] # "done"
    BY <1>5 DEF ConnectNothing, AdoptParent, CreateParent, ReadParent, ChooseParent,
         CloseDeprecated, AllDeprecated, UpdateParent, Goto
  <2>2. \A k \in Keys : RemoveLabel(o, k) \/ CloseChild(o, k) => pc'[o] # "done"
    BY <1>5 DEF RemoveLabel, CloseChild, Goto
  <2>3. \A e \in Pairs : LinkChild(o, e) \/ LinkChildFails(o, e) => pc'[o] # "done"
    BY DEF LinkChild, LinkChildFails
  <2> QED BY <1>1, <2>1, <2>2, <2>3 DEF ConnectNext
<1>8. ConnectNext(o) => Kind[o] = "connect"
  BY <1>4 DEF ConnectNext, ConnectNothing, AdoptParent, CreateParent, ReadParent,
     ChooseParent, CloseDeprecated, AllDeprecated, UpdateParent, ConnectDone, RemoveLabel,
     CloseChild, LinkChild, LinkChildFails, Loaded, KindFits
<1>9. DisconnectNext(o) => Kind[o] = "disconnect" /\ DisconnectDone(o)
  BY <1>1, <1>4, <1>5 DEF DisconnectNext, FindLinks, Unlink, UnlinkFails, DisconnectDone,
     Loaded, Goto, KindFits
<1>10. MarkNext(o) => Kind[o] \in {"noparent", "submit"}
  BY <1>4 DEF MarkNext, TryMarkDuplicate, AllMarked, CloseSubject, KindFits
<1> QED BY <1>2, <1>3, <1>6, <1>7, <1>8, <1>9, <1>10

LEMMA ConnectLeaves ==
  ASSUME Assumptions, MaxRunning = 1, LoneInv, [Next]_vars
  PROVE  LeavesOneParent
<1> SUFFICES ASSUME NEW o \in Ops, Kind[o] = "connect", Completes(o)
             PROVE  labelled' \cap Group(chosen[o])' = {chosen'[o]}
  BY DEF LeavesOneParent
<1>1. ConnectDone(o)
  BY LastStep
<1>2. pc[o] = "close" /\ UNCHANGED <<links, labelled, chosen>>
  BY <1>1 DEF ConnectDone, jira, plan
<1>3. /\ Closed(DOMAIN docs[o]) /\ chosen[o] \in DOMAIN docs[o]
      /\ labelled \cap DOMAIN docs[o] = {chosen[o]}
  BY <1>2 DEF LoneInv, GroupInHand
<1>4. DOMAIN docs[o] \subseteq Keys
  BY DEF LoneInv, WellFormed, TypeOK
<1>5. Group(chosen[o]) \subseteq DOMAIN docs[o]
  BY <1>3, <1>4 DEF Group, Closed
<1>6. chosen[o] \in Group(chosen[o])
  BY <1>3, <1>4 DEF Group
<1>7. Group(chosen[o])' = Group(chosen[o])
  BY <1>2 DEF Group
<1> QED BY <1>2, <1>3, <1>5, <1>6, <1>7

(* A connect request that runs alone and answers SUCCESS leaves exactly    *)
(* one parent in the group it worked on, for any graph whose links are of  *)
(* issues Jira returns, however many parents it found and whichever calls  *)
(* failed in earlier requests (connect_duplicates_remote).                 *)
THEOREM LeavesOneParentCorrect ==
  ASSUME Assumptions, MaxRunning = 1, HiddenApart
  PROVE  Spec => [][LeavesOneParent]_vars
<1>1. Init => LoneInv
  BY LoneInit
<1>2. LoneInv /\ [Next]_vars => LoneInv'
  BY LoneStep
<1>3. LoneInv /\ [Next]_vars => LeavesOneParent
  BY ConnectLeaves
<1> QED BY <1>1, <1>2, <1>3, PTL DEF Spec

LEMMA DisconnectLeaves ==
  ASSUME Assumptions, MaxRunning = 1, LoneInv, [Next]_vars
  PROVE  LeavesSingles
<1> SUFFICES ASSUME NEW o \in Ops, Kind[o] = "disconnect",
                    Completes(o), NEW k \in DOMAIN docs[o] \cup {Subject[o]}
             PROVE  Group(k)' = {k}
  BY DEF LeavesSingles
<1>1. DisconnectDone(o)
  BY LastStep
<1>2. pc[o] = "unlink" /\ todo[o] = {} /\ UNCHANGED <<links, failed>>
  BY <1>1 DEF DisconnectDone, jira, outcome
<1>3. failed[o] = {}
  BY <1>2 DEF Completes, Succeeded, Status
<1>4. \A e \in links : e[1] \notin DOMAIN docs[o] /\ e[2] \notin DOMAIN docs[o]
  BY <1>2, <1>3 DEF LoneInv, LinksInHand
<1>5. \A e \in links : e[1] # k /\ e[2] # k
  BY <1>2, <1>4 DEF LoneInv, LinksInHand, NothingDangles
<1>6. k \in Keys
  BY DEF LoneInv, WellFormed, TypeOK, Assumptions, Keys
<1>7. \A e \in links' : e[1] \in {k} <=> e[2] \in {k}
  BY <1>2, <1>5
<1>8. k \in Group(k)'
  BY <1>6 DEF Group
<1>9. ASSUME NEW j \in Group(k)' PROVE j = k
  BY <1>6, <1>7, <1>9 DEF Group
<1> QED BY <1>8, <1>9

(* A disconnect request that runs alone and answers SUCCESS turns the      *)
(* component of its issue into single issues, for any graph whose links    *)
(* are of issues Jira returns (fully_disconnect_duplicates).               *)
THEOREM LeavesSinglesCorrect ==
  ASSUME Assumptions, MaxRunning = 1, HiddenApart
  PROVE  Spec => [][LeavesSingles]_vars
<1>1. Init => LoneInv
  BY LoneInit
<1>2. LoneInv /\ [Next]_vars => LoneInv'
  BY LoneStep
<1>3. LoneInv /\ [Next]_vars => LeavesSingles
  BY DisconnectLeaves
<1> QED BY <1>1, <1>2, <1>3, PTL DEF Spec
=============================================================================
