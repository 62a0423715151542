--------------------------- MODULE MCDuplicatesProofs ---------------------------
(***************************************************************************)
(* The theorems of DuplicateGraphProofs brought to the two instances that  *)
(* TLC checks, whose constants satisfy their assumptions                   *)
(* (InstanceAssumptions, which TLC evaluates).                             *)
(***************************************************************************)
EXTENDS MCDuplicates, TLAPS

OverlapTheorems == INSTANCE DuplicateGraphProofs WITH
  Issues <- {2, 3, 4}, Spares <- {1, 5}, Hidden <- {},
  InitState <- CoState, InitLinks <- {}, InitParents <- {4},
  Ops <- {"c1", "c2", "c3"}, Kind <- CoKind, Subject <- CoSubject, Others <- CoOthers,
  MaxRunning <- 2, MaxFailures <- 1

AloneTheorems == INSTANCE DuplicateGraphProofs WITH
  Issues <- {1, 2, 3, 6}, Spares <- {4, 5}, Hidden <- {6},
  InitState <- SeState, InitLinks <- SeLinks, InitParents <- {1},
  Ops <- {"c1", "c2", "n", "d", "h", "s"},
  Kind <- SeKind, Subject <- SeSubject, Others <- SeOthers,
  MaxRunning <- 1, MaxFailures <- 1

LEMMA Constants ==
  /\ OverlapTheorems!Assumptions /\ OverlapTheorems!NoDisconnect
  /\ AloneTheorems!Assumptions /\ AloneTheorems!HiddenApart
<1>1. OverlapTheorems!Assumptions
  BY InstanceAssumptions DEF Overlap!Assumptions, OverlapTheorems!Assumptions,
     Overlap!Keys, OverlapTheorems!Keys, Overlap!IsFiniteSet, OverlapTheorems!IsFiniteSet
<1>2. AloneTheorems!Assumptions
  BY InstanceAssumptions DEF Alone!Assumptions, AloneTheorems!Assumptions,
     Alone!Keys, AloneTheorems!Keys, Alone!IsFiniteSet, AloneTheorems!IsFiniteSet
<1>3. OverlapTheorems!NoDisconnect
  BY DEF OverlapTheorems!NoDisconnect, CoKind
<1>4. AloneTheorems!HiddenApart
  BY InstanceAssumptions DEF Alone!HiddenApart, AloneTheorems!HiddenApart
<1> QED BY <1>1, <1>2, <1>3, <1>4

LEMMA SameOverlap ==
  (Overlap!Init => OverlapTheorems!Init) /\ (Overlap!Next => OverlapTheorems!Next)
BY Zenon DEF Overlap!Init, OverlapTheorems!Init, Overlap!Next, OverlapTheorems!Next,
     Overlap!Start, OverlapTheorems!Start, Overlap!Fetch, OverlapTheorems!Fetch,
     Overlap!Abort, OverlapTheorems!Abort, Overlap!ConnectNext,
     OverlapTheorems!ConnectNext, Overlap!DisconnectNext,
     OverlapTheorems!DisconnectNext, Overlap!MarkNext, OverlapTheorems!MarkNext,
     Overlap!AllFinished, OverlapTheorems!AllFinished, Overlap!ConnectNothing,
     OverlapTheorems!ConnectNothing, Overlap!AdoptParent,
     OverlapTheorems!AdoptParent, Overlap!CreateParent,
     OverlapTheorems!CreateParent, Overlap!ReadParent, OverlapTheorems!ReadParent,
     Overlap!ChooseParent, OverlapTheorems!ChooseParent, Overlap!CloseDeprecated,
     OverlapTheorems!CloseDeprecated, Overlap!AllDeprecated,
     OverlapTheorems!AllDeprecated, Overlap!UpdateParent,
     OverlapTheorems!UpdateParent, Overlap!ConnectDone,
     OverlapTheorems!ConnectDone, Overlap!RemoveLabel, OverlapTheorems!RemoveLabel,
     Overlap!CloseChild, OverlapTheorems!CloseChild, Overlap!LinkChild,
     OverlapTheorems!LinkChild, Overlap!LinkChildFails,
     OverlapTheorems!LinkChildFails, Overlap!FindLinks, OverlapTheorems!FindLinks,
     Overlap!DisconnectDone, OverlapTheorems!DisconnectDone, Overlap!Unlink,
     OverlapTheorems!Unlink, Overlap!UnlinkFails, OverlapTheorems!UnlinkFails,
     Overlap!TryMarkDuplicate, OverlapTheorems!TryMarkDuplicate, Overlap!AllMarked,
     OverlapTheorems!AllMarked, Overlap!CloseSubject, OverlapTheorems!CloseSubject,
     Overlap!Keys, OverlapTheorems!Keys, Overlap!Pairs, OverlapTheorems!Pairs,
     Overlap!Finished, OverlapTheorems!Finished, Overlap!Running,
     OverlapTheorems!Running, Overlap!Goto, OverlapTheorems!Goto, Overlap!Fail,
     OverlapTheorems!Fail, Overlap!Snapshot, OverlapTheorems!Snapshot,
     Overlap!Loaded, OverlapTheorems!Loaded, Overlap!GroupParents,
     OverlapTheorems!GroupParents, Overlap!ExistingLinks,
     OverlapTheorems!ExistingLinks, Overlap!RemainingLinks,
     OverlapTheorems!RemainingLinks, Overlap!Candidates,
     OverlapTheorems!Candidates, Overlap!ToClose, OverlapTheorems!ToClose,
     Overlap!LinksToDelete, OverlapTheorems!LinksToDelete, Overlap!jira,
     OverlapTheorems!jira, Overlap!read, OverlapTheorems!read, Overlap!plan,
     OverlapTheorems!plan, Overlap!outcome, OverlapTheorems!outcome, Overlap!vars,
     OverlapTheorems!vars, Overlap!Cardinality, OverlapTheorems!Cardinality

LEMMA SameAlone ==
  (Alone!Init => AloneTheorems!Init) /\ (Alone!Next => AloneTheorems!Next)
BY Zenon DEF Alone!Init, AloneTheorems!Init, Alone!Next, AloneTheorems!Next,
     Alone!Start, AloneTheorems!Start, Alone!Fetch, AloneTheorems!Fetch,
     Alone!Abort, AloneTheorems!Abort, Alone!ConnectNext,
     AloneTheorems!ConnectNext, Alone!DisconnectNext,
     AloneTheorems!DisconnectNext, Alone!MarkNext, AloneTheorems!MarkNext,
     Alone!AllFinished, AloneTheorems!AllFinished, Alone!ConnectNothing,
     AloneTheorems!ConnectNothing, Alone!AdoptParent,
     AloneTheorems!AdoptParent, Alone!CreateParent,
     AloneTheorems!CreateParent, Alone!ReadParent, AloneTheorems!ReadParent,
     Alone!ChooseParent, AloneTheorems!ChooseParent, Alone!CloseDeprecated,
     AloneTheorems!CloseDeprecated, Alone!AllDeprecated,
     AloneTheorems!AllDeprecated, Alone!UpdateParent,
     AloneTheorems!UpdateParent, Alone!ConnectDone,
     AloneTheorems!ConnectDone, Alone!RemoveLabel, AloneTheorems!RemoveLabel,
     Alone!CloseChild, AloneTheorems!CloseChild, Alone!LinkChild,
     AloneTheorems!LinkChild, Alone!LinkChildFails,
     AloneTheorems!LinkChildFails, Alone!FindLinks, AloneTheorems!FindLinks,
     Alone!DisconnectDone, AloneTheorems!DisconnectDone, Alone!Unlink,
     AloneTheorems!Unlink, Alone!UnlinkFails, AloneTheorems!UnlinkFails,
     Alone!TryMarkDuplicate, AloneTheorems!TryMarkDuplicate, Alone!AllMarked,
     AloneTheorems!AllMarked, Alone!CloseSubject, AloneTheorems!CloseSubject,
     Alone!Keys, AloneTheorems!Keys, Alone!Pairs, AloneTheorems!Pairs,
     Alone!Finished, AloneTheorems!Finished, Alone!Running,
     AloneTheorems!Running, Alone!Goto, AloneTheorems!Goto, Alone!Fail,
     AloneTheorems!Fail, Alone!Snapshot, AloneTheorems!Snapshot,
     Alone!Loaded, AloneTheorems!Loaded, Alone!GroupParents,
     AloneTheorems!GroupParents, Alone!ExistingLinks,
     AloneTheorems!ExistingLinks, Alone!RemainingLinks,
     AloneTheorems!RemainingLinks, Alone!Candidates,
     AloneTheorems!Candidates, Alone!ToClose, AloneTheorems!ToClose,
     Alone!LinksToDelete, AloneTheorems!LinksToDelete, Alone!jira,
     AloneTheorems!jira, Alone!read, AloneTheorems!read, Alone!plan,
     AloneTheorems!plan, Alone!outcome, AloneTheorems!outcome, Alone!vars,
     AloneTheorems!vars, Alone!Cardinality, AloneTheorems!Cardinality

Inv ==
  /\ instance = "overlap" => OverlapTheorems!ConnectInv
  /\ instance = "alone" => AloneTheorems!LoneInv

LEMMA InvInit == Init => Inv
<1>1. ASSUME instance = "overlap", Overlap!Init PROVE Inv
  <2>1. OverlapTheorems!ConnectInv
    BY <1>1, Constants, SameOverlap, OverlapTheorems!ConnectInit
  <2> QED BY <1>1, <2>1 DEF Inv
<1>2. ASSUME instance = "alone", Alone!Init PROVE Inv
  <2>1. AloneTheorems!LoneInv
    BY <1>2, Constants, SameAlone, AloneTheorems!LoneInit
  <2> QED BY <1>2, <2>1 DEF Inv
<1> QED BY <1>1, <1>2 DEF Init

LEMMA InvStep == Inv /\ [Next]_vars => Inv'
<1> SUFFICES ASSUME Inv, [Next]_vars PROVE Inv'
  OBVIOUS
<1>1. /\ instance' = instance
      /\ instance = "overlap" => Overlap!Next \/ UNCHANGED vars
      /\ instance = "alone" => Alone!Next \/ UNCHANGED vars
  BY DEF Next, NextOverlap, NextAlone, vars
<1>2. CASE instance = "overlap"
  <2>1. OverlapTheorems!Next \/ UNCHANGED OverlapTheorems!vars
    BY <1>1, <1>2, SameOverlap DEF vars, OverlapTheorems!vars, OverlapTheorems!jira,
       OverlapTheorems!read, OverlapTheorems!plan, OverlapTheorems!outcome
  <2>2. OverlapTheorems!ConnectInv
    BY <1>2 DEF Inv
  <2>3. OverlapTheorems!ConnectInv'
    BY <2>1, <2>2, Constants, OverlapTheorems!ConnectStep
  <2> QED BY <1>1, <1>2, <2>3 DEF Inv
<1>3. CASE instance = "alone"
  <2>1. AloneTheorems!Next \/ UNCHANGED AloneTheorems!vars
    BY <1>1, <1>3, SameAlone DEF vars, AloneTheorems!vars, AloneTheorems!jira,
       AloneTheorems!read, AloneTheorems!plan, AloneTheorems!outcome
  <2>2. AloneTheorems!LoneInv
    BY <1>3 DEF Inv
  <2>3. AloneTheorems!LoneInv'
    BY <2>1, <2>2, Constants, AloneTheorems!LoneStep
  <2> QED BY <1>1, <1>3, <2>3 DEF Inv
<1>4. CASE instance \notin {"overlap", "alone"}
  BY <1>1, <1>4 DEF Inv
<1> QED BY <1>2, <1>3, <1>4

(* Every variable has its type in both instances.                          *)
THEOREM TypeCorrect == Spec => []TypeOK
<1>1. Inv => TypeOK
  BY DEF Inv, TypeOK, OverlapTheorems!ConnectInv, OverlapTheorems!WellFormed,
     AloneTheorems!LoneInv, AloneTheorems!WellFormed, Overlap!TypeOK, OverlapTheorems!TypeOK, Alone!TypeOK,
     AloneTheorems!TypeOK, Overlap!Pairs, OverlapTheorems!Pairs, Alone!Pairs,
     AloneTheorems!Pairs, Overlap!Keys, OverlapTheorems!Keys, Alone!Keys,
     AloneTheorems!Keys, Overlap!Snapshots, OverlapTheorems!Snapshots,
     Alone!Snapshots, AloneTheorems!Snapshots
<1> QED BY <1>1, InvInit, InvStep, PTL DEF Spec

(* A connect request that answers SUCCESS leaves every issue of its group   *)
(* linked to the parent it names (connect_duplicates_remote), in the        *)
(* instance with overlapping requests.                                      *)
THEOREM SuccessIsStarCorrect == Spec => []SuccessIsStar
<1>1. Inv => SuccessIsStar
  <2>1. OverlapTheorems!ConnectInv => OverlapTheorems!SuccessIsStar
    BY OverlapTheorems!StarAtTheEnd
  <2> QED BY <2>1 DEF Inv, SuccessIsStar, Overlap!SuccessIsStar,
       OverlapTheorems!SuccessIsStar, Overlap!Succeeded, OverlapTheorems!Succeeded,
       Overlap!Status, OverlapTheorems!Status, Overlap!Linked, OverlapTheorems!Linked
<1> QED BY <1>1, InvInit, InvStep, PTL DEF Spec

(* What a parent's description counts was linked to it, whatever request    *)
(* wrote the description last (connect_duplicates_remote), in the instance  *)
(* with overlapping requests.                                               *)
THEOREM CountedIsLinkedCorrect == Spec => []CountedIsLinked
<1>1. Inv => CountedIsLinked
  BY DEF Inv, CountedIsLinked, OverlapTheorems!ConnectInv, Overlap!CountedIsLinked,
     OverlapTheorems!CountedIsLinked, Overlap!Keys, OverlapTheorems!Keys,
     Overlap!Linked, OverlapTheorems!Linked
<1> QED BY <1>1, InvInit, InvStep, PTL DEF Spec

LEMMA AloneNext ==
  ASSUME Inv, [Next]_vars, instance = "alone"
  PROVE  AloneTheorems!LoneInv /\ (AloneTheorems!Next \/ UNCHANGED AloneTheorems!vars)
<1>1. Alone!Next \/ UNCHANGED vars
  BY DEF Next, NextOverlap, NextAlone, vars
<1> QED BY <1>1, SameAlone DEF Inv, vars, AloneTheorems!vars, AloneTheorems!jira,
       AloneTheorems!read, AloneTheorems!plan, AloneTheorems!outcome

(* A connect request that runs alone and answers SUCCESS leaves one parent  *)
(* in its group, whatever failed before (connect_duplicates_remote), in the *)
(* instance of requests one after another.                                  *)
THEOREM OneParentWhenAloneCorrect == Spec => OneParentWhenAlone
<1>1. Inv /\ [Next]_vars => (instance = "alone" => Alone!LeavesOneParent)
  <2> SUFFICES ASSUME Inv, [Next]_vars, instance = "alone" PROVE Alone!LeavesOneParent
    OBVIOUS
  <2>1. AloneTheorems!LeavesOneParent
    BY AloneNext, Constants, AloneTheorems!ConnectLeaves
  <2> QED BY <2>1 DEF Alone!LeavesOneParent, AloneTheorems!LeavesOneParent, Alone!Completes,
       AloneTheorems!Completes, Alone!Finished, AloneTheorems!Finished, Alone!Succeeded,
       AloneTheorems!Succeeded, Alone!Status, AloneTheorems!Status, Alone!Group,
       AloneTheorems!Group, Alone!Keys, AloneTheorems!Keys
<1> QED BY <1>1, InvInit, InvStep, PTL DEF Spec, OneParentWhenAlone

(* A disconnect request that runs alone and answers SUCCESS leaves single   *)
(* issues (fully_disconnect_duplicates), in the instance of requests one    *)
(* after another.                                                           *)
THEOREM DisconnectedWhenAloneCorrect == Spec => DisconnectedWhenAlone
<1>1. Inv /\ [Next]_vars => (instance = "alone" => Alone!LeavesSingles)
  <2> SUFFICES ASSUME Inv, [Next]_vars, instance = "alone" PROVE Alone!LeavesSingles
    OBVIOUS
  <2>1. AloneTheorems!LeavesSingles
    BY AloneNext, Constants, AloneTheorems!DisconnectLeaves
  <2> QED BY <2>1 DEF Alone!LeavesSingles, AloneTheorems!LeavesSingles, Alone!Completes,
       AloneTheorems!Completes, Alone!Finished, AloneTheorems!Finished, Alone!Succeeded,
       AloneTheorems!Succeeded, Alone!Status, AloneTheorems!Status, Alone!Group,
       AloneTheorems!Group, Alone!Keys, AloneTheorems!Keys
<1> QED BY <1>1, InvInit, InvStep, PTL DEF Spec, DisconnectedWhenAlone
=============================================================================
