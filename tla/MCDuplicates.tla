----------------------------- MODULE MCDuplicates -----------------------------
(***************************************************************************)
(* Two instances of DuplicateGraph: requests that overlap, and requests one *)
(* after the other.  A behaviour is a behaviour of either, chosen at the    *)
(* start.                                                                  *)
(***************************************************************************)
EXTENDS Naturals, TLC

CONSTANT NoKey

VARIABLES instance, state, links, labelled, data, pc, frontier, docs, missing,
          chosen, deprecated, current, todo, ok, failed, failures

vars == <<instance, state, links, labelled, data, pc, frontier, docs, missing,
          chosen, deprecated, current, todo, ok, failed, failures>>

(* Three connect requests, two at a time; 4 is a parent, 1 and 5 are the    *)
(* keys of the parents Jira creates, on either side of the order.          *)
CoKind    == [o \in {"c1", "c2", "c3"} |-> "connect"]
CoSubject == "c1" :> 2 @@ "c2" :> 3 @@ "c3" :> 2
CoOthers  == "c1" :> {3} @@ "c2" :> {4} @@ "c3" :> {4}
CoState   == [k \in {2, 3, 4} |-> "open"]

(* Six requests one after another, in every order: 1 is a parent, 3 has    *)
(* the resolution Duplicate, and Jira does not return 6.                   *)
SeKind    == "c1" :> "connect" @@ "c2" :> "connect" @@ "n" :> "noparent"
             @@ "d" :> "disconnect" @@ "h" :> "connect" @@ "s" :> "submit"
SeSubject == "c1" :> 2 @@ "c2" :> 1 @@ "n" :> 3 @@ "d" :> 2 @@ "h" :> 6 @@ "s" :> 1
SeOthers  == "c1" :> {3} @@ "c2" :> {2} @@ "n" :> {2} @@ "d" :> {} @@ "h" :> {} @@ "s" :> {3}
SeState   == 1 :> "open" @@ 2 :> "open" @@ 3 :> "closed" @@ 6 :> "open"
SeLinks   == {<<3, 2>>}

Overlap == INSTANCE DuplicateGraph WITH
  Issues <- {2, 3, 4}, Spares <- {1, 5}, Hidden <- {},
  InitState <- CoState, InitLinks <- {}, InitParents <- {4},
  Ops <- {"c1", "c2", "c3"}, Kind <- CoKind, Subject <- CoSubject, Others <- CoOthers,
  MaxRunning <- 2, MaxFailures <- 1

Alone == INSTANCE DuplicateGraph WITH
  Issues <- {1, 2, 3, 6}, Spares <- {4, 5}, Hidden <- {6},
  InitState <- SeState, InitLinks <- SeLinks, InitParents <- {1},
  Ops <- {"c1", "c2", "n", "d", "h", "s"},
  Kind <- SeKind, Subject <- SeSubject, Others <- SeOthers,
  MaxRunning <- 1, MaxFailures <- 1

ASSUME InstanceAssumptions ==
  Overlap!Assumptions /\ Alone!Assumptions /\ Alone!HiddenApart

Init == \/ instance = "overlap" /\ Overlap!Init
        \/ instance = "alone" /\ Alone!Init

NextOverlap == instance = "overlap" /\ Overlap!Next /\ UNCHANGED instance
NextAlone == instance = "alone" /\ Alone!Next /\ UNCHANGED instance

Next == NextOverlap \/ NextAlone

Spec == Init /\ [][Next]_vars

(* Of both instances.                                                      *)
TypeOK == /\ instance = "overlap" => Overlap!TypeOK
          /\ instance = "alone" => Alone!TypeOK

(* A connect request that answers SUCCESS leaves every issue of its group   *)
(* linked to the parent it names (connect_duplicates_remote).  Nobody       *)
(* disconnects in the instance with overlapping requests.                  *)
SuccessIsStar == instance = "overlap" => Overlap!SuccessIsStar

(* What a parent's description counts was linked to it, whatever request    *)
(* wrote the description last (connect_duplicates_remote).                 *)
CountedIsLinked == instance = "overlap" => Overlap!CountedIsLinked

(* A connect request that runs alone and answers SUCCESS leaves one parent  *)
(* in its group, whatever failed before (connect_duplicates_remote).       *)
OneParentWhenAlone == [][instance = "alone" => Alone!LeavesOneParent]_vars

(* A disconnect request that runs alone and answers SUCCESS leaves single   *)
(* issues (fully_disconnect_duplicates).                                   *)
DisconnectedWhenAlone == [][instance = "alone" => Alone!LeavesSingles]_vars
=============================================================================
