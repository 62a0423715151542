-------------------------- MODULE MCDuplicateGraph --------------------------
(* Small instances of DuplicateGraph. *)
EXTENDS DuplicateGraph, TLC

(* Two connect requests that share issue 3.                                *)
TwoKind    == [o \in {"c1", "c2"} |-> "connect"]
TwoSubject == "c1" :> 2 @@ "c2" :> 3
TwoOthers  == "c1" :> {3} @@ "c2" :> {4}
TwoState   == [k \in {2, 3, 4} |-> "open"]

(* One connect request about two parents, of which 2 is resolved.          *)
OneKind    == [o \in {"c1"} |-> "connect"]
OneSubject == "c1" :> 2
OneOthers  == "c1" :> {3, 4}
OneState   == 2 :> "closed" @@ 3 :> "open" @@ 4 :> "open"
=============================================================================
