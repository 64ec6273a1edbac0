--------------------------- MODULE MCPublication ---------------------------
(***************************************************************************)
(* Instances of Publication for TLC: calls for a recording and for the     *)
(* result that refers to it and to a job file that its producer put there. *)
(***************************************************************************)
EXTENDS PublicationProperties, TLC

CONSTANTS given, b1, b2, other, r1, job, bag, result

\* b1 and b2 hold the same recording, other holds a different one.
NameOf == given :> job @@ b1 :> bag @@ b2 :> bag @@ other :> bag @@ r1 :> result
ContentOf == given :> "J" @@ b1 :> "A" @@ b2 :> "A" @@ other :> "B" @@ r1 :> "R"
NeedsOf == [c \in Calls |->
    IF c = r1 THEN {[name |-> job, content |-> "J"], [name |-> bag, content |-> "A"]}
              ELSE {}]
FolderIs == job :> "jobs" @@ bag :> "bags" @@ result :> "results"
Interchangeable == Permutations({b1, b2})
=============================================================================
