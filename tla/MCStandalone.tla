---------------------------- MODULE MCStandalone ----------------------------
(***************************************************************************)
(* Instances of Standalone for TLC.                                        *)
(***************************************************************************)
EXTENDS StandaloneProperties, TLC

CONSTANTS p1, p2, p3, q, j, rival, x, y

\* rival claims the execution of j with other inputs.
MCExecution == j :> "e" @@ rival :> "e"
MCRecording == j :> x @@ rival :> y
Only(S, f) == [a \in S |-> f[a]]
ExecutionOf == Only(Jobs, MCExecution)
RecordingOf == Only(Jobs, MCRecording)
JobIdOf == [a \in Jobs |-> a]
ModeOf == [p \in Processes |-> IF p = q THEN "queue" ELSE "standalone"]
JobOf == Only(Processes, p1 :> j @@ p2 :> j @@ p3 :> rival @@ q :> j)
Interchangeable == Permutations({p1, p2})
=============================================================================
