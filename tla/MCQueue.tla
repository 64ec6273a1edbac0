------------------------------ MODULE MCQueue ------------------------------
(***************************************************************************)
(* Instances of Queue for TLC. A document is a model value; its parsed     *)
(* bytes and its path are given by the functions below.                    *)
(***************************************************************************)
EXTENDS QueueProperties, TLC

CONSTANTS run, rival, clash, again, s1, s2, a1, a2, p1, p2

Run(id, execution, priority) ==
    [job_id |-> id, kind |-> "run", execution |-> execution,
     bag |-> execution, template |-> 1, priority |-> priority]
Analysis(id, execution, template, priority) ==
    [job_id |-> id, kind |-> "analysis", execution |-> execution,
     bag |-> execution, template |-> template, priority |-> priority]

\* rival claims the execution of run. again and clash ask for one analysis of
\* run's recording, again in the lowest class, clash at run's own path.
MCJob == run :> Run(1, 1, 0) @@ rival :> Run(2, 1, 0)
         @@ again :> Analysis(3, 1, 2, 3) @@ clash :> Analysis(4, 1, 2, 0)
MCPath == run :> 1 @@ rival :> 2 @@ again :> 3 @@ clash :> 1

\* Workers of a pool, and publishers, run the same code.
Interchangeable == Permutations(SimulationWorkers)
                   \cup Permutations(AnalysisWorkers)
                   \cup Permutations(Publishers)
=============================================================================
