------------------------------ MODULE Dispatch ------------------------------
(***************************************************************************)
(* The dispatch order of claim, watched by a history variable: how often   *)
(* each pool has passed over the lowest priority class since it last had   *)
(* nothing ready or was last served.                                       *)
(***************************************************************************)
EXTENDS Queue

VARIABLE passed  \* claims each stage made past waiting lowest-class work

\* Jobs of the lowest class that claim may take at a stage.
Lowest(s) == {d \in Candidates(s) : Job[d].priority = 3}
\* A step that claims a job: only claim moves a row to its next generation.
Dispatched(d) == jobs'[d].generation # jobs[d].generation
ServesLowest(s) == \E d \in Lowest(s) : Dispatched(d)
Dispatches(s) == \E d \in Candidates(s) : Dispatched(d)

Watch ==
    passed' = [s \in Stages |->
                 IF Lowest(s) = {} \/ ServesLowest(s) \/ Lowest(s)' = {} THEN 0
                 ELSE IF Dispatches(s) THEN passed[s] + 1 ELSE passed[s]]

DispatchInit == Init /\ passed = [s \in Stages |-> 0]
DispatchNext == Next /\ Watch
DispatchSpec == DispatchInit /\ [][DispatchNext]_<<vars, passed>>
FairDispatchSpec == DispatchSpec /\ Fairness

\* The lowest class is never passed over more than Cycle - 1 times in a row
\* while it has work that can be claimed, whatever higher-priority work keeps
\* arriving or retrying (docs/recovery.md:38, "The reservation gives class
\* three service during a sustained higher-priority backlog").
LowestServed == \A s \in Stages : passed[s] <= dispatches[s]
=============================================================================
