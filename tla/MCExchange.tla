----------------------------- MODULE MCExchange -----------------------------
(***************************************************************************)
(* One run job, reanalysed under a stricter template and under one with a  *)
(* metric version the producer cannot compute.                             *)
(***************************************************************************)
EXTENDS ExchangeProperties

Template(gapVersion, progressVersion, minimum) ==
    [collision_count |-> [version |-> 1],
     minimum_obstacle_gap |-> [version |-> gapVersion, minimum_mm |-> minimum],
     goal_progress |-> [version |-> progressVersion, minimum_ppm |-> minimum]]
Run(execution, job, correlation, template) ==
    LET inputs == [bag |-> Null, analysis_template |-> template, tick_ms |-> 100, max_ticks |-> 1]
    IN [kind |-> "job", execution_id |-> execution, job_id |-> job,
        correlation_id |-> correlation, job_kind |-> "run", inputs |-> inputs,
        inputs_hash |-> Hash(inputs)]
MCRuns == {Run("e1", "r1", "c1", Template(1, 1, 0))}
MCTemplates == [strict |-> Template(2, 1, 2)]
Measure(collisions, gap, progress) ==
    [collisions |-> collisions, gap |-> gap, progress |-> progress]
MCMeasures == {Measure(0, 2, 2), Measure(0, Null, 1), Measure(1, 0, Null)}
=============================================================================
