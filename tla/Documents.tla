----------------------------- MODULE Documents -----------------------------
(***************************************************************************)
(* The documents of the exchange: jobs, bags, results and events, as the   *)
(* producer's structs declare them and schema.json types them. A document  *)
(* is a record, an exchange a function from the paths of its files to      *)
(* their documents. Ids are values; timing and wall-clock fields, which no *)
(* relation reads, are left out.                                           *)
(***************************************************************************)
EXTENDS Integers, Sequences, FiniteSets

CONSTANTS Null,   \* the JSON null
          Whole   \* complete progress, 1_000_000 in the code

FailureClasses ==
    {"simulation_timeout", "controller_failure", "worker_failure", "analysis_failure"}
ASSUME NullAssumption ==
    Null \notin BOOLEAN /\ Null \notin Int /\ Null \notin FailureClasses
ASSUME ScaleAssumption == Whole \in Nat

\* SHA-256 of exact bytes, or of canonical JSON: no two values share it.
Hash(v) == [sha256 |-> v]
AnalysisID(execution, bag, analysis) == Hash(<<execution, bag, analysis>>)
EventID(job, attempt, sequence) == Hash(<<job, attempt, sequence>>)

Kinds == {"job", "bag", "result", "event"}
Folder(kind) == CASE kind = "job" -> "jobs"
                  [] kind = "bag" -> "bags"
                  [] kind = "result" -> "results"
                  [] kind = "event" -> "events"
KindIn(folder) == CHOOSE kind \in Kinds : Folder(kind) = folder
\* The names producers give. References may have either extension in any folder
\* (schema.json:18); staging files end in tmp.
Path(kind, name) == [folder |-> Folder(kind), name |-> name,
                     ext |-> IF kind = "bag" THEN "jsonl" ELSE "json"]
WellNamed(p) == p.ext = "jsonl" <=> p.folder = "bags"
Reference(path, d) == [path |-> path, sha256 |-> Hash(d)]

Terminal == {"PASS", "FAIL", "WARN", "ERROR"}
SameJob(a, b) == /\ a.execution_id = b.execution_id
                 /\ a.job_id = b.job_id
                 /\ a.correlation_id = b.correlation_id

-----------------------------------------------------------------------------
(* Scores.                                                                 *)

MetricNames == {"collision_count", "minimum_obstacle_gap", "goal_progress"}
Unit == [collision_count |-> "count", minimum_obstacle_gap |-> "mm",
         goal_progress |-> "ppm"]

\* The limits of a template are whole numbers.
TypedLimits(template) == /\ template["minimum_obstacle_gap"].minimum_mm \in Int
                         /\ template["goal_progress"].minimum_ppm \in Int

Measured(value, version, unit, pass, ticks) ==
    [value |-> value, version |-> version, unit |-> unit, pass |-> pass,
     evidence_ticks |-> ticks]
Unavailable(version, unit) == Measured(Null, version, unit, Null, {})

\* The end of metrics.Evaluate: what it reports of the values it measured.
Reported(template, collisions, contacts, gap, gapTick, progress, last) ==
    LET version == template["minimum_obstacle_gap"].version IN
    [collision_count |-> Measured(collisions, 1, "count", collisions = 0, contacts),
     minimum_obstacle_gap |->
       IF gap = Null THEN Unavailable(version, "mm")
       ELSE Measured(gap, version, "mm",
                     gap >= template["minimum_obstacle_gap"].minimum_mm, {gapTick}),
     goal_progress |->
       IF progress = Null THEN Unavailable(1, "ppm")
       ELSE Measured(progress, 1, "ppm",
                     progress >= template["goal_progress"].minimum_ppm, {last})]
Overall(metrics) ==
    LET flags == {metrics[n].pass : n \in MetricNames} IN
    IF FALSE \in flags THEN "FAIL" ELSE IF Null \in flags THEN "WARN" ELSE "PASS"
=============================================================================
