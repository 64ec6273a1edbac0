--------------------------- MODULE ScoreDocuments ---------------------------
(***************************************************************************)
(* The scores of a recording as the result document reports them, and what *)
(* the validators of the exchange make of them.                            *)
(***************************************************************************)
EXTENDS ScoringProperties

CONSTANT Null  \* the JSON null

Contract == INSTANCE Contract
Reader == INSTANCE ReaderRelations

\* The types of a metric and of the metrics that Evaluate reports.
Metric == [value : Int \cup {Null}, version : {1, 2}, unit : {"count", "mm", "ppm"},
           pass : BOOLEAN \cup {Null}, evidence_ticks : SUBSET Nat]
Scores == [collision_count : Metric, minimum_obstacle_gap : Metric, goal_progress : Metric]

ASSUME NullAssumption == Null \notin BOOLEAN /\ Null \notin Int /\ Null \notin Scores

\* The template with these limits; collisions and progress have one version.
Template(limits) ==
    [collision_count |-> [version |-> 1],
     minimum_obstacle_gap |-> [version |-> limits.version, minimum_mm |-> limits.minimum_mm],
     goal_progress |-> [version |-> 1, minimum_ppm |-> limits.minimum_ppm]]

\* Evidence: the tick of the first contact, of the first minimum, and the last.
Contacts(recording, w) ==
    IF CollisionCount(recording, w) = 0 THEN {} ELSE {ContactTick(recording, w)}
GapTick(recording, w, version) ==
    LET least(t) == \E j \in DOMAIN w.obstacles :
                        Distance(version, End(recording, t + 1, j), w.length, w.obstacles[j].length)
                          = MinimumGap(recording, w, version)
    IN CHOOSE t \in 0..(Len(recording) - 1) :
         least(t) /\ \A s \in 0..(t - 1) : ~least(s)

\* Evaluate, and the part of the result that Score fills in.
Evaluated(recording, w, limits) ==
    Contract!Reported(Template(limits), CollisionCount(recording, w), Contacts(recording, w),
        IF w.obstacles = << >> THEN Null ELSE MinimumGap(recording, w, limits.version),
        IF w.obstacles = << >> THEN 0 ELSE GapTick(recording, w, limits.version),
        IF w.goal - w.start <= 0 THEN Null ELSE Progress(recording, w),
        Len(recording) - 1)
Scored(recording, w, limits) ==
    [status |-> Status(recording, w, limits), analysis_template |-> Template(limits),
     metrics |-> Evaluated(recording, w, limits)]

\* Whatever a run recorded, the score of it passes both validators: values,
\* pass flags, evidence and status fit together and fit the template. A score
\* they refused could never be accepted and would stop its pool (acceptResult,
\* checkMetrics, metricsConsistent).
ScorePublishable ==
    reason \in Ends =>
        \A limits \in Limits :
            LET d == Scored(records, world, limits)
            IN /\ Contract!CheckMetrics(d, Len(records))
               /\ Reader!MetricsConsistent(d, Len(records))
=============================================================================
