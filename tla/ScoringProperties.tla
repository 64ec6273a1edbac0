------------------------- MODULE ScoringProperties -------------------------
(***************************************************************************)
(* What runs of the simulator guarantee, and what the metrics say of the   *)
(* recordings they leave: two packages that share nothing but the contact  *)
(* rule and must agree on every run.                                       *)
(***************************************************************************)
EXTENDS Simulator, Metrics

CONSTANTS
    Limits,  \* analysis limits a recording may be scored with
    MaxInt   \* the greatest integer of the machine, 2^63 - 1 in the code

ASSUME WholeAssumption ==
    /\ Whole \in Nat \ {0}
    /\ Limits \subseteq [version : {1, 2}, minimum_mm : Nat, minimum_ppm : 0..Whole]

\* An integer holds what the limits multiply to.
Holds(maxInt, tickMS, maxTicks, maxPosition, maxSpeed, maxLength, whole) ==
    /\ maxSpeed * maxSpeed + 2 * Braking <= maxInt
    /\ CeilDiv(maxSpeed * maxSpeed, 2 * Braking) + CeilDiv(maxSpeed * tickMS, 1000) + SafetyGap
         <= maxInt
    /\ maxSpeed * tickMS + 1000 <= maxInt
    /\ maxSpeed * tickMS * maxTicks + maxPosition <= maxInt
    /\ 2 * maxPosition * whole <= maxInt
    /\ 4 * maxPosition + 2 * maxLength <= maxInt
ASSUME MaxIntAssumption ==
    MaxInt \in Nat /\ Holds(MaxInt, TickMS, MaxTicks, MaxPosition, MaxSpeed, MaxLength, Whole)

Record == [position : Int, speed : Nat, obstacles : Seq(Body)]

TypeOK ==
    /\ world \in Scenarios /\ kind \in Controllers /\ braking \in BOOLEAN
    /\ records \in Seq(Record)
    /\ \A i \in DOMAIN records : Len(records[i].obstacles) = Len(world.obstacles)
    /\ reason \in {"", "invalid", "cancelled", "tick_limit"} \cup Ends

\* No body leaves the range of positions, whatever the controller does: the
\* bound that validateBody puts on the coast path.
InRange(position) == position \in (-MaxPosition)..MaxPosition
WithinLimits ==
    \A i \in DOMAIN records :
        /\ InRange(records[i].position)
        /\ \A j \in DOMAIN records[i].obstacles : InRange(records[i].obstacles[j].position)

\* Positions stay in range, and nothing that validateBody, the simulator and the
\* metrics compute leaves the integers of the machine: neither the bound on the
\* coast path itself nor, in a world that meets it, any square, product or double
\* distance of a record (simulator.go:143, "This conservative bound also prevents
\* arithmetic overflow").
Word == (-MaxInt)..MaxInt
CoastTerms(position, speed) ==
    {speed * TickMS * MaxTicks, position + Quot(speed * TickMS * MaxTicks, 1000)}
VehicleTerms(r) ==
    {r.speed * r.speed + 2 * Braking - 1, r.speed * TickMS + 999,
     Threshold("baseline", r.speed), (r.position - world.start) * Whole}
ObstacleTerms(r, o) ==
    LET end == o.position - r.position
    IN {o.speed * TickMS, o.position + o.length, end - world.length, -end - o.length,
        2 * end + o.length - world.length}
NoOverflow ==
    /\ WithinLimits
    /\ Bounded(world.start, world.speed, world.length) =>
         CoastTerms(world.start, world.speed) \subseteq Word
    /\ \A j \in DOMAIN world.obstacles :
         LET o == world.obstacles[j] IN
         Bounded(o.position, o.speed, o.length) => CoastTerms(o.position, o.speed) \subseteq Word
    /\ records # << >> =>
         /\ VehicleTerms(Current) \subseteq Word
         /\ \A j \in DOMAIN Current.obstacles :
              ObstacleTerms(Current, Current.obstacles[j]) \subseteq Word

\* The baseline never hits an obstacle that was farther ahead than it needs to
\* stop: neither the coasting step before the brake nor the rounding of motion
\* may cost it more than its margin (docs/simulator.md, "The baseline includes
\* one coast step and a 2,000 mm margin").
Clear(o) == o.position - world.start - world.length > StoppingDistance(world.speed)
BaselineStops ==
    kind = "baseline" /\ reason = "collision" =>
        \E j \in DOMAIN world.obstacles : ~Clear(world.obstacles[j])

\* The metrics accept every trace, count a contact exactly when the simulator
\* stopped at one, and give its tick as evidence (metrics.go, simulator.go: the
\* swept contact of adjacent records).
ScoreAgrees ==
    reason \in Ends =>
        /\ Accepts(records, world, TickMS)
        /\ reason = "collision" <=> CollisionCount(records, world) > 0
        /\ reason = "collision" => ContactTick(records, world) = Len(records) - 1

\* A run that must make full progress passes only if it reached its goal, and a
\* goal that was reached is full progress in spite of truncated divisions.
PassMeansGoal ==
    reason \in Ends =>
        \A limits \in Limits :
            /\ limits.minimum_ppm = Whole /\ Status(records, world, limits) = "PASS" =>
                 reason = "goal_reached"
            /\ reason = "goal_reached" => ProgressFlag(records, world, limits) # "fail"

\* Version two measures clearance: it is zero exactly when the bodies overlap or
\* touch at some boundary (docs/metrics.md), so no positive gap hides an overlap.
GapMeansClear ==
    reason \in Ends /\ world.obstacles # << >> =>
        (MinimumGap(records, world, 2) = 0
         <=> \E i \in DOMAIN records, j \in DOMAIN world.obstacles :
                Overlaps(records, world, i, j))
=============================================================================
