----------------------------- MODULE Simulator -----------------------------
(***************************************************************************)
(* internal/simulator: one run of the one-lane model, tick by tick. The    *)
(* trace it returns is its records and the reason it ended. Lengths are in *)
(* millimetres, speeds in millimetres per second.                          *)
(***************************************************************************)
EXTENDS Geometry, Sequences

CONSTANTS
    Scenarios,    \* worlds a run may be given
    Controllers,  \* "baseline" and "candidate", or one of them
    TickMS,       \* duration of a tick in milliseconds
    MaxTicks,     \* step budget
    MaxPosition,  \* 1_000_000_000 in the code
    MaxSpeed,     \* 1_000_000
    MaxLength,    \* 1_000_000
    MaxObstacles  \* 32

Braking == 4000
SafetyGap == 2000

Body == [position : Int, speed : Int, length : Int]
Scenario == [start : Int, speed : Int, goal : Int, length : Int, obstacles : Seq(Body)]

ASSUME LimitsAssumption ==
    /\ TickMS \in 1..1000 /\ MaxTicks \in Nat \ {0}
    /\ MaxPosition \in Nat /\ MaxSpeed \in Nat /\ MaxLength \in Nat /\ MaxObstacles \in Nat
ASSUME ScenariosAssumption ==
    Scenarios \subseteq Scenario /\ Controllers \subseteq {"baseline", "candidate"}

VARIABLES
    world,    \* Config.Scenario
    kind,     \* Config.Controller
    records,  \* the trace so far; tick 0 is its first record
    braking,  \* whether the controller has begun to brake
    reason    \* "" while it runs, a StopReason, or the error it ended with

vars == <<world, kind, records, braking, reason>>

Ends == {"goal_reached", "stopped", "collision"}
Current == records[Len(records)]

-----------------------------------------------------------------------------
(* validate.                                                               *)

\* The path of a body that never brakes stays within the limits.
Untimed(position, speed) == position <= MaxPosition
Coasts(position, speed) ==
    position + Quot(speed * TickMS * MaxTicks, 1000) <= MaxPosition
Unlimited(position, speed, length) ==
    position \in (-MaxPosition)..MaxPosition /\ speed >= 0 /\ length \in 1..MaxLength
Bounded(position, speed, length) ==
    /\ position \in (-MaxPosition)..MaxPosition
    /\ speed \in 0..MaxSpeed
    /\ length \in 1..MaxLength
ValidBody(position, speed, length) ==
    Bounded(position, speed, length) /\ Coasts(position, speed)
Valid(w) ==
    /\ w.goal \in (-MaxPosition)..MaxPosition
    /\ Len(w.obstacles) <= MaxObstacles
    /\ ValidBody(w.start, w.speed, w.length)
    /\ \A j \in DOMAIN w.obstacles :
         ValidBody(w.obstacles[j].position, w.obstacles[j].speed, w.obstacles[j].length)

-----------------------------------------------------------------------------
(* The controller.                                                         *)

CeilDiv(n, d) == (n + d - 1) \div d
StoppingDistance(v) == CeilDiv(v * v, 2 * Braking)

\* The baseline counts one more step of coasting and a margin.
NoStep(c, v) == IF c = "candidate" THEN StoppingDistance(v) \div 4
                ELSE StoppingDistance(v)
Threshold(c, v) ==
    IF c = "candidate" THEN StoppingDistance(v) \div 4
    ELSE StoppingDistance(v) + CeilDiv(v * TickMS, 1000) + SafetyGap

\* An obstacle that is not wholly behind is near.
Near(c, r, w) ==
    \E j \in DOMAIN r.obstacles :
        LET o == r.obstacles[j]
        IN /\ o.position + o.length >= r.position
           /\ o.position - r.position - w.length <= Threshold(c, r.speed)

-----------------------------------------------------------------------------
(* Motion.                                                                 *)

Moved(o) == [o EXCEPT !.position = @ + Quot(o.speed * TickMS, 1000)]
Clamped(v, a) == Most(0, v + Quot(a * TickMS, 1000))
Advanced(r, acceleration) ==
    LET v == Clamped(r.speed, acceleration)
    IN [position |-> r.position + Quot(v * TickMS, 1000), speed |-> v,
        obstacles |-> [j \in DOMAIN r.obstacles |-> Moved(r.obstacles[j])]]

\* terminal: the vehicle and an obstacle met between two records.
Sampled(p, r, w, j) ==
    LET end == r.obstacles[j].position - r.position
    IN Contact(end, end, w.length, r.obstacles[j].length)
Swept(p, r, w, j) ==
    Contact(p.obstacles[j].position - p.position,
            r.obstacles[j].position - r.position, w.length, r.obstacles[j].length)
Terminal(p, r, w) ==
    IF \E j \in DOMAIN r.obstacles : Swept(p, r, w, j) THEN "collision"
    ELSE IF r.position >= w.goal THEN "goal_reached"
    ELSE IF r.speed = 0 THEN "stopped"
    ELSE ""

-----------------------------------------------------------------------------
First(w) == [position |-> w.start, speed |-> w.speed, obstacles |-> w.obstacles]

\* Invalid inputs end a run before its first record.
Begin ==
    /\ records = << >> /\ reason = ""
    /\ IF Valid(world)
       THEN /\ records' = <<First(world)>>
            /\ reason' = Terminal(First(world), First(world), world)
       ELSE reason' = "invalid" /\ UNCHANGED records
    /\ UNCHANGED <<world, kind, braking>>

\* The command holds for the interval that ends at the next record.
Step ==
    /\ records # << >> /\ reason = "" /\ Len(records) <= MaxTicks
    /\ braking' = (braking \/ Near(kind, Current, world))
    /\ LET next == Advanced(Current, IF braking' THEN -Braking ELSE 0)
       IN /\ records' = Append(records, next)
          /\ reason' = Terminal(Current, next, world)
    /\ UNCHANGED <<world, kind>>

Exhausted ==
    /\ records # << >> /\ reason = "" /\ Len(records) > MaxTicks
    /\ reason' = "tick_limit"
    /\ UNCHANGED <<world, kind, records, braking>>

\* The context is looked at before every tick.
Cancel ==
    /\ reason = "" /\ Len(records) <= MaxTicks
    /\ records = << >> => Valid(world)
    /\ reason' = "cancelled"
    /\ UNCHANGED <<world, kind, records, braking>>

Init ==
    /\ world \in Scenarios /\ kind \in Controllers
    /\ records = << >> /\ braking = FALSE /\ reason = ""

Next == Begin \/ Step \/ Exhausted \/ Cancel

Spec == Init /\ [][Next]_vars
=============================================================================
