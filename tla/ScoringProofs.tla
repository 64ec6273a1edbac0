--------------------------- MODULE ScoringProofs ---------------------------
(***************************************************************************)
(* The simulator keeps its limits and its baseline stops, and the metrics  *)
(* see in its records what it stopped at, for any worlds, tick length and  *)
(* step budget. The bounds are about products of unknowns: each is brought *)
(* down to integers times a thousand, where truncated division only ever   *)
(* loses less than one. Then that the scores are accepted by the validators *)
(* of the result document, and that no computation leaves the integers of  *)
(* the machine.                                                            *)
(***************************************************************************)
EXTENDS ScoreDocuments, FiniteSetTheorems, WellFoundedInduction, TLAPS

-----------------------------------------------------------------------------
(* Arithmetic.                                                             *)

\* Division by a thousand loses less than one.
LEMMA Thousandth ==
    ASSUME NEW a \in Nat
    PROVE  /\ Quot(a, 1000) \in Nat
           /\ 1000 * Quot(a, 1000) <= a /\ a < 1000 * Quot(a, 1000) + 1000
BY DEF Quot

\* The brake takes a whole number of millimetres per second off in every tick.
LEMMA BrakeIsExact ==
    ASSUME NEW t \in Nat
    PROVE  Quot((-Braking) * t, 1000) = -(4 * t) /\ Quot(0 * t, 1000) = 0
BY DEF Quot, Braking

LEMMA ProductIsNat ==
    ASSUME NEW a \in Nat, NEW b \in Nat
    PROVE  a * b \in Nat
OBVIOUS

LEMMA ProductGrows ==
    ASSUME NEW a \in Nat, NEW b \in Nat, a <= b, NEW k \in Nat
    PROVE  a * k <= b * k
OBVIOUS

LEMMA SquareGrows ==
    ASSUME NEW a \in Nat, NEW t \in Nat
    PROVE  (a + 4 * t) * (a + 4 * t) >= a * a + 8 * (a * t)
OBVIOUS

\* The stopping distance is a natural number that covers v^2 / 8000.
LEMMA StoppingCovers ==
    ASSUME NEW v \in Nat
    PROVE  StoppingDistance(v) \in Nat /\ 8000 * StoppingDistance(v) >= v * v
<1>1. v * v \in Nat
  BY ProductIsNat
<1> DEFINE q == v * v
<1>2. \A n \in Nat : (n + 7999) \div 8000 \in Nat /\ 8000 * ((n + 7999) \div 8000) >= n
  OBVIOUS
<1>3. StoppingDistance(v) = (q + 7999) \div 8000
  <2>1. 2 * Braking = 8000
    BY DEF Braking
  <2>2. StoppingDistance(v) = (q + 8000 - 1) \div 8000
    BY <2>1 DEF StoppingDistance, CeilDiv
  <2>3. q + 8000 - 1 = q + 7999
    BY <1>1
  <2> QED BY <2>2, <2>3
<1> HIDE DEF q
<1>4. q = v * v /\ q \in Nat
  BY <1>1 DEF q
<1> QED BY <1>2, <1>3, <1>4

\* The distance a body moves in one tick.
LEMMA MoveBound ==
    ASSUME NEW v \in Nat
    PROVE  /\ v * TickMS \in Nat /\ Quot(v * TickMS, 1000) \in Nat
           /\ 1000 * Quot(v * TickMS, 1000) <= v * TickMS
<1>1. TickMS \in Nat
  BY LimitsAssumption
<1>2. v * TickMS \in Nat
  BY <1>1, ProductIsNat
<1> DEFINE q == v * TickMS
<1>3. q \in Nat
  BY <1>2
<1> HIDE DEF q
<1>4. Quot(q, 1000) \in Nat /\ 1000 * Quot(q, 1000) <= q
  BY <1>3, Thousandth
<1> QED BY <1>2, <1>4 DEF q

LEMMA DivLaw ==
    ASSUME NEW n \in Nat, NEW d \in Nat \ {0}
    PROVE  /\ n \div d \in Nat
           /\ d * (n \div d) <= n /\ n < d * (n \div d) + d
OBVIOUS

\* A truncated share is complete exactly when the distance is.
LEMMA FullShare ==
    ASSUME NEW a \in Int, NEW d \in Nat \ {0}, NEW w \in Nat \ {0}
    PROVE  Quot(a * w, d) >= w <=> a >= d
<1>1. CASE a < 0
  <2>1. a * w < 0
    BY <1>1
  <2> DEFINE x == -(a * w)
  <2>2. x \in Nat /\ a * w \in Int
    BY <2>1
  <2>3. Quot(a * w, d) = -(x \div d)
    BY <2>1 DEF Quot
  <2>4. x \div d \in Nat
    BY <2>2, DivLaw
  <2> HIDE DEF x
  <2> QED BY <1>1, <2>3, <2>4
<1>2. CASE a >= 0
  <2> DEFINE x == a * w
             q == x \div d
  <2>1. x \in Nat
    BY <1>2
  <2>2. Quot(x, d) = q
    BY <2>1 DEF Quot
  <2>3. q \in Nat /\ d * q <= x /\ x < d * q + d
    BY <2>1, DivLaw
  <2> HIDE DEF q
  <2>4. ASSUME a >= d PROVE q >= w
    <3>1. x >= d * w
      BY <1>2, <2>4
    <3>2. d * w < d * q + d
      <4> HIDE DEF x
      <4> QED BY <2>1, <2>3, <3>1
    <3>3. d * w < d * (q + 1)
      BY <2>3, <3>2
    <3>4. w < q + 1
      BY <2>3, <3>3
    <3> QED BY <2>3, <3>4
  <2>5. ASSUME a < d PROVE q < w
    <3>1. x < d * w
      BY <1>2, <2>5
    <3>2. d * q < d * w
      <4> HIDE DEF x
      <4> QED BY <2>1, <2>3, <3>1
    <3> QED BY <2>3, <3>2
  <2> QED BY <2>2, <2>3, <2>4, <2>5
<1> QED BY <1>1, <1>2

-----------------------------------------------------------------------------
(* The body of a run.                                                      *)

\* A command is zero or the brake; the speed never grows.
LEMMA SpeedFalls ==
    ASSUME NEW v \in Nat
    PROVE  /\ Clamped(v, 0) = v
           /\ Clamped(v, -Braking) \in Nat /\ Clamped(v, -Braking) <= v
           /\ Clamped(v, -Braking) > 0 => v = Clamped(v, -Braking) + 4 * TickMS
<1>1. TickMS \in Nat
  BY LimitsAssumption
<1>2. Quot((-Braking) * TickMS, 1000) = -(4 * TickMS) /\ Quot(0 * TickMS, 1000) = 0
  BY <1>1, BrakeIsExact
<1> DEFINE still == Quot(0 * TickMS, 1000)
           brake == Quot((-Braking) * TickMS, 1000)
<1>3. Clamped(v, 0) = Most(0, v + still) /\ Clamped(v, -Braking) = Most(0, v + brake)
  BY DEF Clamped
<1>4. still = 0 /\ brake = -(4 * TickMS)
  BY <1>2
<1> HIDE DEF still, brake
<1> QED BY <1>1, <1>3, <1>4 DEF Most

\* What is left of the coast path of a body, n records into the run.
Budget(position, speed, n) ==
    1000 * position + (speed * TickMS) * (MaxTicks + 1 - n) <= 1000 * MaxPosition + 999
Kept(position, speed, n) ==
    position \in Int /\ position >= -MaxPosition /\ speed \in Nat /\ Budget(position, speed, n)

\* A coast path within the limits is a budget at the first record.
LEMMA CoastIsBudget ==
    ASSUME NEW position \in Int, NEW speed \in Int, NEW length, ValidBody(position, speed, length)
    PROVE  Kept(position, speed, 1)
<1>1. /\ position \in Int /\ speed \in Nat /\ position >= -MaxPosition
      /\ MaxPosition \in Nat /\ MaxTicks \in Nat /\ TickMS \in Nat
  BY LimitsAssumption DEF ValidBody, Bounded
<1> DEFINE d == speed * TickMS * MaxTicks
<1>2. speed * TickMS \in Nat
  BY <1>1, ProductIsNat
<1>3. d \in Nat
  BY <1>1, <1>2, ProductIsNat
<1>4. position + Quot(d, 1000) <= MaxPosition
  BY DEF ValidBody, Coasts
<1>5. MaxTicks + 1 - 1 = MaxTicks
  BY <1>1
<1>6. d = (speed * TickMS) * (MaxTicks + 1 - 1)
  BY <1>5
<1> HIDE DEF d
<1>7. Quot(d, 1000) \in Nat /\ d < 1000 * Quot(d, 1000) + 1000
  BY <1>3, Thousandth
<1>8. 1000 * position + d <= 1000 * MaxPosition + 999
  BY <1>1, <1>3, <1>4, <1>7
<1> QED BY <1>1, <1>6, <1>8 DEF Kept, Budget

\* A tick at no more than the speed it had stays within a body's budget.
LEMMA BudgetLasts ==
    ASSUME NEW position, NEW speed, NEW n \in Nat, n <= MaxTicks,
           Kept(position, speed, n), NEW v \in Nat, v <= speed
    PROVE  Kept(position + Quot(v * TickMS, 1000), v, n + 1)
<1>1. /\ position \in Int /\ speed \in Nat /\ position >= -MaxPosition
      /\ MaxPosition \in Nat /\ MaxTicks \in Nat /\ TickMS \in Nat
  BY LimitsAssumption DEF Kept
<1> DEFINE a == v * TickMS
           b == speed * TickMS
           m == Quot(a, 1000)
           k == MaxTicks - n
<1>2. a \in Nat /\ b \in Nat /\ k \in Nat /\ a <= b
  BY <1>1, ProductIsNat, ProductGrows
<1>3. m \in Nat /\ 1000 * m <= a
  BY MoveBound
<1>4. MaxTicks + 1 - n = k + 1 /\ MaxTicks + 1 - (n + 1) = k
  BY <1>1
<1>5. 1000 * position + b * (k + 1) <= 1000 * MaxPosition + 999
  BY <1>4 DEF Kept, Budget
<1> HIDE DEF a, b, k, m
<1>6. a * k <= b * k /\ a * k \in Nat /\ b * k \in Nat /\ b * (k + 1) = b * k + b
  BY <1>2, ProductGrows, ProductIsNat
<1>7. 1000 * (position + m) + a * k <= 1000 * MaxPosition + 999
  <2> DEFINE x == a * k
             y == b * k
  <2>1. x \in Nat /\ y \in Nat /\ x <= y /\ 1000 * position + (y + b) <= 1000 * MaxPosition + 999
    BY <1>5, <1>6
  <2> HIDE DEF x, y
  <2>2. 1000 * (position + m) + x <= 1000 * MaxPosition + 999
    BY <2>1, <1>1, <1>2, <1>3
  <2> QED BY <2>2 DEF x
<1>8. position + m \in Int /\ position + m >= -MaxPosition
  BY <1>1, <1>3
<1> QED BY <1>4, <1>7, <1>8 DEF Kept, Budget, a, k, m

\* A body within its budget is within the limits.
LEMMA BudgetBounds ==
    ASSUME NEW position, NEW speed, NEW n \in Nat, n <= MaxTicks + 1, Kept(position, speed, n)
    PROVE  InRange(position)
<1>1. /\ position \in Int /\ speed \in Nat /\ position >= -MaxPosition
      /\ MaxPosition \in Nat /\ MaxTicks \in Nat /\ TickMS \in Nat
  BY LimitsAssumption DEF Kept
<1> DEFINE x == (speed * TickMS) * (MaxTicks + 1 - n)
<1>2. speed * TickMS \in Nat /\ MaxTicks + 1 - n \in Nat
  BY <1>1, ProductIsNat
<1>3. x \in Nat
  BY <1>2, ProductIsNat
<1>4. 1000 * position + x <= 1000 * MaxPosition + 999
  BY DEF Kept, Budget
<1> HIDE DEF x
<1> QED BY <1>1, <1>3, <1>4 DEF InRange

-----------------------------------------------------------------------------
(* The inductive invariant.                                                *)

\* Only a valid world has records, and no more of them than the step budget.
Legal ==
    /\ records # << >> => Valid(world)
    /\ reason \in Ends => records # << >>
    /\ Len(records) <= MaxTicks + 1

\* The trace starts in the world, and its obstacles keep their motion.
Recorded == records # << >> => Accepts(records, world, TickMS)

\* Every body has its coast path to the end of the run within the limits.
Planned ==
    \A i \in DOMAIN records :
        /\ Kept(records[i].position, records[i].speed, i)
        /\ \A j \in DOMAIN records[i].obstacles :
             Kept(records[i].obstacles[j].position, records[i].obstacles[j].speed, i)

\* The vehicle could brake at this record and stop short of the obstacle.
Enough(gap, v) == 8000 * gap > v * v
Stoppable(r, o) == Enough(o.position - r.position - world.length, r.speed)
FarEnough ==
    kind = "baseline" =>
        \A i \in DOMAIN records, j \in DOMAIN world.obstacles :
            Clear(world.obstacles[j]) => Stoppable(records[i], records[i].obstacles[j])

\* Contact ends the run, at the record that shows it.
EndsAtContact ==
    \A i \in DOMAIN records, j \in DOMAIN world.obstacles :
        Touches(records, world, i, j) => reason = "collision" /\ i = Len(records)
ContactAtEnd ==
    reason = "collision" =>
        /\ records # << >>
        /\ \E j \in DOMAIN world.obstacles : Touches(records, world, Len(records), j)

ScoringInvariant ==
    /\ TypeOK /\ Legal /\ Recorded /\ Planned /\ FarEnough
    /\ EndsAtContact /\ ContactAtEnd

-----------------------------------------------------------------------------
(* What the steps do, in the terms of the invariant.                       *)

LEMMA WorldIsScenario ==
    ASSUME TypeOK
    PROVE  /\ world \in Scenario
           /\ \A j \in DOMAIN world.obstacles : world.obstacles[j] \in Body
           /\ DOMAIN world.obstacles = 1..Len(world.obstacles)
           /\ Len(world.obstacles) \in Nat
<1>1. world \in Scenario
  BY ScenariosAssumption DEF TypeOK
<1>2. world.obstacles \in Seq(Body)
  BY <1>1 DEF Scenario
<1> QED BY <1>1, <1>2

\* The records so far and their obstacles.
LEMMA RecordTypes ==
    ASSUME TypeOK, NEW i \in DOMAIN records
    PROVE  /\ records[i] \in Record /\ i \in Nat /\ i >= 1 /\ i <= Len(records)
           /\ DOMAIN records[i].obstacles = DOMAIN world.obstacles
           /\ \A j \in DOMAIN world.obstacles : records[i].obstacles[j] \in Body
<1>1. records \in Seq(Record) /\ Len(records[i].obstacles) = Len(world.obstacles)
  BY DEF TypeOK
<1>2. records[i] \in Record /\ i \in 1..Len(records)
  BY <1>1
<1>3. records[i].obstacles \in Seq(Body)
  BY <1>2 DEF Record
<1>4. DOMAIN records[i].obstacles = 1..Len(world.obstacles)
  BY <1>1, <1>3
<1> QED BY <1>2, <1>3, <1>4, WorldIsScenario

\* The obstacles of a record after a tick.
LEMMA MovedBody ==
    ASSUME NEW o \in Body, o.speed \in Nat
    PROVE  /\ Moved(o) \in Body
           /\ Moved(o).position = o.position + Quot(o.speed * TickMS, 1000)
           /\ Moved(o).speed = o.speed /\ Moved(o).length = o.length
<1>1. Quot(o.speed * TickMS, 1000) \in Int
  BY MoveBound
<1> QED BY <1>1 DEF Moved, Body

\* r follows c when the command holds for one tick.
Follows(c, r, command) ==
    /\ r.speed = Clamped(c.speed, command)
    /\ r.position = c.position + Quot(r.speed * TickMS, 1000)
    /\ DOMAIN r.obstacles = DOMAIN c.obstacles
    /\ \A j \in DOMAIN c.obstacles :
         /\ r.obstacles[j].position = c.obstacles[j].position
                                      + Quot(c.obstacles[j].speed * TickMS, 1000)
         /\ r.obstacles[j].speed = c.obstacles[j].speed
         /\ r.obstacles[j].length = c.obstacles[j].length
LEMMA AdvancedFollows ==
    ASSUME NEW c \in Record, NEW command \in {0, -Braking},
           \A j \in DOMAIN c.obstacles : c.obstacles[j].speed \in Nat,
           NEW r, r = Advanced(c, command)
    PROVE  /\ r \in Record /\ r.speed \in Nat /\ r.speed <= c.speed
           /\ Len(r.obstacles) = Len(c.obstacles) /\ Follows(c, r, command)
<1>1. c.speed \in Nat /\ c.position \in Int /\ c.obstacles \in Seq(Body)
  BY DEF Record
<1>2. \A j \in DOMAIN c.obstacles : c.obstacles[j] \in Body
  BY <1>1
<1>3. /\ r.speed = Clamped(c.speed, command)
      /\ r.position = c.position + Quot(r.speed * TickMS, 1000)
      /\ r.obstacles = [j \in DOMAIN c.obstacles |-> Moved(c.obstacles[j])]
      /\ r = [position |-> r.position, speed |-> r.speed, obstacles |-> r.obstacles]
  BY DEF Advanced
<1>4. r.speed \in Nat /\ r.speed <= c.speed
  BY <1>1, <1>3, SpeedFalls
<1>5. Quot(r.speed * TickMS, 1000) \in Nat
  BY <1>4, MoveBound
<1>6. \A j \in DOMAIN c.obstacles :
        /\ r.obstacles[j] \in Body
        /\ r.obstacles[j].position = c.obstacles[j].position
                                     + Quot(c.obstacles[j].speed * TickMS, 1000)
        /\ r.obstacles[j].speed = c.obstacles[j].speed
        /\ r.obstacles[j].length = c.obstacles[j].length
  BY <1>2, <1>3, MovedBody
<1>7. r.obstacles \in Seq(Body) /\ Len(r.obstacles) = Len(c.obstacles)
  <2>1. DOMAIN c.obstacles = 1..Len(c.obstacles) /\ Len(c.obstacles) \in Nat
    BY <1>1
  <2>2. /\ r.obstacles = [j \in DOMAIN c.obstacles |-> r.obstacles[j]]
        /\ DOMAIN r.obstacles = DOMAIN c.obstacles
    BY <1>3, Zenon
  <2>3. r.obstacles \in [1..Len(c.obstacles) -> Body]
    <3> DEFINE f == r.obstacles
               n == Len(c.obstacles)
    <3>1. f = [j \in 1..n |-> f[j]] /\ \A j \in 1..n : f[j] \in Body
      BY <2>1, <2>2, <1>6
    <3> HIDE DEF f, n
    <3> QED BY <3>1 DEF f, n
  <2> QED BY <2>1, <2>3
<1>8. r.position \in Int
  BY <1>1, <1>3, <1>5
<1>9. r \in Record
  BY <1>3, <1>4, <1>7, <1>8 DEF Record
<1>10. Follows(c, r, command)
  <2>1. DOMAIN r.obstacles = DOMAIN c.obstacles
    BY <1>3, Zenon
  <2>2. r.speed = Clamped(c.speed, command) /\ r.position = c.position + Quot(r.speed * TickMS, 1000)
    BY <1>3
  <2>3. \A j \in DOMAIN c.obstacles :
         /\ r.obstacles[j].position = c.obstacles[j].position
                                      + Quot(c.obstacles[j].speed * TickMS, 1000)
         /\ r.obstacles[j].speed = c.obstacles[j].speed
         /\ r.obstacles[j].length = c.obstacles[j].length
    BY <1>6
  <2> QED BY <2>1, <2>2, <2>3, Zenon DEF Follows
<1> QED BY <1>4, <1>7, <1>9, <1>10

\* A step adds one record, which follows the last.
Command == IF braking' THEN -Braking ELSE 0
LEMMA StepRecord ==
    ASSUME TypeOK, Planned, Step, NEW n, n = Len(records)
    PROVE  /\ n \in Nat /\ n >= 1 /\ n <= MaxTicks
           /\ Len(records') = n + 1 /\ DOMAIN records' = 1..(n + 1)
           /\ DOMAIN records = 1..n /\ \A i \in 1..n : records'[i] = records[i]
           /\ records' \in Seq(Record)
           /\ records'[n + 1].speed <= records[n].speed
           /\ Len(records'[n + 1].obstacles) = Len(records[n].obstacles)
           /\ Follows(records[n], records'[n + 1], Command)
           /\ reason' = Terminal(records[n], records'[n + 1], world)
<1>1. /\ reason' = Terminal(records[n], Advanced(records[n], Command), world)
      /\ records # << >> /\ n <= MaxTicks
      /\ records' = Append(records, Advanced(records[n], Command))
  BY DEF Step, Current, Command
<1>2. records \in Seq(Record) /\ n \in Nat /\ n >= 1 /\ DOMAIN records = 1..n /\ records[n] \in Record
  <2>1. records \in Seq(Record) /\ records # << >>
    BY <1>1 DEF TypeOK
  <2> QED BY <2>1
<1>3. \A j \in DOMAIN records[n].obstacles : records[n].obstacles[j].speed \in Nat
  BY <1>2 DEF Planned, Kept
<1>4. PICK r : r = Advanced(records[n], Command)
  OBVIOUS
<1>5. Command \in {0, -Braking}
  BY DEF Command
<1>6. /\ r \in Record /\ r.speed \in Nat /\ r.speed <= records[n].speed
      /\ Len(r.obstacles) = Len(records[n].obstacles)
      /\ Follows(records[n], r, Command)
  BY <1>2, <1>3, <1>4, <1>5, AdvancedFollows
<1>7. records' = Append(records, r)
  BY <1>1, <1>4
<1>8. /\ Len(records') = n + 1 /\ DOMAIN records' = 1..(n + 1) /\ records' \in Seq(Record)
      /\ records'[n + 1] = r /\ \A i \in 1..n : records'[i] = records[i]
  BY <1>2, <1>6, <1>7
<1>9. reason' = Terminal(records[n], records'[n + 1], world)
  BY <1>1, <1>4, <1>8
<1> QED BY <1>1, <1>2, <1>6, <1>8, <1>9

-----------------------------------------------------------------------------
(* A step preserves each part of the invariant.                            *)

LEMMA TerminalRange ==
    ASSUME NEW p, NEW r, NEW w
    PROVE  /\ Terminal(p, r, w) \in Ends \cup {""}
           /\ Terminal(p, r, w) = "collision" <=> \E j \in DOMAIN r.obstacles : Swept(p, r, w, j)
BY DEF Terminal, Ends

\* The contact of the metrics is the contact of the simulator.
LEMMA TouchIsSweep ==
    ASSUME NEW recording, NEW w, NEW i \in Nat, NEW j,
           recording[i].obstacles[j].length = w.obstacles[j].length
    PROVE  /\ i > 1 => (Touches(recording, w, i, j)
                        <=> Swept(recording[i - 1], recording[i], w, j))
           /\ i = 1 => (Touches(recording, w, i, j)
                        <=> Swept(recording[i], recording[i], w, j))
<1>1. ASSUME i > 1
      PROVE  Start(recording, i, j) = End(recording, i - 1, j)
  BY <1>1 DEF Start
<1>2. ASSUME i = 1
      PROVE  Start(recording, i, j) = End(recording, i, j)
  BY <1>2 DEF Start
<1> QED BY <1>1, <1>2 DEF Touches, Swept, End

LEMMA StepType ==
    ASSUME TypeOK, Planned, Step
    PROVE  TypeOK'
<1> DEFINE n == Len(records)
<1>1. /\ n \in Nat /\ n >= 1 /\ DOMAIN records' = 1..(n + 1) /\ DOMAIN records = 1..n
      /\ \A i \in 1..n : records'[i] = records[i]
      /\ records' \in Seq(Record)
      /\ Len(records'[n + 1].obstacles) = Len(records[n].obstacles)
  BY StepRecord
<1> HIDE DEF n
<1>2. \A i \in 1..n : Len(records[i].obstacles) = Len(world.obstacles)
  BY <1>1 DEF TypeOK
<1>3. \A i \in 1..(n + 1) : Len(records'[i].obstacles) = Len(world.obstacles)
  <2>1. ASSUME NEW i \in 1..(n + 1)
        PROVE  Len(records'[i].obstacles) = Len(world.obstacles)
    <3>1. CASE i \in 1..n
      BY <3>1, <1>1, <1>2
    <3>2. CASE i = n + 1
      BY <3>2, <1>1, <1>2
    <3> QED BY <1>1, <3>1, <3>2
  <2> QED BY <2>1
<1>4. world' = world /\ kind' = kind /\ braking' \in BOOLEAN
  <2>1. braking' = (braking \/ Near(kind, Current, world)) /\ world' = world /\ kind' = kind
    BY DEF Step
  <2> QED BY <2>1
<1>5. reason' \in Ends \cup {""}
  <2>1. PICK r : reason' = Terminal(Current, r, world)
    BY DEF Step
  <2> QED BY <2>1, TerminalRange
<1> QED BY <1>1, <1>3, <1>4, <1>5 DEF TypeOK

LEMMA StepPlanned ==
    ASSUME TypeOK, Planned, Step
    PROVE  Planned'
<1> DEFINE n == Len(records)
<1>1. /\ n \in Nat /\ n >= 1 /\ n <= MaxTicks /\ DOMAIN records' = 1..(n + 1)
      /\ DOMAIN records = 1..n /\ \A i \in 1..n : records'[i] = records[i]
      /\ records' \in Seq(Record)
      /\ records'[n + 1].speed <= records[n].speed
      /\ Follows(records[n], records'[n + 1], Command)
  BY StepRecord
<1> HIDE DEF n
<1>2. PICK r : r = records'[n + 1]
  OBVIOUS
<1>3. r \in Record /\ r.speed \in Nat
  <2>1. r \in Record
    BY <1>1, <1>2
  <2> QED BY <2>1 DEF Record
<1>4. Follows(records[n], r, Command) /\ r.speed <= records[n].speed
  BY <1>1, <1>2
<1>5. /\ Kept(records[n].position, records[n].speed, n)
      /\ \A j \in DOMAIN records[n].obstacles :
           Kept(records[n].obstacles[j].position, records[n].obstacles[j].speed, n)
  BY <1>1 DEF Planned
<1>6. Kept(r.position, r.speed, n + 1)
  <2>1. r.position = records[n].position + Quot(r.speed * TickMS, 1000)
    BY <1>4 DEF Follows
  <2>2. Kept(records[n].position + Quot(r.speed * TickMS, 1000), r.speed, n + 1)
    BY <1>1, <1>3, <1>4, <1>5, BudgetLasts
  <2> QED BY <2>1, <2>2
<1>7. ASSUME NEW j \in DOMAIN r.obstacles
      PROVE  Kept(r.obstacles[j].position, r.obstacles[j].speed, n + 1)
  <2> DEFINE p == records[n].obstacles[j].position
             v == records[n].obstacles[j].speed
  <2>1. j \in DOMAIN records[n].obstacles
    BY <1>4 DEF Follows
  <2>2. r.obstacles[j].position = p + Quot(v * TickMS, 1000) /\ r.obstacles[j].speed = v
    BY <1>4, <2>1 DEF Follows
  <2>3. Kept(p, v, n)
    BY <1>5, <2>1
  <2> HIDE DEF p, v
  <2>4. v \in Nat /\ v <= v
    BY <2>3 DEF Kept
  <2>5. Kept(p + Quot(v * TickMS, 1000), v, n + 1)
    BY <1>1, <2>3, <2>4, BudgetLasts
  <2> QED BY <2>2, <2>5
<1>8. ASSUME NEW i \in 1..(n + 1)
      PROVE  /\ Kept(records'[i].position, records'[i].speed, i)
             /\ \A j \in DOMAIN records'[i].obstacles :
                  Kept(records'[i].obstacles[j].position, records'[i].obstacles[j].speed, i)
  <2>1. CASE i \in 1..n
    BY <2>1, <1>1 DEF Planned
  <2>2. CASE i = n + 1
    BY <2>2, <1>2, <1>6, <1>7
  <2> QED BY <1>1, <2>1, <2>2
<1> QED BY <1>1, <1>8 DEF Planned

\* What Accepts asks of one record.
Continues(recording, w, i) ==
    LET os == recording[i].obstacles IN
    /\ DOMAIN os = DOMAIN w.obstacles
    /\ \A j \in DOMAIN os :
         /\ os[j].length = w.obstacles[j].length /\ os[j].speed = w.obstacles[j].speed
         /\ i > 1 => os[j].position = recording[i - 1].obstacles[j].position
                                      + Quot(os[j].speed * TickMS, 1000)
LEMMA AcceptsParts ==
    ASSUME NEW recording, NEW w
    PROVE  Accepts(recording, w, TickMS) <=>
             /\ recording # << >>
             /\ recording[1].position = w.start /\ recording[1].speed = w.speed
             /\ recording[1].obstacles = w.obstacles
             /\ \A i \in DOMAIN recording : Continues(recording, w, i)
BY Zenon DEF Accepts, Continues

LEMMA StepRecorded ==
    ASSUME TypeOK, Planned, Recorded, Step
    PROVE  Recorded'
<1> DEFINE n == Len(records)
<1>1. /\ n \in Nat /\ n >= 1 /\ DOMAIN records' = 1..(n + 1)
      /\ DOMAIN records = 1..n /\ \A i \in 1..n : records'[i] = records[i]
      /\ Follows(records[n], records'[n + 1], Command)
  BY StepRecord
<1> HIDE DEF n
<1>2. Accepts(records, world, TickMS) /\ world' = world
  BY DEF Recorded, Step
<1>3. /\ records[1].position = world.start /\ records[1].speed = world.speed
      /\ records[1].obstacles = world.obstacles
      /\ \A i \in 1..n : Continues(records, world, i)
  BY <1>1, <1>2, AcceptsParts
<1>4. records' # << >> /\ 1 \in 1..n /\ records'[1] = records[1]
  BY <1>1
<1>5. ASSUME NEW i \in 1..(n + 1)
      PROVE  Continues(records', world, i)
  <2>1. CASE i \in 1..n
    <3>1. records'[i] = records[i] /\ i - 1 \in Int
      BY <1>1, <2>1
    <3>2. i > 1 => records'[i - 1] = records[i - 1]
      BY <1>1, <2>1
    <3>3. Continues(records, world, i)
      BY <1>3, <2>1
    <3> QED BY <3>1, <3>2, <3>3 DEF Continues
  <2>2. CASE i = n + 1
    <3> DEFINE p == records[n].obstacles
               q == records'[n + 1].obstacles
    <3>1. /\ DOMAIN p = DOMAIN world.obstacles
          /\ \A j \in DOMAIN p :
               p[j].length = world.obstacles[j].length /\ p[j].speed = world.obstacles[j].speed
      BY <1>1, <1>3 DEF Continues
    <3>2. /\ DOMAIN q = DOMAIN p
          /\ \A j \in DOMAIN p :
               /\ q[j].position = p[j].position + Quot(p[j].speed * TickMS, 1000)
               /\ q[j].speed = p[j].speed /\ q[j].length = p[j].length
      BY <1>1 DEF Follows
    <3>3. records'[i].obstacles = q /\ records'[i - 1].obstacles = p
      BY <1>1, <2>2
    <3> HIDE DEF p, q
    <3>4. \A j \in DOMAIN q :
            /\ q[j].length = world.obstacles[j].length /\ q[j].speed = world.obstacles[j].speed
            /\ q[j].position = p[j].position + Quot(q[j].speed * TickMS, 1000)
      BY <3>1, <3>2
    <3> QED BY <3>1, <3>2, <3>3, <3>4 DEF Continues
  <2> QED BY <1>1, <2>1, <2>2
<1>6. Accepts(records', world, TickMS)
  BY <1>1, <1>3, <1>4, <1>5, AcceptsParts
<1> QED BY <1>2, <1>6 DEF Recorded

\* The obstacles of a record have the lengths of the world.
LEMMA LengthsStay ==
    ASSUME TypeOK, Recorded, NEW i \in DOMAIN records, NEW j \in DOMAIN world.obstacles
    PROVE  /\ records[i].obstacles[j].length = world.obstacles[j].length
           /\ records[i].obstacles[j].speed = world.obstacles[j].speed
<1>1. records # << >>
  <2>1. records \in Seq(Record)
    BY DEF TypeOK
  <2> QED BY <2>1
<1>2. Continues(records, world, i)
  BY <1>1, AcceptsParts DEF Recorded
<1> QED BY <1>2 DEF Continues

LEMMA StepContacts ==
    ASSUME TypeOK, Planned, Recorded, EndsAtContact, Step, TypeOK', Recorded'
    PROVE  EndsAtContact' /\ ContactAtEnd'
<1> DEFINE n == Len(records)
<1>1. /\ n \in Nat /\ n >= 1 /\ DOMAIN records' = 1..(n + 1) /\ Len(records') = n + 1
      /\ DOMAIN records = 1..n /\ \A i \in 1..n : records'[i] = records[i]
  BY StepRecord
<1>2. world' = world /\ reason = "" /\ reason' = Terminal(records[n], records'[n + 1], world)
  BY StepRecord DEF Step
<1> HIDE DEF n
<1>3. ASSUME NEW i \in 1..n, NEW j \in DOMAIN world.obstacles
      PROVE  ~Touches(records', world, i, j)
  <2>1. ~Touches(records, world, i, j)
    BY <1>1, <1>2 DEF EndsAtContact
  <2>2. records'[i] = records[i] /\ i \in Int /\ (i # 1 => records'[i - 1] = records[i - 1])
    BY <1>1
  <2>3. Start(records', i, j) = Start(records, i, j) /\ End(records', i, j) = End(records, i, j)
    BY <2>2 DEF Start, End
  <2> QED BY <2>1, <2>3 DEF Touches
<1>4. ASSUME NEW j \in DOMAIN world.obstacles
      PROVE  Touches(records', world, n + 1, j) <=> Swept(records[n], records'[n + 1], world, j)
  <2>1. (records')[n + 1].obstacles[j].length = world.obstacles[j].length
    <3>1. Continues(records', world', n + 1)
      BY <1>1, AcceptsParts DEF Recorded
    <3> QED BY <1>2, <3>1 DEF Continues
  <2>2. n + 1 \in Nat /\ n + 1 > 1 /\ (n + 1) - 1 = n /\ records'[n] = records[n]
    BY <1>1
  <2>3. Touches(records', world, n + 1, j)
          <=> Swept(records'[(n + 1) - 1], records'[n + 1], world, j)
    BY <2>1, <2>2, TouchIsSweep
  <2> QED BY <2>2, <2>3
<1>5. DOMAIN (records'[n + 1].obstacles) = DOMAIN world.obstacles
  <2>1. Continues(records', world', n + 1)
    BY <1>1, AcceptsParts DEF Recorded
  <2> QED BY <1>2, <2>1 DEF Continues
<1>6. reason' = "collision"
        <=> \E j \in DOMAIN world.obstacles : Touches(records', world, n + 1, j)
  <2>1. reason' = "collision" <=> \E j \in DOMAIN (records'[n + 1].obstacles) :
                                    Swept(records[n], records'[n + 1], world, j)
    BY <1>2, TerminalRange
  <2> QED BY <2>1, <1>4, <1>5
<1>7. EndsAtContact'
  <2>1. ASSUME NEW i \in 1..(n + 1), NEW j \in DOMAIN world.obstacles, Touches(records', world, i, j)
        PROVE  reason' = "collision" /\ i = n + 1
    <3>1. i = n + 1
      BY <2>1, <1>1, <1>3
    <3> QED BY <2>1, <3>1, <1>6
  <2> QED BY <2>1, <1>1, <1>2 DEF EndsAtContact
<1>8. ContactAtEnd'
  <2>1. records' # << >>
    BY <1>1
  <2> QED BY <2>1, <1>1, <1>2, <1>6 DEF ContactAtEnd
<1> QED BY <1>7, <1>8

-----------------------------------------------------------------------------
(* The baseline.                                                           *)

\* A tick under the brake leaves enough to stop.
LEMMA BrakingKeeps ==
    ASSUME NEW v \in Nat, NEW u \in Nat, u > 0 => v = u + 4 * TickMS,
           NEW gap \in Int, Enough(gap, v),
           NEW m \in Nat, m = Quot(u * TickMS, 1000), NEW gap2 \in Int, gap2 >= gap - m
    PROVE  Enough(gap2, u)
<1> DEFINE d == u * TickMS
           p == v * v
           q == u * u
<1>1. TickMS \in Nat
  BY LimitsAssumption
<1>2. d \in Nat /\ 1000 * m <= d
  BY MoveBound
<1>3. p \in Nat /\ q \in Nat
  BY <1>1, ProductIsNat
<1>4. gap2 >= gap - m /\ 8000 * gap > p
  BY DEF Enough
<1>5. CASE u = 0
  <2>1. d = 0 /\ q = 0
    BY <1>1, <1>5
  <2> HIDE DEF d, p, q
  <2>2. m = 0
    BY <1>2, <2>1
  <2>3. 8000 * gap2 > q
    BY <1>3, <1>4, <2>1, <2>2
  <2> QED BY <2>3 DEF q, Enough
<1>6. CASE u > 0
  <2>1. p >= q + 8 * d
    BY <1>1, <1>6, SquareGrows
  <2> HIDE DEF d, p, q
  <2>2. 8000 * gap2 > q
    BY <1>2, <1>3, <1>4, <2>1
  <2> QED BY <2>2 DEF q, Enough
<1> QED BY <1>1, <1>5, <1>6

\* A tick of coasting is what the threshold allows for.
LEMMA CoastingKeeps ==
    ASSUME NEW v \in Nat, NEW gap \in Int, NEW gap2 \in Int,
           gap > Threshold("baseline", v),
           NEW m \in Nat, m = Quot(v * TickMS, 1000), gap2 >= gap - m
    PROVE  Enough(gap2, v)
<1> DEFINE d == v * TickMS
           p == v * v
           s == StoppingDistance(v)
           k == CeilDiv(d, 1000)
<1>1. d \in Nat /\ 1000 * m <= d
  BY MoveBound
<1>2. p \in Nat /\ s \in Nat /\ 8000 * s >= p
  BY ProductIsNat, StoppingCovers
<1>3. gap > s + k + 2000
  BY DEF Threshold, SafetyGap
<1>4. gap2 >= gap - m
  OBVIOUS
<1> HIDE DEF d, p, s
<1>5. k = (d + 1000 - 1) \div 1000
  BY DEF CeilDiv
<1> HIDE DEF k
<1>6. k \in Nat /\ k >= m
  BY <1>1, <1>5
<1>7. 8000 * gap2 > p
  BY <1>1, <1>2, <1>3, <1>4, <1>6
<1> QED BY <1>7 DEF p, Enough

LEMMA StepFarEnough ==
    ASSUME TypeOK, Legal, Planned, Recorded, FarEnough, Step
    PROVE  FarEnough'
<1> SUFFICES ASSUME kind = "baseline"
             PROVE  FarEnough'
  BY DEF FarEnough, Step
<1> DEFINE n == Len(records)
<1>1. /\ n \in Nat /\ n >= 1 /\ DOMAIN records' = 1..(n + 1)
      /\ DOMAIN records = 1..n /\ \A i \in 1..n : records'[i] = records[i]
      /\ records' \in Seq(Record)
      /\ Follows(records[n], records'[n + 1], Command)
  BY StepRecord
<1> HIDE DEF n
<1>2. world' = world /\ records # << >> /\ Valid(world)
  BY DEF Step, Legal
<1>3. PICK c : c = records[n]
  OBVIOUS
<1>4. PICK r : r = records'[n + 1]
  OBVIOUS
<1>5. Follows(c, r, Command) /\ r \in Record /\ c \in Record
  <2>1. records'[n + 1] \in Record /\ records[n] \in Record
    BY <1>1, RecordTypes
  <2> QED BY <2>1, <1>1, <1>3, <1>4
<1>6. c.speed \in Nat /\ c.position \in Int /\ r.speed \in Nat /\ r.position \in Int
  BY <1>5 DEF Record
<1>7. ASSUME NEW j \in DOMAIN world.obstacles, Clear(world.obstacles[j])
      PROVE  Enough(r.obstacles[j].position - r.position - world.length, r.speed)
  <2>1. PICK o : o = c.obstacles[j]
    OBVIOUS
  <2>2. o \in Body /\ j \in DOMAIN c.obstacles
    BY <1>1, <1>3, <2>1, RecordTypes
  <2>3. o.position \in Int /\ o.length \in Int
    BY <2>2 DEF Body
  <2>4. o.speed \in Nat
    BY <1>1, <1>3, <2>1, <2>2 DEF Planned, Kept
  <2>5. world.length \in Int /\ world.length >= 1 /\ o.length >= 1
    <3>1. ValidBody(world.start, world.speed, world.length)
      BY <1>2 DEF Valid
    <3>2. ValidBody(world.obstacles[j].position, world.obstacles[j].speed,
                    world.obstacles[j].length)
      BY <1>2 DEF Valid
    <3>3. o.length = world.obstacles[j].length
      BY <1>1, <1>3, <2>1, LengthsStay
    <3> QED BY <3>1, <3>2, <3>3, LimitsAssumption DEF ValidBody, Bounded
  <2> DEFINE gap == o.position - c.position - world.length
             gap2 == r.obstacles[j].position - r.position - world.length
             m == Quot(r.speed * TickMS, 1000)
             e == Quot(o.speed * TickMS, 1000)
  <2>6. m \in Nat /\ e \in Nat
    BY <1>6, <2>4, MoveBound
  <2>7. r.obstacles[j].position = o.position + e /\ r.position = c.position + m
    BY <1>5, <2>1, <2>2 DEF Follows
  <2> HIDE DEF m, e
  <2>8. gap \in Int /\ gap2 \in Int /\ gap2 >= gap - m
    BY <1>6, <2>3, <2>5, <2>6, <2>7
  <2>9. Enough(gap, c.speed)
    BY <1>1, <1>3, <1>7, <2>1 DEF FarEnough, Stoppable
  <2>10. r.speed = Clamped(c.speed, Command)
    BY <1>5 DEF Follows
  <2>11. CASE braking'
    <3>1. r.speed = Clamped(c.speed, -Braking)
      BY <2>10, <2>11 DEF Command
    <3> HIDE DEF gap, gap2
    <3>2. r.speed > 0 => c.speed = r.speed + 4 * TickMS
      BY <1>6, <3>1, SpeedFalls
    <3>3. Enough(gap2, r.speed)
      <4>1. m = Quot(r.speed * TickMS, 1000)
        BY DEF m
      <4>2. gap \in Int /\ gap2 \in Int /\ gap2 >= gap - m /\ Enough(gap, c.speed)
        BY <2>8, <2>9
      <4>3. c.speed \in Nat /\ r.speed \in Nat /\ m \in Nat
        BY <1>6, <2>6
      <4> QED BY <3>2, <4>1, <4>2, <4>3, BrakingKeeps
    <3> QED BY <3>3 DEF gap2
  <2>12. CASE ~braking'
    <3>1. r.speed = c.speed
      BY <1>6, <2>10, <2>12, SpeedFalls DEF Command
    <3>2. ~Near("baseline", c, world)
      BY <1>3, <2>12 DEF Step, Current, n
    <3>3. ~(o.position + o.length >= c.position /\ gap <= Threshold("baseline", c.speed))
      BY <3>2, <2>1, <2>2 DEF Near
    <3>4. o.position + o.length >= c.position
      <4>1. c.speed * c.speed \in Nat
        BY <1>6, ProductIsNat
      <4>2. gap > 0
        BY <2>8, <2>9, <4>1 DEF Enough
      <4> QED BY <4>2, <1>6, <2>3, <2>5
    <3> HIDE DEF gap, gap2
    <3>5. gap > Threshold("baseline", c.speed)
      <4>1. Threshold("baseline", c.speed) \in Int
        <5> DEFINE d == c.speed * TickMS
        <5>1. StoppingDistance(c.speed) \in Nat /\ d \in Nat
          BY <1>6, StoppingCovers, MoveBound
        <5>2. Threshold("baseline", c.speed)
                = StoppingDistance(c.speed) + CeilDiv(d, 1000) + 2000
          BY DEF Threshold, SafetyGap
        <5> HIDE DEF d
        <5>3. CeilDiv(d, 1000) \in Int
          BY <5>1 DEF CeilDiv
        <5> QED BY <5>1, <5>2, <5>3
      <4> QED BY <4>1, <2>8, <3>3, <3>4
    <3>6. m = Quot(c.speed * TickMS, 1000)
      BY <3>1 DEF m
    <3>7. Enough(gap2, c.speed)
      <4>1. gap \in Int /\ gap2 \in Int /\ gap2 >= gap - m
        BY <2>8
      <4>2. c.speed \in Nat /\ m \in Nat
        BY <1>6, <2>6
      <4> QED BY <3>5, <3>6, <4>1, <4>2, CoastingKeeps
    <3> QED BY <3>1, <3>7 DEF gap2
  <2> QED BY <2>11, <2>12
<1>8. ASSUME NEW i \in 1..(n + 1), NEW j \in DOMAIN world.obstacles, Clear(world.obstacles[j])
      PROVE  Stoppable(records'[i], records'[i].obstacles[j])
  <2>1. CASE i \in 1..n
    BY <2>1, <1>1, <1>8 DEF FarEnough
  <2>2. CASE i = n + 1
    BY <2>2, <1>4, <1>7, <1>8 DEF Stoppable
  <2> QED BY <1>1, <2>1, <2>2
<1> QED BY <1>1, <1>2, <1>8 DEF FarEnough, Stoppable, Clear

-----------------------------------------------------------------------------
(* The first record.                                                       *)

LEMMA BeginInvariant ==
    ASSUME ScoringInvariant, Begin
    PROVE  ScoringInvariant'
<1>1. /\ world' = world /\ kind' = kind /\ braking' = braking
      /\ records = << >> /\ reason = "" /\ TypeOK
  BY DEF Begin, ScoringInvariant
<1>2. CASE ~Valid(world)
  <2>1. records' = << >> /\ reason' = "invalid"
    BY <1>1, <1>2 DEF Begin
  <2>2. TypeOK' /\ Legal'
    <3>1. Len(records) = Len(records') /\ records' = records
      BY <1>1, <2>1
    <3> QED BY <1>1, <2>1, <3>1 DEF ScoringInvariant, TypeOK, Legal, Ends
  <2>3. /\ Recorded' /\ Planned' /\ FarEnough'
        /\ EndsAtContact' /\ ContactAtEnd'
    BY <2>1 DEF Recorded, Planned, FarEnough, EndsAtContact, ContactAtEnd
  <2> QED BY <2>2, <2>3 DEF ScoringInvariant
<1>3. CASE Valid(world)
  <2>1. PICK r : r = First(world)
    OBVIOUS
  <2>2. records' = <<r>> /\ reason' = Terminal(r, r, world)
    BY <1>1, <1>3, <2>1 DEF Begin
  <2>3. /\ r.position = world.start /\ r.speed = world.speed /\ r.obstacles = world.obstacles
        /\ r = [position |-> world.start, speed |-> world.speed, obstacles |-> world.obstacles]
    BY <2>1 DEF First
  <2>4. /\ world.start \in Int /\ world.speed \in Int /\ world.length \in Int
        /\ world.obstacles \in Seq(Body)
    BY <1>1, WorldIsScenario DEF Scenario
  <2>5. \A j \in DOMAIN world.obstacles :
          /\ world.obstacles[j].position \in Int /\ world.obstacles[j].speed \in Int
          /\ world.obstacles[j].length \in Int
    BY <1>1, WorldIsScenario DEF Body
  <2>6. /\ ValidBody(world.start, world.speed, world.length)
        /\ \A j \in DOMAIN world.obstacles :
             ValidBody(world.obstacles[j].position, world.obstacles[j].speed,
                       world.obstacles[j].length)
    BY <1>3 DEF Valid
  <2>7. /\ Kept(world.start, world.speed, 1)
        /\ \A j \in DOMAIN world.obstacles :
             Kept(world.obstacles[j].position, world.obstacles[j].speed, 1)
    BY <2>4, <2>5, <2>6, CoastIsBudget
  <2>8. world.speed \in Nat
    BY <2>7 DEF Kept
  <2>9. r \in Record
    BY <2>3, <2>4, <2>8 DEF Record
  <2>10. /\ DOMAIN records' = {1} /\ Len(records') = 1 /\ records'[1] = r
         /\ records' \in Seq(Record) /\ records' # << >>
    BY <2>2, <2>9
  <2>11. TypeOK'
    <3>1. reason' \in Ends \cup {""}
      BY <2>2, TerminalRange
    <3> QED BY <3>1, <1>1, <2>3, <2>10 DEF TypeOK
  <2>12. Legal'
    <3>1. Len(records') <= MaxTicks + 1
      BY <2>10, LimitsAssumption
    <3> QED BY <1>1, <1>3, <2>10, <3>1 DEF Legal
  <2>13. Recorded'
    <3>1. Continues(records', world, 1)
      BY <2>3, <2>10 DEF Continues
    <3>2. Accepts(records', world, TickMS)
      BY <3>1, <2>3, <2>10, AcceptsParts
    <3> QED BY <1>1, <3>2 DEF Recorded
  <2>14. Planned'
    BY <2>3, <2>7, <2>10 DEF Planned
  <2>15. FarEnough'
    <3>1. ASSUME NEW j \in DOMAIN world.obstacles, Clear(world.obstacles[j])
          PROVE  Stoppable(r, r.obstacles[j])
      <4> DEFINE gap == world.obstacles[j].position - world.start - world.length
                 s == StoppingDistance(world.speed)
                 p == world.speed * world.speed
      <4>1. gap \in Int /\ gap > s
        BY <2>4, <2>5, <3>1 DEF Clear
      <4>2. s \in Nat /\ p \in Nat /\ 8000 * s >= p
        BY <2>8, StoppingCovers, ProductIsNat
      <4> HIDE DEF gap, s, p
      <4>3. 8000 * gap > p
        BY <4>1, <4>2
      <4>4. Enough(gap, world.speed)
        BY <4>3 DEF Enough, p
      <4> QED BY <2>3, <4>4 DEF Stoppable, gap
    <3> QED BY <1>1, <2>10, <3>1 DEF FarEnough, Stoppable, Clear
  <2>16. \A j \in DOMAIN world.obstacles :
           Touches(records', world, 1, j) <=> Swept(r, r, world, j)
    BY <2>3, <2>10, TouchIsSweep
  <2>17. reason' = "collision" <=> \E j \in DOMAIN world.obstacles : Touches(records', world, 1, j)
    BY <2>2, <2>3, <2>16, TerminalRange
  <2>18. EndsAtContact' /\ ContactAtEnd'
    BY <1>1, <2>10, <2>17 DEF EndsAtContact, ContactAtEnd
  <2> QED BY <2>11, <2>12, <2>13, <2>14, <2>15, <2>18 DEF ScoringInvariant
<1> QED BY <1>2, <1>3

\* An end without a record of its own changes only the reason.
LEMMA EndInvariant ==
    ASSUME ScoringInvariant, UNCHANGED <<world, kind, records, braking>>, reason = "",
           reason' \in {"tick_limit", "cancelled"}
    PROVE  ScoringInvariant'
<1>1. TypeOK' /\ Legal'
  BY DEF ScoringInvariant, TypeOK, Legal, Ends
<1>2. Recorded' /\ Planned' /\ FarEnough'
  BY DEF ScoringInvariant, Recorded, Planned, FarEnough, Stoppable, Clear
<1>3. EndsAtContact' /\ ContactAtEnd'
  BY DEF ScoringInvariant, EndsAtContact, ContactAtEnd
<1> QED BY <1>1, <1>2, <1>3 DEF ScoringInvariant

LEMMA StepInvariant ==
    ASSUME ScoringInvariant, Step
    PROVE  ScoringInvariant'
<1>1. TypeOK /\ Legal /\ Recorded /\ Planned /\ FarEnough /\ EndsAtContact /\ ContactAtEnd
  BY DEF ScoringInvariant
<1>2. TypeOK' /\ Planned'
  BY <1>1, StepType, StepPlanned
<1>3. Recorded' /\ FarEnough'
  BY <1>1, StepRecorded, StepFarEnough
<1>4. EndsAtContact' /\ ContactAtEnd'
  BY <1>1, <1>2, <1>3, StepContacts
<1>5. Legal'
  <2> DEFINE n == Len(records)
  <2>1. n \in Nat /\ n <= MaxTicks /\ Len(records') = n + 1 /\ DOMAIN records' = 1..(n + 1)
    BY <1>1, StepRecord
  <2>2. records # << >> /\ world' = world
    BY DEF Step
  <2>3. records' # << >> /\ Len(records') <= MaxTicks + 1
    <3> HIDE DEF n
    <3> QED BY <2>1, LimitsAssumption
  <2> QED BY <1>1, <2>2, <2>3 DEF Legal
<1> QED BY <1>2, <1>3, <1>4, <1>5 DEF ScoringInvariant

LEMMA InitInvariant == Init => ScoringInvariant
<1> SUFFICES ASSUME Init PROVE ScoringInvariant
  OBVIOUS
<1>1. /\ world \in Scenarios /\ kind \in Controllers /\ braking = FALSE
      /\ records = << >> /\ reason = ""
  BY DEF Init
<1>2. records \in Seq(Record) /\ Len(records) = 0 /\ DOMAIN records = {}
  <2>1. << >> \in Seq(Record) /\ Len(<< >>) = 0 /\ DOMAIN << >> = {}
    OBVIOUS
  <2>2. records = << >>
    BY <1>1
  <2> QED BY <2>1, <2>2, Zenon
<1>3. Legal
  <2>1. Len(records) = 0 /\ MaxTicks \in Nat
    BY <1>2, LimitsAssumption
  <2>2. Len(records) <= MaxTicks + 1
    BY <2>1
  <2> QED BY <1>1, <2>2 DEF Legal, Ends
<1>4. TypeOK
  BY <1>1, <1>2 DEF TypeOK
<1>5. Recorded /\ Planned /\ FarEnough /\ EndsAtContact /\ ContactAtEnd
  BY <1>1, <1>2 DEF Recorded, Planned, FarEnough, EndsAtContact, ContactAtEnd
<1> QED BY <1>3, <1>4, <1>5 DEF ScoringInvariant

LEMMA Inductive == ScoringInvariant /\ [Next]_vars => ScoringInvariant'
<1> SUFFICES ASSUME ScoringInvariant, [Next]_vars PROVE ScoringInvariant'
  OBVIOUS
<1>1. CASE Begin
  BY <1>1, BeginInvariant
<1>2. CASE Step
  BY <1>2, StepInvariant
<1>3. CASE Exhausted
  BY <1>3, EndInvariant DEF Exhausted
<1>4. CASE Cancel
  BY <1>4, EndInvariant DEF Cancel
<1>5. CASE UNCHANGED vars
  <2>1. TypeOK' /\ Legal' /\ Recorded' /\ Planned'
    BY <1>5 DEF vars, ScoringInvariant, TypeOK, Legal, Recorded, Planned
  <2>2. FarEnough' /\ EndsAtContact' /\ ContactAtEnd'
    BY <1>5 DEF vars, ScoringInvariant, FarEnough, Stoppable, Clear, EndsAtContact, ContactAtEnd
  <2> QED BY <2>1, <2>2 DEF ScoringInvariant
<1> QED BY <1>1, <1>2, <1>3, <1>4, <1>5 DEF Next

LEMMA Invariance == Spec => []ScoringInvariant
BY Inductive, InitInvariant, PTL DEF Spec

-----------------------------------------------------------------------------
(* What the metrics make of the records.                                   *)

\* Bodies that overlap at a record touched in the interval that ends there.
LEMMA OverlapIsTouch ==
    ASSUME TypeOK, NEW i \in DOMAIN records, NEW j \in DOMAIN world.obstacles,
           Overlaps(records, world, i, j)
    PROVE  Touches(records, world, i, j)
<1>1. world.length \in Int /\ world.obstacles[j].length \in Int
  BY WorldIsScenario DEF Scenario, Body
<1>2. \A k \in DOMAIN records : End(records, k, j) \in Int
  <2>1. ASSUME NEW k \in DOMAIN records
        PROVE  End(records, k, j) \in Int
    <3>1. records[k] \in Record /\ records[k].obstacles[j] \in Body
      BY RecordTypes
    <3>2. records[k].position \in Int /\ records[k].obstacles[j].position \in Int
      BY <3>1 DEF Record, Body
    <3> QED BY <3>2 DEF End
  <2> QED BY <2>1
<1>3. Start(records, i, j) \in Int /\ End(records, i, j) \in Int
  <2>1. (IF i = 1 THEN 1 ELSE i - 1) \in DOMAIN records
    <3>1. records \in Seq(Record)
      BY DEF TypeOK
    <3> QED BY <3>1
  <2> QED BY <1>2, <2>1 DEF Start
<1> QED BY <1>1, <1>3 DEF Overlaps, Touches, Contact, Least, Most

LEMMA EpisodesAreFinite ==
    ASSUME TypeOK
    PROVE  IsFiniteSet(Episodes(records, world))
<1>1. Len(records) \in Nat /\ DOMAIN records = 1..Len(records)
  <2>1. records \in Seq(Record)
    BY DEF TypeOK
  <2> QED BY <2>1
<1>2. IsFiniteSet(1..Len(records)) /\ IsFiniteSet(1..Len(world.obstacles))
  BY <1>1, WorldIsScenario, FS_Interval
<1>3. IsFiniteSet((DOMAIN records) \X (DOMAIN world.obstacles))
  BY <1>1, <1>2, WorldIsScenario, FS_Product
<1>4. Episodes(records, world) \in SUBSET ((DOMAIN records) \X (DOMAIN world.obstacles))
  BY DEF Episodes
<1> QED BY <1>3, <1>4, FS_Subset

\* The episodes of an ended run: one for every obstacle met at the last record.
LEMMA EpisodesAtEnd ==
    ASSUME ScoringInvariant, reason \in Ends
    PROVE  /\ reason # "collision" => Episodes(records, world) = {}
           /\ reason = "collision" =>
                /\ \E j \in DOMAIN world.obstacles : <<Len(records), j>> \in Episodes(records, world)
                /\ \A e \in Episodes(records, world) : e[1] = Len(records)
<1> DEFINE n == Len(records)
<1>1. TypeOK /\ EndsAtContact /\ ContactAtEnd
  BY DEF ScoringInvariant
<1>2. n \in Nat /\ DOMAIN records = 1..n /\ (records # << >> => n >= 1)
  <2>1. records \in Seq(Record)
    BY <1>1 DEF TypeOK
  <2> QED BY <2>1
<1> HIDE DEF n
<1>3. \A e \in Episodes(records, world) : reason = "collision" /\ e[1] = n
  BY <1>1 DEF Episodes, EndsAtContact, n
<1>4. ASSUME reason = "collision"
      PROVE  \E j \in DOMAIN world.obstacles : <<n, j>> \in Episodes(records, world)
  <2>1. PICK j \in DOMAIN world.obstacles : Touches(records, world, n, j)
    BY <1>1, <1>4 DEF ContactAtEnd, n
  <2>2. n \in DOMAIN records /\ n >= 1
    BY <1>1, <1>2, <1>4 DEF ContactAtEnd
  <2>3. ASSUME n > 1
        PROVE  ~Overlaps(records, world, n - 1, j)
    <3>1. n - 1 \in DOMAIN records /\ n - 1 # n
      BY <1>2, <2>3
    <3>2. ~Touches(records, world, n - 1, j)
      BY <1>1, <3>1 DEF EndsAtContact, n
    <3> QED BY <1>1, <3>1, <3>2, OverlapIsTouch
  <2> QED BY <2>1, <2>2, <2>3 DEF Episodes
<1> QED BY <1>3, <1>4 DEF n

\* The metrics count no collision exactly in the runs that had none.
LEMMA CountIsVerdict ==
    ASSUME ScoringInvariant, reason \in Ends
    PROVE  /\ CollisionCount(records, world) \in Nat
           /\ CollisionCount(records, world) = 0 <=> reason # "collision"
<1> DEFINE E == Episodes(records, world)
<1>1. IsFiniteSet(E)
  BY EpisodesAreFinite DEF ScoringInvariant
<1>2. Cardinality(E) \in Nat /\ (Cardinality(E) = 0 <=> E = {})
  BY <1>1, FS_CardinalityType, FS_EmptySet
<1>3. E = {} <=> reason # "collision"
  BY EpisodesAtEnd
<1> QED BY <1>2, <1>3 DEF CollisionCount

LEMMA InvariantAgrees ==
    ASSUME ScoringInvariant
    PROVE  ScoreAgrees
<1> SUFFICES ASSUME reason \in Ends
             PROVE  /\ Accepts(records, world, TickMS)
                    /\ reason = "collision" <=> CollisionCount(records, world) > 0
                    /\ reason = "collision" => ContactTick(records, world) = Len(records) - 1
  BY DEF ScoreAgrees
<1>1. Accepts(records, world, TickMS)
  BY DEF ScoringInvariant, Legal, Recorded
<1>2. reason = "collision" <=> CollisionCount(records, world) > 0
  BY CountIsVerdict
<1>3. ASSUME reason = "collision"
      PROVE  ContactTick(records, world) = Len(records) - 1
  <2> DEFINE n == Len(records)
             First1(t) == /\ \E j \in DOMAIN world.obstacles : <<t + 1, j>> \in Episodes(records, world)
                          /\ \A e \in Episodes(records, world) : e[1] >= t + 1
  <2>1. /\ \E j \in DOMAIN world.obstacles : <<n, j>> \in Episodes(records, world)
        /\ \A e \in Episodes(records, world) : e[1] = n
    BY <1>3, EpisodesAtEnd
  <2>2. n \in Nat /\ n >= 1
    <3>1. records \in Seq(Record) /\ records # << >>
      BY <1>3 DEF ScoringInvariant, TypeOK, ContactAtEnd
    <3> QED BY <3>1
  <2> HIDE DEF n
  <2>3. n - 1 \in 0..n /\ (n - 1) + 1 = n
    BY <2>2
  <2>4. First1(n - 1)
    BY <2>1, <2>2, <2>3
  <2>5. ASSUME NEW t \in 0..n, First1(t)
        PROVE  t = n - 1
    <3>1. PICK j \in DOMAIN world.obstacles : <<t + 1, j>> \in Episodes(records, world)
      BY <2>5
    <3>2. <<t + 1, j>>[1] = n
      BY <2>1, <3>1
    <3> QED BY <2>2, <3>2
  <2>6. ContactTick(records, world) = CHOOSE t \in 0..n : First1(t)
    BY DEF ContactTick, n
  <2> HIDE DEF First1
  <2>7. ContactTick(records, world) \in 0..n /\ First1(ContactTick(records, world))
    BY <2>3, <2>4, <2>6
  <2> QED BY <2>5, <2>7 DEF n
<1> QED BY <1>1, <1>2, <1>3

\* A run that ended short of contact knows whether it is at its goal.
Verdict ==
    reason \in {"goal_reached", "stopped"} =>
        (reason = "goal_reached" <=> records[Len(records)].position >= world.goal)

LEMMA VerdictInvariance == Spec => []Verdict
<1>1. Init => Verdict
  BY DEF Init, Verdict
<1>2. ScoringInvariant /\ Verdict /\ [Next]_vars => Verdict'
  <2> SUFFICES ASSUME ScoringInvariant, Verdict, [Next]_vars PROVE Verdict'
    OBVIOUS
  <2>1. CASE Begin
    <3>1. CASE ~Valid(world)
      BY <2>1, <3>1 DEF Begin, Verdict
    <3>2. CASE Valid(world)
      <4>1. PICK r : r = First(world)
        OBVIOUS
      <4>2. records' = <<r>> /\ reason' = Terminal(r, r, world) /\ world' = world
        BY <2>1, <3>2, <4>1 DEF Begin
      <4>3. records'[Len(records')] = r
        BY <4>2
      <4> QED BY <4>2, <4>3 DEF Verdict, Terminal
    <3> QED BY <3>1, <3>2
  <2>2. CASE Step
    <3> DEFINE n == Len(records)
    <3>1. /\ Len(records') = n + 1 /\ world' = world
          /\ reason' = Terminal(records[n], records'[n + 1], world)
      BY <2>2, StepRecord DEF ScoringInvariant, Step
    <3> QED BY <3>1 DEF Verdict, Terminal
  <2>3. CASE Exhausted
    BY <2>3 DEF Exhausted, Verdict
  <2>4. CASE Cancel
    BY <2>4 DEF Cancel, Verdict
  <2>5. CASE UNCHANGED vars
    BY <2>5 DEF vars, Verdict
  <2> QED BY <2>1, <2>2, <2>3, <2>4, <2>5 DEF Next
<1> QED BY <1>1, <1>2, Invariance, PTL DEF Spec

\* Progress is whole exactly when the vehicle is at its goal or beyond.
LEMMA WholeIsGoal ==
    ASSUME ScoringInvariant, records # << >>, world.goal > world.start
    PROVE  /\ Progress(records, world) \in 0..Whole
           /\ Progress(records, world) >= Whole
                <=> records[Len(records)].position >= world.goal
<1> DEFINE n == Len(records)
           a == records[n].position - world.start
           d == world.goal - world.start
           q == Quot(a * Whole, d)
<1>1. records[n].position \in Int
  <2>1. records \in Seq(Record)
    BY DEF ScoringInvariant, TypeOK
  <2>2. records[n] \in Record
    BY <2>1
  <2> QED BY <2>2 DEF Record
<1>2. world.start \in Int /\ world.goal \in Int /\ Whole \in Nat \ {0}
  BY WorldIsScenario, WholeAssumption DEF ScoringInvariant, Scenario
<1>3. a \in Int /\ d \in Nat \ {0}
  BY <1>1, <1>2
<1>4. q >= Whole <=> a >= d
  <2> HIDE DEF a, d
  <2> QED BY <1>2, <1>3, FullShare
<1>5. q \in Int
  <2> HIDE DEF a, d
  <2>1. a * Whole \in Int
    BY <1>2, <1>3
  <2> DEFINE x == a * Whole
  <2> HIDE DEF x
  <2>2. x \in Int => Quot(x, d) \in Int
    BY <1>3 DEF Quot
  <2> QED BY <2>1, <2>2 DEF x
<1>6. Progress(records, world) = Least(Whole, Most(0, q))
  BY DEF Progress
<1>7. a >= d <=> records[n].position >= world.goal
  BY <1>1, <1>2
<1> HIDE DEF q, a, d, n
<1> QED BY <1>2, <1>4, <1>5, <1>6, <1>7 DEF Least, Most, n

LEMMA InvariantPasses ==
    ASSUME ScoringInvariant, Verdict
    PROVE  PassMeansGoal
<1> SUFFICES ASSUME reason \in Ends, NEW limits \in Limits
             PROVE  /\ limits.minimum_ppm = Whole /\ Status(records, world, limits) = "PASS" =>
                         reason = "goal_reached"
                    /\ reason = "goal_reached" => ProgressFlag(records, world, limits) # "fail"
  BY DEF PassMeansGoal
<1>1. records # << >> /\ limits.minimum_ppm \in 0..Whole /\ Whole \in Nat
  BY WholeAssumption DEF ScoringInvariant, Legal
<1>2. world.goal \in Int /\ world.start \in Int
  BY WorldIsScenario DEF ScoringInvariant, Scenario
<1>3. world.goal - world.start <= 0 <=> ~(world.goal > world.start)
  BY <1>2
<1>4. ASSUME limits.minimum_ppm = Whole, Status(records, world, limits) = "PASS"
      PROVE  reason = "goal_reached"
  <2>1. /\ ProgressFlag(records, world, limits) \notin {"fail", "none"}
        /\ CollisionFlag(records, world) # "fail"
    BY <1>4 DEF Status, Flags
  <2>2. world.goal > world.start /\ Progress(records, world) >= Whole
    BY <1>3, <1>4, <2>1 DEF ProgressFlag, Flag
  <2>3. records[Len(records)].position >= world.goal
    BY <1>1, <2>2, WholeIsGoal
  <2>4. reason # "collision"
    BY <2>1, CountIsVerdict DEF CollisionFlag, Flag
  <2> QED BY <2>3, <2>4 DEF Verdict, Ends
<1>5. ASSUME reason = "goal_reached"
      PROVE  ProgressFlag(records, world, limits) # "fail"
  <2>1. CASE ~(world.goal > world.start)
    BY <1>3, <2>1 DEF ProgressFlag
  <2>2. CASE world.goal > world.start
    <3>1. Progress(records, world) >= Whole /\ Progress(records, world) \in 0..Whole
      BY <1>1, <1>5, <2>2, WholeIsGoal DEF Verdict
    <3>2. Progress(records, world) >= limits.minimum_ppm
      BY <1>1, <3>1
    <3> QED BY <1>3, <2>2, <3>2 DEF ProgressFlag, Flag
  <2> QED BY <2>1, <2>2
<1> QED BY <1>4, <1>5

-----------------------------------------------------------------------------
(* Clearance.                                                              *)

LEMMA LeastExists ==
    ASSUME NEW T \in SUBSET Nat, T # {}
    PROVE  \E x \in T : \A y \in T : x <= y
<1>1. PICK x \in T : \A y \in T : ~ (<<y, x>> \in OpToRel(<, Nat))
  BY NatLessThanWellFounded, WFMin
<1>2. ASSUME NEW y \in T PROVE ~(y < x)
  <2>1. <<y, x>> \notin OpToRel(<, Nat)
    BY <1>1
  <2> QED BY <2>1 DEF OpToRel
<1> QED BY <1>2

\* Between edges, a distance is zero exactly when the bodies overlap or touch.
LEMMA ZeroIsOverlap ==
    ASSUME NEW end \in Int, NEW vehicle \in Int, NEW obstacle \in Int
    PROVE  /\ Distance(2, end, vehicle, obstacle) \in Nat
           /\ Distance(2, end, vehicle, obstacle) = 0 <=> Contact(end, end, vehicle, obstacle)
BY DEF Distance, Most, Least, Contact

\* Either version measures a natural number.
LEMMA DistanceIsNat ==
    ASSUME NEW version \in {1, 2}, NEW end \in Int, NEW vehicle \in Int, NEW obstacle \in Int
    PROVE  Distance(version, end, vehicle, obstacle) \in Nat
BY DEF Distance, Most

\* A run with obstacles has a least gap: one that some record shows.
LEMMA LeastGap ==
    ASSUME ScoringInvariant, reason \in Ends, world.obstacles # << >>, NEW version \in {1, 2}
    PROVE  /\ Gaps(records, world, version) \subseteq Nat
           /\ MinimumGap(records, world, version) \in Gaps(records, world, version)
           /\ \A h \in Gaps(records, world, version) : MinimumGap(records, world, version) <= h
<1> DEFINE far(i, j) == Distance(version, End(records, i, j), world.length, world.obstacles[j].length)
           G == Gaps(records, world, version)
           m == MinimumGap(records, world, version)
<1>1. TypeOK
  BY DEF ScoringInvariant
<1>2. ASSUME NEW i \in DOMAIN records, NEW j \in DOMAIN world.obstacles
      PROVE  far(i, j) \in Nat
  <2>1. PICK o : o = records[i].obstacles[j]
    OBVIOUS
  <2>2. o \in Body /\ records[i] \in Record
    BY <1>1, <1>2, <2>1, RecordTypes
  <2>3. End(records, i, j) \in Int
    BY <2>1, <2>2 DEF End, Body, Record
  <2>4. world.length \in Int /\ world.obstacles[j].length \in Int
    BY <1>1, WorldIsScenario DEF Scenario, Body
  <2> QED BY <2>3, <2>4, DistanceIsNat
<1>3. G = {far(i, j) : i \in DOMAIN records, j \in DOMAIN world.obstacles}
  BY DEF Gaps
<1>4. 1 \in DOMAIN records /\ 1 \in DOMAIN world.obstacles
  <2>1. records \in Seq(Record) /\ records # << >>
    BY DEF ScoringInvariant, TypeOK, Legal
  <2>2. world.obstacles \in Seq(Body)
    BY <1>1, WorldIsScenario DEF Scenario
  <2>3. \A S : \A s \in Seq(S) : s # << >> => 1 \in DOMAIN s
    <3>1. SUFFICES ASSUME NEW S, NEW s \in Seq(S), s # << >>
                   PROVE  1 \in DOMAIN s
      OBVIOUS
    <3>2. Len(s) \in Nat /\ DOMAIN s = 1..Len(s) /\ Len(s) # 0
      BY <3>1
    <3> QED BY <3>2
  <2> QED BY <2>1, <2>2, <2>3
<1> HIDE DEF far
<1>5. G \in SUBSET Nat /\ G # {}
  <2>1. far(1, 1) \in G
    BY <1>3, <1>4
  <2>2. \A g \in G : g \in Nat
    BY <1>2, <1>3
  <2> QED BY <2>1, <2>2
<1>6. m = CHOOSE g \in G : \A h \in G : g <= h
  BY DEF MinimumGap
<1> HIDE DEF G, m
<1>7. m \in G /\ \A h \in G : m <= h
  BY <1>5, <1>6, LeastExists
<1> QED BY <1>5, <1>7 DEF G, m

LEMMA InvariantClears ==
    ASSUME ScoringInvariant
    PROVE  GapMeansClear
<1> SUFFICES ASSUME reason \in Ends, world.obstacles # << >>
             PROVE  MinimumGap(records, world, 2) = 0
                    <=> \E i \in DOMAIN records, j \in DOMAIN world.obstacles :
                           Overlaps(records, world, i, j)
  BY DEF GapMeansClear
<1> DEFINE far(i, j) == Distance(2, End(records, i, j), world.length, world.obstacles[j].length)
           G == Gaps(records, world, 2)
           m == MinimumGap(records, world, 2)
<1>1. ASSUME NEW i \in DOMAIN records, NEW j \in DOMAIN world.obstacles
      PROVE  far(i, j) = 0 <=> Overlaps(records, world, i, j)
  <2>1. PICK o : o = records[i].obstacles[j]
    OBVIOUS
  <2>2. o \in Body /\ records[i] \in Record
    BY <2>1, RecordTypes DEF ScoringInvariant
  <2>3. End(records, i, j) \in Int
    BY <2>1, <2>2 DEF End, Body, Record
  <2>4. world.length \in Int /\ world.obstacles[j].length \in Int
    BY WorldIsScenario DEF ScoringInvariant, Scenario, Body
  <2> QED BY <2>3, <2>4, ZeroIsOverlap DEF Overlaps
<1>2. G = {far(i, j) : i \in DOMAIN records, j \in DOMAIN world.obstacles}
  BY DEF Gaps
<1>3. G \subseteq Nat /\ m \in G /\ \A h \in G : m <= h
  BY LeastGap
<1> HIDE DEF far, G, m
<1>4. m = 0 <=> 0 \in G
  BY <1>3
<1>5. 0 \in G <=> \E i \in DOMAIN records, j \in DOMAIN world.obstacles : far(i, j) = 0
  BY <1>2
<1> QED BY <1>1, <1>4, <1>5 DEF m

-----------------------------------------------------------------------------
(* The result document.                                                    *)

\* The evidence of the least gap is a tick of the recording.
LEMMA GapTickExists ==
    ASSUME ScoringInvariant, reason \in Ends, world.obstacles # << >>, NEW version \in {1, 2}
    PROVE  GapTick(records, world, version) \in 0..(Len(records) - 1)
<1> DEFINE n == Len(records)
           m == MinimumGap(records, world, version)
           least(t) == \E j \in DOMAIN world.obstacles :
                         Distance(version, End(records, t + 1, j), world.length,
                                  world.obstacles[j].length) = m
           T == {t \in 0..(n - 1) : least(t)}
<1>1. PICK i \in DOMAIN records, j \in DOMAIN world.obstacles :
        Distance(version, End(records, i, j), world.length, world.obstacles[j].length) = m
  BY LeastGap DEF Gaps
<1>2. n \in Nat /\ i \in 1..n
  <2>1. records \in Seq(Record)
    BY DEF ScoringInvariant, TypeOK
  <2> QED BY <1>1, <2>1
<1>3. i - 1 \in 0..(n - 1) /\ (i - 1) + 1 = i
  BY <1>2
<1>4. i - 1 \in T
  BY <1>1, <1>3
<1>5. GapTick(records, world, version) =
        CHOOSE t \in 0..(n - 1) : least(t) /\ \A s \in 0..(t - 1) : ~least(s)
  BY DEF GapTick
<1> HIDE DEF least, n
<1>6. T \in SUBSET Nat /\ T # {}
  BY <1>4
<1>7. PICK x \in T : \A y \in T : x <= y
  BY <1>6, LeastExists
<1>8. ASSUME NEW s \in 0..(x - 1)
      PROVE  ~least(s)
  <2>1. x \in 0..(n - 1)
    BY <1>7
  <2>2. s \in 0..(n - 1) /\ ~(x <= s)
    BY <1>2, <2>1
  <2> QED BY <1>7, <2>2
<1>9. x \in 0..(n - 1) /\ least(x)
  BY <1>7
<1> QED BY <1>5, <1>8, <1>9 DEF n

\* A flag says whether a condition holds.
Means(flag, condition) == flag \in BOOLEAN /\ (flag <=> condition)

\* What both validators ask of a metric.
Fits(m, name, template, n) ==
    /\ Contract!CheckMetric(m, name, template, n)
    /\ Reader!MetricConsistent(m, name, template[name], n)
    /\ m.value = Null <=> m.pass = Null
    /\ m.pass \in BOOLEAN \cup {Null}
    /\ m \in Metric

LEMMA MeasuredFits ==
    ASSUME NEW name \in Contract!MetricNames, NEW template, NEW n, NEW m \in Metric,
           m.unit = Contract!Unit[name], m.version = template[name].version,
           \A t \in m.evidence_ticks : t < n,
           \/ m.value = Null /\ m.pass = Null /\ m.evidence_ticks = {}
           \/ /\ m.value \in Int /\ Contract!InRange(name, m.value)
              /\ Means(m.pass, Contract!Meets(name, m.value, template))
    PROVE  Fits(m, name, template, n)
<1>1. Contract!Unit[name] = Reader!Unit[name]
  BY DEF Contract!Unit, Reader!Unit
<1>2. CASE m.value = Null
  <2>1. m.value = Null /\ m.pass = Null /\ m.evidence_ticks = {}
    BY <1>2, NullAssumption
  <2>2. Contract!CheckMetric(m, name, template, n)
    BY <2>1 DEF Contract!CheckMetric, Contract!Cited
  <2>3. Reader!MetricConsistent(m, name, template[name], n)
    BY <2>1, <1>1 DEF Reader!MetricConsistent
  <2> QED BY <2>1, <2>2, <2>3 DEF Fits
<1>3. CASE m.value # Null
  <2>1. /\ Contract!Meets(name, m.value, template) \in BOOLEAN
        /\ Contract!Meets(name, m.value, template) <=> Reader!PassFlag(name, m.value, template[name])
        /\ Reader!PassFlag(name, m.value, template[name]) \in BOOLEAN
    BY DEF Contract!Meets, Contract!MetricNames, Reader!PassFlag
  <2>2. m.pass = Contract!Meets(name, m.value, template) /\ m.pass \in BOOLEAN
    BY <1>3, <2>1 DEF Means
  <2>3. m.pass # Null
    BY <2>2, NullAssumption
  <2>4. Contract!CheckMetric(m, name, template, n)
    BY <1>3, <2>2, <2>3 DEF Contract!CheckMetric, Contract!Cited
  <2>5. ~Reader!Implausible(name, m.value)
    BY <1>3, WholeAssumption DEF Reader!Implausible, Contract!InRange
  <2>6. Reader!MetricConsistent(m, name, template[name], n)
    BY <1>1, <1>3, <2>1, <2>2, <2>5 DEF Reader!MetricConsistent
  <2> QED BY <1>3, <2>2, <2>3, <2>4, <2>6 DEF Fits
<1> QED BY <1>2, <1>3

\* Values in range, evidence within the recording: the report fits its template.
LEMMA ReportFits ==
    ASSUME NEW limits \in Limits, NEW n \in Nat \ {0}, NEW c \in Nat,
           NEW contacts \in SUBSET (0..(n - 1)),
           NEW gap \in Int \cup {Null}, NEW gapTick \in 0..(n - 1),
           NEW p \in (0..Whole) \cup {Null}, NEW status
    PROVE  LET m == Contract!Reported(Template(limits), c, contacts, gap, gapTick, p, n - 1)
               d == [status |-> status, analysis_template |-> Template(limits), metrics |-> m]
           IN status = Contract!Overall(m) =>
                Contract!CheckMetrics(d, n) /\ Reader!MetricsConsistent(d, n)
<1> DEFINE template == Template(limits)
           m == Contract!Reported(template, c, contacts, gap, gapTick, p, n - 1)
           d == [status |-> status, analysis_template |-> template, metrics |-> m]
<1> SUFFICES ASSUME status = Contract!Overall(m)
             PROVE  Contract!CheckMetrics(d, n) /\ Reader!MetricsConsistent(d, n)
  OBVIOUS
<1>1. Whole \in Nat /\ limits.version \in {1, 2} /\ limits.minimum_mm \in Int /\ limits.minimum_ppm \in Int
  BY WholeAssumption
<1>2. Fits(m["collision_count"], "collision_count", template, n)
  <2> DEFINE name == "collision_count"
  <2>1. template[name].version = 1 /\ Contract!Unit[name] = "count" /\ name \in Contract!MetricNames
    BY DEF Template, Contract!Unit, Contract!MetricNames
  <2>2. PICK pass : Means(pass, c = 0)
    BY DEF Means
  <2>3. (c = 0) = pass
    BY <2>2 DEF Means
  <2>4. m[name] = Contract!Measured(c, 1, "count", pass, contacts)
    BY <2>3 DEF Contract!Reported
  <2>5. pass \in BOOLEAN /\ c \in Int
    BY <2>2 DEF Means
  <2>6. Means(pass, Contract!Meets(name, c, template)) /\ Contract!InRange(name, c)
    BY <2>2 DEF Contract!Meets, Contract!InRange, Means
  <2>7. contacts \in SUBSET Nat /\ \A t \in contacts : t < n
    OBVIOUS
  <2> HIDE DEF m, template, name
  <2>8. /\ m[name] \in Metric /\ m[name].value = c /\ m[name].version = 1
        /\ m[name].unit = "count" /\ m[name].pass = pass /\ m[name].evidence_ticks = contacts
    BY <2>4, <2>7, <2>5 DEF Metric, Contract!Measured
  <2>9. Fits(m[name], name, template, n)
    BY <2>1, <2>6, <2>7, <2>8, <2>5, MeasuredFits
  <2> QED BY <2>9 DEF name
<1>3. Fits(m["minimum_obstacle_gap"], "minimum_obstacle_gap", template, n)
  <2> DEFINE name == "minimum_obstacle_gap"
             least == template[name].minimum_mm
  <2>1. /\ template[name].version \in {1, 2} /\ Contract!Unit[name] = "mm"
        /\ name \in Contract!MetricNames /\ least \in Int
    BY <1>1 DEF Template, Contract!Unit, Contract!MetricNames
  <2>2. CASE gap = Null
    <3>1. m[name] = Contract!Measured(Null, template[name].version, "mm", Null, {})
      BY <2>2 DEF Contract!Reported, Contract!Unavailable
    <3> HIDE DEF m, template, name
    <3>2. /\ m[name] \in Metric /\ m[name].value = Null /\ m[name].version = template[name].version
          /\ m[name].unit = "mm" /\ m[name].pass = Null /\ m[name].evidence_ticks = {}
      BY <2>1, <3>1 DEF Metric, Contract!Measured
    <3>3. Fits(m[name], name, template, n)
      BY <2>1, <3>2, MeasuredFits
    <3> QED BY <3>3 DEF name
  <2>3. CASE gap # Null
    <3>1. m[name] = Contract!Measured(gap, template[name].version, "mm", gap >= least, {gapTick})
      BY <2>3 DEF Contract!Reported
    <3>2. gap \in Int /\ {gapTick} \in SUBSET Nat /\ \A t \in {gapTick} : t < n
      BY <2>3
    <3>3. PICK pass : Means(pass, gap >= least)
      BY DEF Means
    <3>4. Means(pass, Contract!Meets(name, gap, template)) /\ Contract!InRange(name, gap)
      BY <3>3 DEF Contract!Meets, Contract!InRange, Means
    <3>5. (gap >= least) = pass /\ pass \in BOOLEAN
      BY <2>1, <3>2, <3>3 DEF Means
    <3> HIDE DEF m, template, name, least
    <3>6. m[name] = Contract!Measured(gap, template[name].version, "mm", pass, {gapTick})
      BY <3>1, <3>5
    <3>7. /\ m[name] \in Metric /\ m[name].value = gap /\ m[name].version = template[name].version
          /\ m[name].unit = "mm" /\ m[name].pass = pass /\ m[name].evidence_ticks = {gapTick}
      BY <2>1, <3>2, <3>5, <3>6 DEF Metric, Contract!Measured
    <3>8. Fits(m[name], name, template, n)
      BY <2>1, <3>2, <3>4, <3>7, MeasuredFits
    <3> QED BY <3>8 DEF name
  <2> QED BY <2>2, <2>3
<1>4. Fits(m["goal_progress"], "goal_progress", template, n)
  <2> DEFINE name == "goal_progress"
             least == template[name].minimum_ppm
  <2>1. /\ template[name].version = 1 /\ Contract!Unit[name] = "ppm"
        /\ name \in Contract!MetricNames /\ least \in Int
    BY <1>1 DEF Template, Contract!Unit, Contract!MetricNames
  <2>2. CASE p = Null
    <3>1. m[name] = Contract!Measured(Null, 1, "ppm", Null, {})
      BY <2>2 DEF Contract!Reported, Contract!Unavailable
    <3> HIDE DEF m, template, name
    <3>2. /\ m[name] \in Metric /\ m[name].value = Null /\ m[name].version = 1
          /\ m[name].unit = "ppm" /\ m[name].pass = Null /\ m[name].evidence_ticks = {}
      BY <2>1, <3>1 DEF Metric, Contract!Measured
    <3>3. Fits(m[name], name, template, n)
      BY <2>1, <3>2, MeasuredFits
    <3> QED BY <3>3 DEF name
  <2>3. CASE p # Null
    <3>1. m[name] = Contract!Measured(p, 1, "ppm", p >= least, {n - 1})
      BY <2>3 DEF Contract!Reported
    <3>2. p \in Int /\ p \in 0..Whole /\ {n - 1} \in SUBSET Nat /\ \A t \in {n - 1} : t < n
      BY <1>1, <2>3
    <3>3. PICK pass : Means(pass, p >= least)
      BY DEF Means
    <3>4. Means(pass, Contract!Meets(name, p, template)) /\ Contract!InRange(name, p)
      BY <3>2, <3>3 DEF Contract!Meets, Contract!InRange, Means
    <3>5. (p >= least) = pass /\ pass \in BOOLEAN
      BY <2>1, <3>2, <3>3 DEF Means
    <3> HIDE DEF m, template, name, least
    <3>6. m[name] = Contract!Measured(p, 1, "ppm", pass, {n - 1})
      BY <3>1, <3>5
    <3>7. /\ m[name] \in Metric /\ m[name].value = p /\ m[name].version = 1
          /\ m[name].unit = "ppm" /\ m[name].pass = pass /\ m[name].evidence_ticks = {n - 1}
      BY <2>1, <3>2, <3>5, <3>6 DEF Metric, Contract!Measured
    <3>8. Fits(m[name], name, template, n)
      BY <2>1, <3>2, <3>4, <3>7, MeasuredFits
    <3> QED BY <3>8 DEF name
  <2> QED BY <2>2, <2>3
<1>5. m # Null
  <2>1. m \in Scores
    BY <1>2, <1>3, <1>4 DEF Fits, Contract!Reported, Scores
  <2> QED BY <2>1, NullAssumption
<1>6. /\ d.status = Contract!Overall(m) /\ d.metrics = m /\ d.analysis_template = template
  OBVIOUS
<1> HIDE DEF m, template, d
<1>7. \A name \in Contract!MetricNames : Fits(m[name], name, template, n)
  BY <1>2, <1>3, <1>4 DEF Contract!MetricNames
<1>8. Contract!Overall(m) = Reader!StatusOf(m)
  BY <1>7, NullAssumption
     DEF Fits, Contract!Overall, Reader!StatusOf, Contract!MetricNames, Reader!MetricNames
<1>9. Reader!MetricNames = Contract!MetricNames
  BY DEF Contract!MetricNames, Reader!MetricNames
<1> QED BY <1>5, <1>6, <1>7, <1>8, <1>9 DEF Fits, Contract!CheckMetrics, Reader!MetricsConsistent

\* The status that Score writes is the one both validators compute.
LEMMA StatusIsOverall ==
    ASSUME ScoringInvariant, reason \in Ends, NEW limits \in Limits
    PROVE  Status(records, world, limits) = Contract!Overall(Evaluated(records, world, limits))
<1> DEFINE m == Evaluated(records, world, limits)
           gap == IF world.obstacles = << >> THEN Null ELSE MinimumGap(records, world, limits.version)
           p == IF world.goal - world.start <= 0 THEN Null ELSE Progress(records, world)
<1>1. DOMAIN world.obstacles = {} <=> world.obstacles = << >>
  <2>1. world.obstacles \in Seq(Body)
    BY WorldIsScenario DEF ScoringInvariant, Scenario
  <2>2. \A s \in Seq(Body) : DOMAIN s = {} <=> s = << >>
    OBVIOUS
  <2> QED BY <2>1, <2>2
<1>2. world.obstacles # << >> => MinimumGap(records, world, limits.version) \in Int
  BY LeastGap, WholeAssumption
<1>3. ~(world.goal - world.start <= 0) => Progress(records, world) \in Int
  BY WholeIsGoal, WorldIsScenario, WholeAssumption DEF ScoringInvariant, Legal, Scenario
<1>4. /\ Means(m["collision_count"].pass, CollisionCount(records, world) = 0)
      /\ gap = Null => m["minimum_obstacle_gap"].pass = Null
      /\ gap # Null => Means(m["minimum_obstacle_gap"].pass, gap >= limits.minimum_mm)
      /\ p = Null => m["goal_progress"].pass = Null
      /\ p # Null => Means(m["goal_progress"].pass, p >= limits.minimum_ppm)
  <2>1. PICK zero : Means(zero, CollisionCount(records, world) = 0)
    BY DEF Means
  <2>2. PICK wide : Means(wide, gap >= limits.minimum_mm)
    BY DEF Means
  <2>3. PICK far : Means(far, p >= limits.minimum_ppm)
    BY DEF Means
  <2>4. (CollisionCount(records, world) = 0) = zero
    BY <2>1 DEF Means
  <2>5. gap # Null => (gap >= limits.minimum_mm) = wide
    <3> HIDE DEF gap
    <3> QED BY <1>2, <2>2, WholeAssumption DEF Means, gap
  <2>6. p # Null => (p >= limits.minimum_ppm) = far
    <3> HIDE DEF p
    <3> QED BY <1>3, <2>3, WholeAssumption DEF Means, p
  <2>7. /\ m["collision_count"] =
             Contract!Measured(CollisionCount(records, world), 1, "count", zero,
                               Contacts(records, world))
        /\ gap = Null => m["minimum_obstacle_gap"] = Contract!Unavailable(limits.version, "mm")
        /\ gap # Null => \E ticks : m["minimum_obstacle_gap"] =
                           Contract!Measured(gap, limits.version, "mm", wide, ticks)
        /\ p = Null => m["goal_progress"] = Contract!Unavailable(1, "ppm")
        /\ p # Null => \E ticks : m["goal_progress"] = Contract!Measured(p, 1, "ppm", far, ticks)
    <3> HIDE DEF gap, p
    <3>1. m = Contract!Reported(Template(limits), CollisionCount(records, world),
                Contacts(records, world), gap,
                IF world.obstacles = << >> THEN 0 ELSE GapTick(records, world, limits.version), p,
                Len(records) - 1)
      BY DEF Evaluated, gap, p
    <3> HIDE DEF m
    <3> QED BY <2>4, <2>5, <2>6, <3>1 DEF Contract!Reported, Template
  <2> HIDE DEF m, gap, p
  <2>8. /\ m["collision_count"].pass = zero
        /\ gap = Null => m["minimum_obstacle_gap"].pass = Null
        /\ gap # Null => m["minimum_obstacle_gap"].pass = wide
        /\ p = Null => m["goal_progress"].pass = Null
        /\ p # Null => m["goal_progress"].pass = far
    <3>1. \A value, version, unit, pass, ticks :
            Contract!Measured(value, version, unit, pass, ticks).pass = pass
      BY DEF Contract!Measured
    <3>2. \A version, unit : Contract!Unavailable(version, unit).pass = Null
      BY DEF Contract!Unavailable, Contract!Measured
    <3> QED BY <2>7, <3>1, <3>2
  <2> QED BY <2>1, <2>2, <2>3, <2>8
<1>5. CollisionFlag(records, world) = "fail" <=> m["collision_count"].pass = FALSE
  BY <1>4 DEF CollisionFlag, Flag, Means
<1>6. /\ GapFlag(records, world, limits) = "fail" <=> m["minimum_obstacle_gap"].pass = FALSE
      /\ GapFlag(records, world, limits) = "none" <=> m["minimum_obstacle_gap"].pass = Null
  <2>1. CASE world.obstacles = << >>
    BY <1>4, <1>1, <2>1, NullAssumption DEF GapFlag
  <2>2. CASE world.obstacles # << >>
    <3>1. gap # Null /\ gap = MinimumGap(records, world, limits.version)
      BY <1>2, <2>2, NullAssumption
    <3> HIDE DEF gap, m
    <3>2. /\ GapFlag(records, world, limits) = Flag(gap >= limits.minimum_mm)
          /\ Means(m["minimum_obstacle_gap"].pass, gap >= limits.minimum_mm)
      BY <1>4, <1>1, <2>2, <3>1 DEF GapFlag
    <3> QED BY <3>2, NullAssumption DEF Flag, Means
  <2> QED BY <2>1, <2>2
<1>7. /\ ProgressFlag(records, world, limits) = "fail" <=> m["goal_progress"].pass = FALSE
      /\ ProgressFlag(records, world, limits) = "none" <=> m["goal_progress"].pass = Null
  <2>1. CASE world.goal - world.start <= 0
    BY <1>4, <2>1, NullAssumption DEF ProgressFlag
  <2>2. CASE ~(world.goal - world.start <= 0)
    <3>1. p # Null /\ p = Progress(records, world)
      BY <1>3, <2>2, NullAssumption
    <3> HIDE DEF p, m
    <3>2. /\ ProgressFlag(records, world, limits) = Flag(p >= limits.minimum_ppm)
          /\ Means(m["goal_progress"].pass, p >= limits.minimum_ppm)
      BY <1>4, <2>2, <3>1 DEF ProgressFlag
    <3> QED BY <3>2, NullAssumption DEF Flag, Means
  <2> QED BY <2>1, <2>2
<1>8. CollisionFlag(records, world) # "none" /\ m["collision_count"].pass # Null
  BY <1>4, NullAssumption DEF CollisionFlag, Flag, Means
<1> HIDE DEF m
<1> QED BY <1>5, <1>6, <1>7, <1>8 DEF Status, Flags, Contract!Overall, Contract!MetricNames, m

LEMMA InvariantPublishable ==
    ASSUME ScoringInvariant
    PROVE  ScorePublishable
<1> SUFFICES ASSUME reason \in Ends, NEW limits \in Limits
             PROVE  LET d == Scored(records, world, limits)
                    IN /\ Contract!CheckMetrics(d, Len(records))
                       /\ Reader!MetricsConsistent(d, Len(records))
  BY DEF ScorePublishable
<1> DEFINE n == Len(records)
           c == CollisionCount(records, world)
           contacts == Contacts(records, world)
           gap == IF world.obstacles = << >> THEN Null ELSE MinimumGap(records, world, limits.version)
           gapTick == IF world.obstacles = << >> THEN 0 ELSE GapTick(records, world, limits.version)
           p == IF world.goal - world.start <= 0 THEN Null ELSE Progress(records, world)
           m == Evaluated(records, world, limits)
<1>1. n \in Nat \ {0} /\ records # << >>
  <2>1. records \in Seq(Record) /\ records # << >>
    BY DEF ScoringInvariant, TypeOK, Legal
  <2> QED BY <2>1
<1>2. c \in Nat
  BY CountIsVerdict
<1>3. contacts \in SUBSET (0..(n - 1))
  <2>1. c # 0 => ContactTick(records, world) = n - 1
    BY <1>2, InvariantAgrees DEF ScoreAgrees
  <2>2. n - 1 \in 0..(n - 1)
    BY <1>1
  <2> HIDE DEF n
  <2> QED BY <2>1, <2>2 DEF Contacts
<1>4. gap \in Int \cup {Null}
  BY LeastGap, WholeAssumption
<1>5. gapTick \in 0..(n - 1)
  <2>1. 0 \in 0..(n - 1)
    BY <1>1
  <2>2. world.obstacles # << >> => GapTick(records, world, limits.version) \in 0..(n - 1)
    BY GapTickExists, WholeAssumption
  <2> QED BY <2>1, <2>2
<1>6. p \in (0..Whole) \cup {Null}
  BY <1>1, WholeIsGoal, WorldIsScenario DEF ScoringInvariant, Scenario
<1>7. m = Contract!Reported(Template(limits), c, contacts, gap, gapTick, p, n - 1)
  BY DEF Evaluated
<1>8. Scored(records, world, limits) =
        [status |-> Status(records, world, limits), analysis_template |-> Template(limits),
         metrics |-> m]
  BY DEF Scored
<1>9. Status(records, world, limits) = Contract!Overall(m)
  BY StatusIsOverall
<1> HIDE DEF c, contacts, gap, gapTick, p, n, m
<1> QED BY <1>1, <1>2, <1>3, <1>4, <1>5, <1>6, <1>7, <1>8, <1>9, ReportFits DEF n

-----------------------------------------------------------------------------
(* Nothing overflows.                                                      *)

LEMMA InvariantBounds == ScoringInvariant => WithinLimits
<1> SUFFICES ASSUME ScoringInvariant, NEW i \in DOMAIN records
             PROVE  /\ InRange(records[i].position)
                    /\ \A j \in DOMAIN records[i].obstacles :
                         InRange(records[i].obstacles[j].position)
  BY DEF WithinLimits
<1>1. i \in Nat /\ i <= MaxTicks + 1
  <2>1. i \in Nat /\ i <= Len(records) /\ Len(records) <= MaxTicks + 1
    BY RecordTypes DEF ScoringInvariant, Legal
  <2>2. Len(records) \in Nat
    <3>1. records \in Seq(Record)
      BY DEF ScoringInvariant, TypeOK
    <3> QED BY <3>1
  <2> QED BY <2>1, <2>2, LimitsAssumption
<1>2. /\ Kept(records[i].position, records[i].speed, i)
      /\ \A j \in DOMAIN records[i].obstacles :
           Kept(records[i].obstacles[j].position, records[i].obstacles[j].speed, i)
  BY DEF ScoringInvariant, Planned
<1> QED BY <1>1, <1>2, BudgetBounds

\* The vehicle is never faster than it started.
Slowed == \A i \in DOMAIN records : records[i].speed <= world.speed
LEMMA SpeedInvariance == Spec => []Slowed
<1>1. Init => Slowed
  <2> SUFFICES ASSUME Init PROVE Slowed
    OBVIOUS
  <2>1. records = << >>
    BY DEF Init
  <2>2. DOMAIN << >> = {}
    OBVIOUS
  <2> QED BY <2>1, <2>2 DEF Slowed
<1>2. ScoringInvariant /\ Slowed /\ [Next]_vars => Slowed'
  <2> SUFFICES ASSUME ScoringInvariant, Slowed, [Next]_vars PROVE Slowed'
    OBVIOUS
  <2>1. TypeOK /\ Planned /\ ScoringInvariant'
    BY Inductive DEF ScoringInvariant
  <2>2. CASE Begin
    <3>1. CASE Valid(world)
      <4>1. world' = world /\ records' = <<First(world)>> /\ First(world).speed = world.speed
        BY <2>2, <3>1 DEF Begin, First
      <4>2. world.speed \in Int
        BY <2>1, WorldIsScenario DEF Scenario
      <4> QED BY <4>1, <4>2 DEF Slowed
    <3>2. CASE ~Valid(world)
      BY <2>2, <3>2 DEF Begin, Slowed
    <3> QED BY <3>1, <3>2
  <2>3. CASE Step
    <3> DEFINE n == Len(records)
    <3>1. /\ n \in Nat /\ n >= 1 /\ DOMAIN records' = 1..(n + 1) /\ DOMAIN records = 1..n
          /\ \A i \in 1..n : records'[i] = records[i]
          /\ records'[n + 1].speed <= records[n].speed /\ records' \in Seq(Record)
      BY <2>1, <2>3, StepRecord
    <3>2. world' = world
      BY <2>3 DEF Step
    <3> HIDE DEF n
    <3>3. records'[n + 1].speed <= world.speed
      <4>1. records'[n + 1].speed \in Nat
        <5>1. records'[n + 1] \in Record
          BY <3>1
        <5> QED BY <5>1 DEF Record
      <4>2. records[n].speed \in Nat /\ records[n].speed <= world.speed
        BY <2>1, <3>1 DEF Slowed, Planned, Kept
      <4>3. world.speed \in Int
        BY <2>1, WorldIsScenario DEF Scenario
      <4> QED BY <3>1, <4>1, <4>2, <4>3
    <3>4. ASSUME NEW i \in 1..(n + 1)
          PROVE  records'[i].speed <= world.speed
      <4>1. CASE i \in 1..n
        BY <3>1, <4>1 DEF Slowed
      <4>2. CASE i = n + 1
        BY <3>3, <4>2
      <4> QED BY <3>1, <4>1, <4>2
    <3> QED BY <3>1, <3>2, <3>4 DEF Slowed
  <2>4. CASE Exhausted \/ Cancel \/ UNCHANGED vars
    BY <2>4 DEF Exhausted, Cancel, vars, Slowed
  <2> QED BY <2>2, <2>3, <2>4 DEF Next
<1> QED BY <1>1, <1>2, Invariance, PTL DEF Spec

LEMMA CeilGrows ==
    ASSUME NEW a \in Nat, NEW b \in Nat, a <= b
    PROVE  /\ CeilDiv(a, 1000) \in Nat /\ CeilDiv(a, 1000) <= CeilDiv(b, 1000)
           /\ CeilDiv(a, 2 * Braking) \in Nat /\ CeilDiv(a, 2 * Braking) <= CeilDiv(b, 2 * Braking)
BY DEF CeilDiv, Braking

LEMMA LimitsAreNat ==
    /\ MaxInt \in Nat /\ MaxPosition \in Nat /\ MaxLength \in Nat /\ MaxSpeed \in Nat
    /\ TickMS \in Nat /\ MaxTicks \in Nat /\ Whole \in Nat
BY MaxIntAssumption, LimitsAssumption, WholeAssumption

\* The bound on the coast path does not overflow itself.
LEMMA CoastFits ==
    ASSUME NEW position, NEW speed, NEW length, Bounded(position, speed, length)
    PROVE  CoastTerms(position, speed) \subseteq Word
<1> DEFINE a == speed * TickMS * MaxTicks
           b == MaxSpeed * TickMS * MaxTicks
<1>1. speed \in Nat /\ speed <= MaxSpeed /\ position \in (-MaxPosition)..MaxPosition
  BY LimitsAreNat DEF Bounded
<1>2. /\ speed * TickMS \in Nat /\ MaxSpeed * TickMS \in Nat
      /\ speed * TickMS <= MaxSpeed * TickMS
  BY <1>1, LimitsAreNat, ProductIsNat, ProductGrows
<1>3. a \in Nat /\ b \in Nat /\ a <= b
  BY <1>2, LimitsAreNat, ProductIsNat, ProductGrows
<1>4. b + MaxPosition <= MaxInt
  BY MaxIntAssumption DEF Holds
<1>5. CoastTerms(position, speed) = {a, position + Quot(a, 1000)}
  BY DEF CoastTerms
<1> HIDE DEF a, b
<1>6. Quot(a, 1000) \in Nat /\ Quot(a, 1000) <= a
  BY <1>3, Thousandth
<1>7. a \in Word /\ position + Quot(a, 1000) \in Word
  BY <1>1, <1>3, <1>4, <1>6, LimitsAreNat DEF Word
<1> QED BY <1>5, <1>7

LEMMA ShareFits ==
    ASSUME NEW d \in Int, NEW p \in Nat, NEW w \in Nat, -p <= d, d <= p
    PROVE  d * w \in Int /\ -(p * w) <= d * w /\ d * w <= p * w
<1>1. CASE d >= 0
  BY <1>1, ProductGrows, ProductIsNat
<1>2. CASE d < 0
  <2>1. -d \in Nat /\ -d <= p /\ d * w = -((-d) * w)
    BY <1>2
  <2>2. (-d) * w <= p * w /\ (-d) * w \in Nat /\ p * w \in Nat
    BY <2>1, ProductGrows, ProductIsNat
  <2> QED BY <2>1, <2>2
<1> QED BY <1>1, <1>2

\* What is computed of a vehicle no faster than the limit and within range.
LEMMA VehicleFits ==
    ASSUME NEW r \in Record, InRange(r.position), r.speed <= MaxSpeed,
           InRange(world.start)
    PROVE  VehicleTerms(r) \subseteq Word
<1> DEFINE v == r.speed * r.speed
           s == MaxSpeed * MaxSpeed
           a == r.speed * TickMS
           b == MaxSpeed * TickMS
           d == r.position - world.start
<1>1. r.speed \in Nat
  BY DEF Record
<1>2. v \in Nat /\ s \in Nat /\ v <= s
  <2>1. r.speed * r.speed <= MaxSpeed * r.speed /\ r.speed * MaxSpeed <= MaxSpeed * MaxSpeed
    BY <1>1, LimitsAreNat, ProductGrows
  <2>2. MaxSpeed * r.speed = r.speed * MaxSpeed
    BY <1>1, LimitsAreNat
  <2> DEFINE x == r.speed * MaxSpeed
  <2>3. v \in Nat /\ s \in Nat /\ x \in Nat /\ v <= x /\ x <= s
    BY <1>1, <2>1, <2>2, LimitsAreNat, ProductIsNat
  <2> HIDE DEF v, s, x
  <2> QED BY <2>3
<1>3. a \in Nat /\ b \in Nat /\ a <= b
  BY <1>1, LimitsAreNat, ProductIsNat, ProductGrows
<1>4. /\ s + 2 * Braking <= MaxInt
      /\ CeilDiv(s, 2 * Braking) + CeilDiv(b, 1000) + SafetyGap <= MaxInt
      /\ b + 1000 <= MaxInt
      /\ 2 * MaxPosition * Whole <= MaxInt
  BY MaxIntAssumption DEF Holds
<1>5. d * Whole \in Word
  <2>1. d \in Int /\ 2 * MaxPosition \in Nat /\ -(2 * MaxPosition) <= d /\ d <= 2 * MaxPosition
    BY LimitsAreNat DEF InRange
  <2> DEFINE x == d * Whole
             y == 2 * MaxPosition * Whole
  <2>2. x \in Int /\ -y <= x /\ x <= y /\ y \in Nat
    <3> HIDE DEF d
    <3> QED BY <2>1, LimitsAreNat, ShareFits, ProductIsNat
  <2>3. y <= MaxInt
    BY <1>4
  <2> HIDE DEF x, y
  <2>4. x \in Word
    BY <2>2, <2>3, LimitsAreNat DEF Word
  <2> QED BY <2>4 DEF x
<1>6. VehicleTerms(r) = {v + 2 * Braking - 1, a + 999, Threshold("baseline", r.speed), d * Whole}
  BY DEF VehicleTerms
<1>7. Threshold("baseline", r.speed) = CeilDiv(v, 2 * Braking) + CeilDiv(a, 1000) + SafetyGap
  BY DEF Threshold, StoppingDistance
<1> HIDE DEF v, s, a, b, d
<1>8. v + 2 * Braking - 1 \in Word /\ a + 999 \in Word
  BY <1>2, <1>3, <1>4, LimitsAreNat DEF Word, Braking
<1>9. Threshold("baseline", r.speed) \in Word
  <2> DEFINE c == CeilDiv(v, 2 * Braking)
             e == CeilDiv(s, 2 * Braking)
             f == CeilDiv(a, 1000)
             g == CeilDiv(b, 1000)
  <2>1. c \in Nat /\ c <= e /\ e \in Nat /\ f \in Nat /\ f <= g /\ g \in Nat
    BY <1>2, <1>3, CeilGrows
  <2>2. e + g + SafetyGap <= MaxInt /\ Threshold("baseline", r.speed) = c + f + SafetyGap
    BY <1>4, <1>7
  <2> HIDE DEF c, e, f, g
  <2> QED BY <2>1, <2>2, LimitsAreNat DEF Word, SafetyGap
<1> QED BY <1>5, <1>6, <1>8, <1>9

LEMMA ObstacleFits ==
    ASSUME NEW r, InRange(r.position), NEW o, InRange(o.position), Bounded(0, o.speed, o.length),
           world.length \in 1..MaxLength
    PROVE  ObstacleTerms(r, o) \subseteq Word
<1> DEFINE a == o.speed * TickMS
           b == MaxSpeed * TickMS
           end == o.position - r.position
<1>1. o.speed \in Nat /\ o.speed <= MaxSpeed /\ o.length \in 1..MaxLength
  BY LimitsAreNat DEF Bounded
<1>2. a \in Nat /\ b \in Nat /\ a <= b
  BY <1>1, LimitsAreNat, ProductIsNat, ProductGrows
<1>3. b + 1000 <= MaxInt /\ 4 * MaxPosition + 2 * MaxLength <= MaxInt
  BY MaxIntAssumption DEF Holds
<1>4. ObstacleTerms(r, o) = {a, o.position + o.length, end - world.length, -end - o.length,
                             2 * end + o.length - world.length}
  BY DEF ObstacleTerms
<1>5. a \in Word
  <2> HIDE DEF a, b
  <2> QED BY <1>2, <1>3, LimitsAreNat DEF Word
<1>6. /\ o.position + o.length \in Word /\ end - world.length \in Word
      /\ -end - o.length \in Word /\ 2 * end + o.length - world.length \in Word
  BY <1>1, <1>3, LimitsAreNat DEF Word, InRange
<1> HIDE DEF a, end
<1> QED BY <1>4, <1>5, <1>6

LEMMA InvariantFits == ScoringInvariant /\ Slowed => NoOverflow
<1> SUFFICES ASSUME ScoringInvariant, Slowed PROVE NoOverflow
  OBVIOUS
<1>1. TypeOK /\ Legal /\ Recorded /\ WithinLimits
  BY InvariantBounds DEF ScoringInvariant
<1>2. ASSUME records # << >>
      PROVE  /\ VehicleTerms(Current) \subseteq Word
             /\ \A j \in DOMAIN Current.obstacles :
                  ObstacleTerms(Current, Current.obstacles[j]) \subseteq Word
  <2> DEFINE n == Len(records)
  <2>1. n \in DOMAIN records /\ Current = records[n]
    <3>1. records \in Seq(Record)
      BY <1>1 DEF TypeOK
    <3> QED BY <3>1, <1>2 DEF Current
  <2> HIDE DEF n
  <2>2. PICK r : r = records[n]
    OBVIOUS
  <2>3. /\ r \in Record /\ r.speed <= world.speed /\ InRange(r.position)
        /\ DOMAIN r.obstacles = DOMAIN world.obstacles
        /\ \A j \in DOMAIN r.obstacles : InRange(r.obstacles[j].position)
    BY <1>1, <2>1, <2>2, RecordTypes DEF Slowed, WithinLimits
  <2>4. /\ Bounded(world.start, world.speed, world.length)
        /\ \A j \in DOMAIN world.obstacles :
             Bounded(world.obstacles[j].position, world.obstacles[j].speed,
                     world.obstacles[j].length)
    BY <1>1, <1>2 DEF Legal, Valid, ValidBody
  <2>5. VehicleTerms(r) \subseteq Word
    <3>1. world.speed <= MaxSpeed /\ world.speed \in Int /\ InRange(world.start)
      BY <2>4 DEF Bounded, InRange
    <3>2. r.speed <= MaxSpeed
      <4>1. r.speed \in Nat
        BY <2>3 DEF Record
      <4> QED BY <4>1, <2>3, <3>1, LimitsAreNat
    <3> QED BY <2>3, <3>1, <3>2, VehicleFits
  <2>6. ASSUME NEW j \in DOMAIN r.obstacles
        PROVE  ObstacleTerms(r, r.obstacles[j]) \subseteq Word
    <3>1. PICK o : o = r.obstacles[j]
      OBVIOUS
    <3>2. o.length = world.obstacles[j].length /\ o.speed = world.obstacles[j].speed
      BY <1>1, <2>1, <2>2, <2>3, <3>1, LengthsStay
    <3>3. Bounded(0, o.speed, o.length) /\ world.length \in 1..MaxLength
      BY <2>3, <2>4, <3>2, LimitsAreNat DEF Bounded
    <3>4. InRange(o.position)
      BY <2>3, <3>1
    <3> QED BY <2>3, <3>1, <3>3, <3>4, ObstacleFits
  <2> QED BY <2>1, <2>2, <2>5, <2>6
<1> QED BY <1>1, <1>2, CoastFits DEF NoOverflow

\* What the limits of the code multiply to.
LEMMA CodeProducts ==
    ASSUME NEW t \in Nat, t <= 1000, NEW n \in Nat, n <= 100000
    PROVE  /\ 1000000 * t \in Nat /\ 1000000 * t <= 1000000000
           /\ 1000000 * t * n \in Nat /\ 1000000 * t * n <= 100000000000000
<1>. DEFINE a == 1000000 * t
<1>1. a \in Nat /\ a <= 1000000000
  OBVIOUS
<1>. HIDE DEF a
<1>. DEFINE x == a * n
<1>2. x \in Nat /\ x <= 1000000000 * n
  BY <1>1, ProductGrows, ProductIsNat
<1>. HIDE DEF x
<1>3. x <= 100000000000000
  BY <1>2
<1>. QED
  BY <1>1, <1>2, <1>3 DEF a, x

LEMMA CodeCeilings ==
    ASSUME NEW a \in Nat, a <= 1000000000
    PROVE  /\ CeilDiv(a, 1000) \in Int /\ CeilDiv(a, 1000) <= 1000001
           /\ CeilDiv(1000000000000, 8000) \in Int /\ CeilDiv(1000000000000, 8000) <= 125000001
BY DEF CeilDiv

-----------------------------------------------------------------------------
(* The theorems.                                                           *)

\* validateBody's bound on the coast path and the controllers' refusal ever to
\* speed up keep every recorded position within the limits.
THEOREM LimitsHold == Spec => []WithinLimits
BY InvariantBounds, Invariance, PTL

\* simulator.go:143: a machine integer that holds what the limits multiply to
\* holds all that is computed of a world and of every record of its run.
THEOREM NothingOverflows == Spec => []NoOverflow
BY InvariantFits, Invariance, SpeedInvariance, PTL

\* The limits of the code multiply to no more than 2 * 10^15 (a full position
\* range times 10^6 in the progress of metrics.Evaluate), whatever tick length and
\* step budget validate accepts: an int64, which goes up to 9 * 10^18, holds it.
THEOREM CodeLimitsFit ==
    ASSUME NEW maxInt \in Nat, maxInt >= 2000000000000000,
           NEW tickMS \in Nat, tickMS <= 1000, NEW maxTicks \in Nat, maxTicks <= 100000
    PROVE  Holds(maxInt, tickMS, maxTicks, 1000000000, 1000000, 1000000, 1000000)
<1>. DEFINE a == 1000000 * tickMS
            x == 1000000 * tickMS * maxTicks
<1>1. a \in Nat /\ a <= 1000000000 /\ x \in Nat /\ x <= 100000000000000
  BY CodeProducts
<1>2. Holds(maxInt, tickMS, maxTicks, 1000000000, 1000000, 1000000, 1000000) <=>
        /\ 1000000 * 1000000 + 2 * Braking <= maxInt
        /\ CeilDiv(1000000 * 1000000, 2 * Braking) + CeilDiv(a, 1000) + SafetyGap <= maxInt
        /\ a + 1000 <= maxInt
        /\ x + 1000000000 <= maxInt
        /\ 2 * 1000000000 * 1000000 <= maxInt
        /\ 4 * 1000000000 + 2 * 1000000 <= maxInt
  BY DEF Holds
<1>. HIDE DEF x, a
<1>3. /\ 1000000 * 1000000 = 1000000000000 /\ 2 * Braking = 8000 /\ SafetyGap = 2000
      /\ 2 * 1000000000 * 1000000 = 2000000000000000
  BY DEF Braking, SafetyGap
<1>4. /\ CeilDiv(a, 1000) \in Int /\ CeilDiv(a, 1000) <= 1000001
      /\ CeilDiv(1000000000000, 8000) \in Int /\ CeilDiv(1000000000000, 8000) <= 125000001
  BY <1>1, CodeCeilings
<1>. QED
  BY <1>1, <1>2, <1>3, <1>4

\* controller.acceleration, baseline: at every record the vehicle could still
\* stop short of each obstacle that it could stop short of at the start.
THEOREM BaselineIsSafe == Spec => []BaselineStops
<1>1. ScoringInvariant => BaselineStops
  <2> SUFFICES ASSUME ScoringInvariant, kind = "baseline", reason = "collision",
                      \A j \in DOMAIN world.obstacles : Clear(world.obstacles[j])
               PROVE  FALSE
    BY DEF BaselineStops
  <2> DEFINE n == Len(records)
  <2>1. TypeOK /\ FarEnough /\ Recorded
    BY DEF ScoringInvariant
  <2>2. PICK j \in DOMAIN world.obstacles : Touches(records, world, n, j)
    BY DEF ScoringInvariant, ContactAtEnd
  <2>3. n \in Nat /\ n >= 1 /\ DOMAIN records = 1..n
    <3>1. records # << >> /\ records \in Seq(Record)
      BY DEF ScoringInvariant, TypeOK, ContactAtEnd
    <3> QED BY <3>1
  <2> HIDE DEF n
  <2>4. ASSUME NEW i \in 1..n
        PROVE  End(records, i, j) \in Int /\ End(records, i, j) > world.length
    <3>1. PICK o : o = records[i].obstacles[j]
      OBVIOUS
    <3>2. o \in Body /\ records[i] \in Record
      BY <2>1, <2>3, <3>1, RecordTypes
    <3>3. o.position \in Int /\ records[i].position \in Int /\ records[i].speed \in Nat
      BY <3>2 DEF Body, Record
    <3>4. world.length \in Int
      BY <2>1, WorldIsScenario DEF Scenario
    <3>5. Enough(o.position - records[i].position - world.length, records[i].speed)
      BY <2>1, <2>3, <3>1 DEF FarEnough, Stoppable
    <3> DEFINE gap == o.position - records[i].position - world.length
               p == records[i].speed * records[i].speed
    <3>6. p \in Nat /\ gap \in Int
      BY <3>3, <3>4, ProductIsNat
    <3>7. 8000 * gap > p
      BY <3>5 DEF Enough
    <3> HIDE DEF p, gap
    <3>8. gap > 0
      BY <3>6, <3>7
    <3> QED BY <3>1, <3>3, <3>4, <3>8 DEF gap, End
  <2>5. /\ Start(records, n, j) \in Int /\ Start(records, n, j) > world.length
        /\ End(records, n, j) \in Int /\ End(records, n, j) > world.length
    <3>1. (IF n = 1 THEN 1 ELSE n - 1) \in 1..n /\ n \in 1..n
      BY <2>3
    <3> QED BY <2>4, <3>1 DEF Start
  <2>6. Least(Start(records, n, j), End(records, n, j)) <= world.length
    BY <2>2 DEF Touches, Contact
  <2>7. world.length \in Int
    BY <2>1, WorldIsScenario DEF Scenario
  <2> QED BY <2>5, <2>6, <2>7 DEF Least
<1> QED BY <1>1, Invariance, PTL

\* terminal and metrics.Evaluate: the metrics accept every trace and find its
\* collision, once per obstacle met, at the tick where the simulator stopped.
THEOREM ScoresAgree == Spec => []ScoreAgrees
BY InvariantAgrees, Invariance, PTL

\* metrics.Evaluate: a run that must make full progress passes only at its
\* goal, whatever truncated division does to the share.
THEOREM PassIsGoal == Spec => []PassMeansGoal
BY InvariantPasses, Invariance, VerdictInvariance, PTL

\* Distance, version two: over a whole recording the least clearance is zero
\* exactly if the vehicle overlapped or touched an obstacle at some boundary.
THEOREM GapIsClear == Spec => []GapMeansClear
BY InvariantClears, Invariance, PTL

\* Evaluate, checkMetrics, metricsConsistent: the score of every run that ended
\* passes both validators, whatever was recorded and whatever limits apply.
THEOREM ScoresPublish == Spec => []ScorePublishable
BY InvariantPublishable, Invariance, PTL

\* Every variable keeps its type.
THEOREM ScoringTypes == Spec => []TypeOK
<1>1. ScoringInvariant => TypeOK
  BY DEF ScoringInvariant
<1> QED BY <1>1, Invariance, PTL
=============================================================================
