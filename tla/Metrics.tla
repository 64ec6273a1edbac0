------------------------------ MODULE Metrics ------------------------------
(***************************************************************************)
(* internal/metrics: the scores of a recording, from its records alone. A  *)
(* recording is a sequence of records with a position, a speed and the     *)
(* obstacles; w is the scenario of the run it belongs to.                  *)
(***************************************************************************)
EXTENDS Geometry, Sequences, FiniteSets

CONSTANT Whole  \* complete progress, 1_000_000 in the code

\* The obstacle's rear edge as seen from the vehicle's, at a record and at the
\* record before it.
End(recording, i, j) == recording[i].obstacles[j].position - recording[i].position
Start(recording, i, j) == End(recording, IF i = 1 THEN 1 ELSE i - 1, j)

\* The recording starts in the scenario and its obstacles keep their motion.
Accepts(recording, w, tickMS) ==
    /\ recording # << >>
    /\ recording[1].position = w.start /\ recording[1].speed = w.speed
    /\ recording[1].obstacles = w.obstacles
    /\ \A i \in DOMAIN recording : LET os == recording[i].obstacles IN
         /\ DOMAIN os = DOMAIN w.obstacles
         /\ \A j \in DOMAIN os :
              /\ os[j].length = w.obstacles[j].length /\ os[j].speed = w.obstacles[j].speed
              /\ i > 1 => os[j].position = recording[i - 1].obstacles[j].position
                                           + Quot(os[j].speed * tickMS, 1000)

-----------------------------------------------------------------------------
Touches(recording, w, i, j) ==
    Contact(Start(recording, i, j), End(recording, i, j), w.length, w.obstacles[j].length)
\* active: the bodies overlap at the boundary, so the next contact is the same.
Overlaps(recording, w, i, j) ==
    Contact(End(recording, i, j), End(recording, i, j), w.length, w.obstacles[j].length)

Episodes(recording, w) ==
    {e \in (DOMAIN recording) \X (DOMAIN w.obstacles) :
        /\ Touches(recording, w, e[1], e[2])
        /\ e[1] > 1 => ~Overlaps(recording, w, e[1] - 1, e[2])}
CollisionCount(recording, w) == Cardinality(Episodes(recording, w))

\* The tick of the first episode.
ContactTick(recording, w) ==
    CHOOSE t \in 0..Len(recording) :
        /\ \E j \in DOMAIN w.obstacles : <<t + 1, j>> \in Episodes(recording, w)
        /\ \A e \in Episodes(recording, w) : e[1] >= t + 1

-----------------------------------------------------------------------------
\* Version 1 measures between centres, version 2 between edges.
Ahead(version, end, vehicle, obstacle) == Most(0, end - vehicle)
Distance(version, end, vehicle, obstacle) ==
    IF version = 2 THEN Most(0, Most(end - vehicle, -end - obstacle))
    ELSE Most(2 * end + obstacle - vehicle, -(2 * end + obstacle - vehicle)) \div 2
Gaps(recording, w, version) ==
    {Distance(version, End(recording, i, j), w.length, w.obstacles[j].length) :
        i \in DOMAIN recording, j \in DOMAIN w.obstacles}
MinimumGap(recording, w, version) ==
    CHOOSE g \in Gaps(recording, w, version) :
        \A h \in Gaps(recording, w, version) : g <= h

RoundedUp(recording, w) ==
    Least(Whole, Most(0, Quot((recording[Len(recording)].position - w.start) * Whole
                              + w.goal - w.start - 1, w.goal - w.start)))
Overshot(recording, w) ==
    Most(0, Quot((recording[Len(recording)].position - w.start) * Whole, w.goal - w.start))
Progress(recording, w) ==
    Least(Whole, Most(0, Quot((recording[Len(recording)].position - w.start) * Whole,
                              w.goal - w.start)))

-----------------------------------------------------------------------------
(* Pass flags; a metric may be unavailable.                                *)

Flag(passes) == IF passes THEN "pass" ELSE "fail"
CollisionFlag(recording, w) == Flag(CollisionCount(recording, w) = 0)
GapFlag(recording, w, limits) ==
    IF DOMAIN w.obstacles = {} THEN "none"
    ELSE Flag(MinimumGap(recording, w, limits.version) >= limits.minimum_mm)
ProgressFlag(recording, w, limits) ==
    IF w.goal - w.start <= 0 THEN "none"
    ELSE Flag(Progress(recording, w) >= limits.minimum_ppm)

Flags(recording, w, limits) ==
    {CollisionFlag(recording, w), GapFlag(recording, w, limits),
     ProgressFlag(recording, w, limits)}
Status(recording, w, limits) ==
    LET flags == Flags(recording, w, limits)
    IN IF "fail" \in flags THEN "FAIL" ELSE IF "none" \in flags THEN "WARN" ELSE "PASS"
=============================================================================
