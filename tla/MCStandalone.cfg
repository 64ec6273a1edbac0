SPECIFICATION Spec
CONSTANTS
    p1 = p1
    p2 = p2
    p3 = p3
    q = q
    j = j
    rival = rival
    x = x
    y = y
    Nobody = Nobody
    Free = Free
    Processes = {p1, p2, p3, q}
    Jobs = {j, rival}
    Broken = {}
    Times = {1, 2}
    Mode <- ModeOf
    Execution <- ExecutionOf
    JobId <- JobIdOf
    Recording <- RecordingOf
    Job <- JobOf
SYMMETRY Interchangeable
INVARIANTS OneMode Repaired OutcomeStable OneScore
PROPERTIES FailureIsFinal RefusedForCause
