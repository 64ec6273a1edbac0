SPECIFICATION Spec
CONSTANTS
    p1 = p1
    p2 = p2
    p3 = p3
    q = q
    j = j
    rival = rival
    x = x
    y = y
    Nobody = Nobody
    Free = Free
    Processes = {p1}
    Jobs = {j}
    Broken = {}
    Times = {1, 2}
    Mode <- ModeOf
    Execution <- ExecutionOf
    JobId <- JobIdOf
    Recording <- RecordingOf
    Job <- JobOf
INVARIANTS RetryKeepsOutcome
