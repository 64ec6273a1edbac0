SPECIFICATION FairSpec
CONSTANTS
    run = run
    torn = torn
    o1 = o1
    o2 = o2
    o3 = o3
    Nobody = nobody
    None = none
    Job <- MCJob
    Docs = {run, torn}
    Invalid = {torn}
    Openers = {o1, o2}
    MaxOutages = 1
CHECK_DEADLOCK FALSE
INVARIANTS Opened OpensForCause
PROPERTIES Opens
