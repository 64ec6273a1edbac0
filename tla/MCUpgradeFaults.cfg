SPECIFICATION Spec
CONSTANTS
    run = run
    torn = torn
    o1 = o1
    o2 = o2
    o3 = o3
    Nobody = nobody
    None = none
    Job <- MCJob
    Docs = {run}
    Invalid = {}
    Openers = {o1}
    MaxOutages = 0
CHECK_DEADLOCK FALSE
PROPERTY ArmsUnstarted
