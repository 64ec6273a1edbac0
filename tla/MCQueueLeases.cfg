SPECIFICATION Spec
CONSTANTS
    run = run
    clash = clash
    again = again
    rival = rival
    s1 = s1
    s2 = s2
    a1 = a1
    a2 = a2
    p1 = p1
    p2 = p2
    NoLease = NoLease
    Job <- MCJob
    Path <- MCPath
    Docs = {run}
    SimulationWorkers = {s1, s2}
    AnalysisWorkers = {a1, a2}
    Publishers = {p1, p2}
    Verdicts = {"PASS"}
    RunFailures = {"simulation_timeout"}
    Failures = {2}
    Cycle = 2
    MaxDisruptions = 2
CHECK_DEADLOCK FALSE
SYMMETRY Interchangeable
INVARIANTS InsertionOrder InputsPublished FaultsHappen
PROPERTIES FollowsLifecycle SupersededIsHarmless LiveLeaseStays
