SPECIFICATION FairDispatchSpec
CONSTANTS
    run = run
    clash = clash
    again = again
    rival = rival
    s1 = s1
    s2 = s2
    a1 = a1
    a2 = a2
    p1 = p1
    p2 = p2
    NoLease = NoLease
    Job <- MCJob
    Path <- MCPath
    Docs = {run, rival, clash, again}
    SimulationWorkers = {s1}
    AnalysisWorkers = {a1}
    Publishers = {p1}
    Verdicts = {"PASS"}
    RunFailures = {"simulation_timeout"}
    Failures = {}
    Cycle = 2
    MaxDisruptions = 1
CHECK_DEADLOCK FALSE
INVARIANTS Unique HeadPublishable LowestServed
PROPERTIES Completion
