SPECIFICATION FairPoolSpec
CONSTANTS
    run = run
    clash = clash
    again = again
    rival = rival
    s1 = s1
    s2 = s2
    a1 = a1
    a2 = a2
    p1 = p1
    p2 = p2
    whole = whole
    part = part
    NoLease = NoLease
    Job <- MCJob
    Path <- MCPath
    Docs = {run}
    SimulationWorkers = {s1}
    AnalysisWorkers = {a1, a2}
    Publishers = {p1, p2}
    Verdicts = {"PASS"}
    RunFailures = {}
    Failures = {}
    Cycle = 2
    MaxDisruptions = 10
    Processes = {whole, part}
    Members <- MCMembers
    Flusher <- MCFlusher
    Drains = {whole, part}
    Upsets = 2
CHECK_DEADLOCK FALSE
INVARIANTS GracefulRelease DrainedDelivered
PROPERTIES Stops
