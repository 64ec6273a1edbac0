SPECIFICATION Spec

CONSTANTS
    job = job
    first = first
    second = second
    done = done
    again = again
    torn = torn
    r1 = r1
    r2 = r2
    Free = free
    Docs <- MCDocs
    Event <- MCEvent
    Result <- MCResult
    Uses <- MCUses
    Own <- MCOwn
    Malformed = {torn}
    Commands = {r1, r2}
    May <- Apart
    MaxFaults = 0

INVARIANT SeenIndexed
