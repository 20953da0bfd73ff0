\* The batch of the caller fails, the next one succeeds, then join() returns.
CONSTANTS
    Requests = {}
    Clients = {c1, c2}
    STOP = STOP
    MaxSize = 2
    BatchSize = 1
    DrainModes = {TRUE}
    Graceful = TRUE
    MaxFaults = 1
    MaxStarts = 1
    MaxCrashes = 0
SPECIFICATION Spec
INVARIANTS
    FlushThenHealthyIsDurable
