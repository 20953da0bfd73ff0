\* The leftovers of a failed batch are committed by the next one.
CONSTANTS
    Requests = {}
    Clients = {c1, c2}
    STOP = STOP
    MaxSize = 2
    BatchSize = 1
    DrainModes = {TRUE}
    Graceful = TRUE
    MaxFaults = 1
    MaxStarts = 1
    MaxCrashes = 0
SPECIFICATION Spec
INVARIANTS
    WrittenCountsThePersisted
