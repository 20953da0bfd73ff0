\* No fault at all: a full queue drops the record and nobody reacts.
CONSTANTS
    Requests = {r1, r2}
    Clients = {}
    STOP = STOP
    MaxSize = 1
    BatchSize = 1
    DrainModes = {TRUE}
    Graceful = TRUE
    MaxFaults = 0
    MaxStarts = 1
    MaxCrashes = 0
SPECIFICATION Spec
INVARIANTS
    AnsweredIsAudited
