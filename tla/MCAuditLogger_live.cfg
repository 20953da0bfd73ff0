\* Liveness of the loop, the writer, stop() and flush(): a queue of two slots,
\* so that log() and the sentinel have to wait, and a failing write.
CONSTANTS
    Requests = {r1, r2}
    Clients = {c1}
    STOP = STOP
    MaxSize = 2
    BatchSize = 2
    DrainModes = {TRUE, FALSE}
    Graceful = TRUE
    MaxFaults = 1
    MaxStarts = 2
    MaxCrashes = 0
SPECIFICATION FairSpec
INVARIANTS
    ShutdownSettlesEveryRecord
PROPERTIES
    CallersReturn
    AcceptedIsSettled
    HeldReopensTheGate
CHECK_DEADLOCK FALSE
