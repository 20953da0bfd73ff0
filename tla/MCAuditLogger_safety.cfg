\* Anything goes: requests during startup and shutdown, both stop modes, a
\* restart of the logger, a crash, two failing writes.
CONSTANTS
    Requests = {r1, r2}
    Clients = {c1}
    STOP = STOP
    MaxSize = 2
    BatchSize = 2
    DrainModes = {TRUE, FALSE}
    Graceful = FALSE
    MaxFaults = 2
    MaxStarts = 2
    MaxCrashes = 1
SPECIFICATION Spec
SYMMETRY Symmetry
INVARIANTS
    TypeOK
    WrittenIsBacked
    RowsAccountedFor
    FlushCoversTheRecord
PROPERTIES
    ImplementsTrail
    KeepsTheBackend
CHECK_DEADLOCK TRUE
