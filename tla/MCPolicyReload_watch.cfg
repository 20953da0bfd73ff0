\* Two releases, the first malformed; a stop() may give up on its thread, and the
\* next start() then brings it back to life; the watcher is built at any time.
CONSTANTS
    Pollers = {p1, p2}
    None = None
    Partial = Partial
    Malformed = {1}
    InPlace = {"catalog"}
    MaxReleases = 2
    MaxTimeouts = 1
    MaxEvents = 2
SPECIFICATION FairSpec
INVARIANTS
    TypeOK
    KeepsGoodPolicy
PROPERTIES
    NeverGoesBack
    Converges
    StopReturns
CHECK_DEADLOCK TRUE
