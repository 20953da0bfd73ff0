\* stop() gives up on a slow poll and start() brings it back to life.
CONSTANTS
    Pollers = {p1, p2}
    None = None
    Partial = Partial
    Malformed = {}
    InPlace = {"catalog", "cedar"}
    MaxReleases = 1
    MaxTimeouts = 1
    MaxEvents = 2
SPECIFICATION FairSpec
PROPERTIES
    HotReloads
