\* A release between the load of the store and the construction of the watcher.
CONSTANTS
    Pollers = {p1}
    None = None
    Partial = Partial
    Malformed = {}
    InPlace = {"catalog", "cedar"}
    MaxReleases = 1
    MaxTimeouts = 0
    MaxEvents = 2
SPECIFICATION FairSpec
PROPERTIES
    HotReloads
