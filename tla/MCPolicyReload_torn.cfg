\* The poll falls between the writes of the two files.
CONSTANTS
    Pollers = {p1}
    None = None
    Partial = Partial
    Malformed = {}
    InPlace = {"catalog", "cedar"}
    MaxReleases = 1
    MaxTimeouts = 0
    MaxEvents = 2
SPECIFICATION Spec
INVARIANTS
    NeverHalfApplied
