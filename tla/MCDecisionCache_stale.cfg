\* A call that overlaps a reload stores its verdict after the cache was cleared.
CONSTANTS
    Threads = {t1, t2}
    Keys = {k1}
    Addresses = {1, 2}
    Capacities = {1}
    MaxCalls = 3
    MaxReloads = 1
SPECIFICATION Spec
INVARIANTS
    NeverStale
