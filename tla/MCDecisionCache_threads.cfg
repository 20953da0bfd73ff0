\* Three threads, two keys, a cache of none, one or two entries, two reloads at
\* any time; an address may come back.
CONSTANTS
    Threads = {t1, t2, t3}
    Keys = {k1, k2}
    Addresses = {1, 2, 3}
    Capacities = {0, 1, 2}
    MaxCalls = 4
    MaxReloads = 2
SPECIFICATION Spec
SYMMETRY Symmetry
INVARIANTS
    TypeOK
    BoundedCache
    FreshUntilOverlap
    SoloIsLRU
CHECK_DEADLOCK TRUE
