\* A key that one thread has found is evicted by another one.
CONSTANTS
    Threads = {t1, t2}
    Keys = {k1, k2}
    Addresses = {1}
    Capacities = {1}
    MaxCalls = 3
    MaxReloads = 0
SPECIFICATION Spec
INVARIANTS
    NeverRaises
