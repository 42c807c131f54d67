\* Two windows, one node in the pool and one to launch, a crash.
CONSTANTS
    w1 = w1
    w2 = w2
    n1 = n1
    n2 = n2
    Nodes = {n1, n2}
    Hot = {n1}
    Windows = {w1, w2}
    Rank <- Preferences
    Leases = {l1, l2}
    Threads = {t1, t2}
    None = None
    RetryLimit = 1
    MaxCalls = 1
    MaxCrashes = 1
SPECIFICATION Spec
SYMMETRY Symmetry
CONSTRAINT NotRaced
INVARIANT TypeOK
INVARIANT NodesAreExclusive
INVARIANT OnlyCrashLeaksNode
CHECK_DEADLOCK FALSE
