\* Two HTTP threads, up to two collectors and diagnoses, two drifts, a fault.
CONSTANTS
    t1 = t1
    t2 = t2
    Threads = {t1, t2}
    Settings <- AllSettings
    MaxMade = 2
    MaxChunks = 1
    MaxRestarts = 1
    QueueSize = 2
SPECIFICATION Spec
INVARIANTS TypeOK AbortLeavesNothing PayloadIsOfOneConnection
PROPERTY StreamsSettle
CHECK_DEADLOCK FALSE
