\* Two handles, two connections, three requests, a crash of the worker.
CONSTANTS
    Devices = {d1, d2}
    NoDevice = NoDevice
    MaxLinks = 2
    MaxRequests = 3
    MaxCrashes = 1
SPECIFICATION Spec
INVARIANTS
    TypeOK
    HandlesAreKept
    NothingIsLeft
PROPERTY IsAClient
CHECK_DEADLOCK FALSE
