SPECIFICATION PassThruSpec
CONSTANTS
    t1 = t1
    t2 = t2
    NoThread = NoThread
    Threads <- MCThreads
    Settings <- MCSettings
    CallMax = 13
    ReplyMax = 8
    ParamMax = 2
    MaxRetries = 1
    MaxFaults = 2
INVARIANTS PassThruTypeOK  
PROPERTY CallsReturn
CHECK_DEADLOCK FALSE
