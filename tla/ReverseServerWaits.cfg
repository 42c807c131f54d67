\* A replacement, a teardown and a DLL connection under the loop's fairness.
CONSTANTS
    Conns = {c1, c2}
    Proxies = {p1}
    NoConn = NoConn
    MaxSeq = 1
SPECIFICATION FairSpec
PROPERTY WaitsEnd
CHECK_DEADLOCK FALSE
