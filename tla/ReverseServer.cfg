\* Two tunnels, two DLL connections: every safety property.
CONSTANTS
    Conns = {c1, c2}
    Proxies = {p1, p2}
    NoConn = NoConn
    MaxSeq = 2
SPECIFICATION Spec
SYMMETRY Symmetry
INVARIANT TypeOK
INVARIANT FuturesReachable
INVARIANT AnswersAreRouted
INVARIANT ConnectedTunnelIsServed
CHECK_DEADLOCK FALSE
