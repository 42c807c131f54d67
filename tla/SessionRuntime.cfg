\* Two requests at a time, two sessions, a navigation and two tunnels.
CONSTANTS
    Threads = {t1, t2}
    Sessions = {s1, s2}
    Navs = {n1}
    None = None
    MaxEpoch = 2
    MaxGates = 1
SPECIFICATION Spec
SYMMETRY Symmetry
INVARIANT TypeOK
INVARIANT BindingFollowsSessions
INVARIANT NothingDangles
INVARIANT BlockedStartIsConfirmed
PROPERTY SessionsEndForGood
CHECK_DEADLOCK FALSE
