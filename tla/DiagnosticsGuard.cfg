\* One session, two windows, two guarded actions.
CONSTANTS
    Sessions = {s1}
    Leases = {l1}
    None = None
    MaxWindows = 2
    MaxActions = 2
    MaxStarts = 1
    MaxAborts = 1
SPECIFICATION FairSpec
INVARIANTS TypeOK GuardMirrorsWindow
PROPERTIES SafeActionEndsItsSession GuardSettles
CHECK_DEADLOCK FALSE
