SPECIFICATION WindowSpec
CONSTANTS
    Modules = {m1, m2}
    FirstModule = m1
    Categories = {c1, c2}
    DtcInfo = dtcs
    OtherItem = other
    Nothing = none
    MaxClicks = 4
    MaxCalls = 3
    Settings <- MCSettings
INVARIANT WindowTypeOK
PROPERTIES
    ActionsMeetTarget
    WindowSettles
CHECK_DEADLOCK FALSE
