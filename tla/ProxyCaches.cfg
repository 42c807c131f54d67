\* One DLL connection: what the caches answer agrees with the driver.
CONSTANTS
    Proxies = {p1}
    Channels = {c1, c2}
    Filters = {f1}
    FilterIds = {i1, i2}
    Params = {speed}
    None = None
    ReadTTL = 0
    IoctlTTL = 0
    MaxWire = 2
    MaxTunnels = 2
SPECIFICATION Spec
SYMMETRY Symmetry
INVARIANT TypeOK
 
CHECK_DEADLOCK FALSE
