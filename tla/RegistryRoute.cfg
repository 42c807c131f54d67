\* Routes to the trouble codes and to clearing them, one mishap.
CONSTANTS
    Places <- MCPlaces
    PageOf <- MCPageOf
    PathOf <- MCPathOf
    Leads <- MCLeads
    Listed <- MCListed
    Learned <- MCLearned
    Entries <- MCEntries
    Registry <- MCRegistry
    NoLabel = "no label"
    NoEntry = "no entry"
    Start = "main"
    Confirms <- MCConfirms
    ClearEntries <- MCClearEntries
    DisplayOf <- MCDisplayOf
    ClearOf <- MCClearOf
    VehicleCodes = "Vehicle DTC Information"
    MaxSoftRetries = 2
    MaxReentries = 2
    MaxIterations = 17
    MaxBacktracks = 1
    MaxRestarts = 1
    MaxWaits = 1
    MaxFaults = 1
SPECIFICATION Spec
INVARIANTS
    TypeOK
    SuccessShowsTarget
    ClearsAsReported
