SPECIFICATION SyncLiveSpec
CONSTANTS
    d1 = d1
    d2 = d2
    Devices = {d1, d2}
    Apps = {a1}
    DeviceOrder <- ListedDevices
    AppOrder <- ListedApps
    BatchSize = 1
    Addrs = {x}
    NoAddr = NoAddr
    NoApp = NoApp
    Missing = Missing
    Changing = {d1}
    MaxChanges = 1
    MaxDrops = 0
    MaxFailures = 1
    LeadingZero = {}
    SkipOrphans = FALSE
INVARIANTS SyncTypeOK ErrorsAreIsolated MatchingUntouched
PROPERTIES EventuallyRouted
CHECK_DEADLOCK FALSE
