SPECIFICATION SyncSpec
CONSTANTS
    d1 = d1
    d2 = d2
    Devices = {d1}
    Apps = {a1}
    DeviceOrder <- ListedDevices
    AppOrder <- ListedApps
    BatchSize = 2
    Addrs = {x}
    NoAddr = NoAddr
    NoApp = NoApp
    Missing = Missing
    Changing = {}
    MaxChanges = 0
    MaxDrops = 0
    MaxFailures = 0
    LeadingZero = {d1}
    SkipOrphans = FALSE
INVARIANTS MatchingUntouched
