SPECIFICATION JoinLiveSpec
CONSTANTS
    Devices = {d1, d2}
    Apps = {a1}
    DeviceOrder <- ListedDevices
    AppOrder <- ListedApps
    BatchSize = 2
    Addrs = {x, y}
    NoAddr = NoAddr
    NoApp = NoApp
    Missing = Missing
    Changing = {d1, d2}
    MaxChanges = 1
    MaxDrops = 0
    MaxFailures = 1
    Joining = {d1}
    MaxJoins = 1
INVARIANTS JoinTypeOK FoundByAddress
PROPERTIES ListHeals RanLearns
