SPECIFICATION LiveSpec
CONSTANTS
    Devices = {d1, d2}
    Apps = {a1}
    DeviceOrder <- ListedDevices
    AppOrder <- ListedApps
    BatchSize = 1
    Addrs = {x, y}
    NoAddr = NoAddr
    NoApp = NoApp
    Missing = Missing
    Changing = {d1, d2}
    MaxChanges = 2
    MaxDrops = 1
    MaxFailures = 2
INVARIANTS TypeOK IdleAgreement SkippedBounded HookedIsRouted
PROPERTIES Settles
