SPECIFICATION LiveSpec
CONSTANTS
    Devices = {d1}
    Apps = {a1, a2}
    DeviceOrder <- ListedDevices
    AppOrder <- ListedApps
    BatchSize = 1
    Addrs = {x}
    NoAddr = NoAddr
    NoApp = NoApp
    Missing = Missing
    Changing = {d1}
    MaxChanges = 2
    MaxDrops = 0
    MaxFailures = 0
PROPERTIES Converges
