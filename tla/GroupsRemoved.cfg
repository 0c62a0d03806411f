SPECIFICATION Spec
CONSTANTS
    g1 = g1
    g2 = g2
    m1 = m1
    m2 = m2
    m3 = m3
    Groups = {g1, g2}
    Devices = {d1}
    McAddrs = {m1, m3}
    Missing = Missing
    Users <- OwnAddrs
    Deletes = FALSE
    MaxChanges = 0
    MaxRoutes = 0
    MaxFailures = 0
INVARIANTS OnlyDeletedRemoved
