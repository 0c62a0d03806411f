SPECIFICATION LiveSpec
CONSTANTS
    u1 = u1
    Uplinks = {u1}
    MaxFaults = 1
INVARIANTS TypeOK Drained OrderlyStop
PROPERTIES ServiceEnds ConnectsAgain
CHECK_DEADLOCK FALSE
