SPECIFICATION LiveSpec
CONSTANTS
    f1 = f1
    f2 = f2
    f3 = f3
    c1 = c1
    c2 = c2
    NoContext = NoContext
    Frames = {f1, f2, f3}
    Contexts = {c1, c2}
    ContextOf <- SameJoin
    Kind <- TwoAccepts
    MaxItems = 2
    Items <- TwoItems
    StepPoolSize = 1
    MaxResults = 2
    MaxFaults = 1
INVARIANTS TypeOK OneTruthfulTxAck TxAckAligned OneAcceptPerJoin
PROPERTIES GetsToRan ReportReachesChirpStack
CHECK_DEADLOCK FALSE
