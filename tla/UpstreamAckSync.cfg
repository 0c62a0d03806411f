SPECIFICATION Spec
CONSTANTS
    t1 = t1
    t2 = t2
    t3 = t3
    c1 = c1
    c2 = c2
    Transactions = {t1, t2}
    Contexts = {c1}
    ContextOf <- AllSame
    Kind <- DataOnly
    MaxMics = 1
    Challenges <- AllMics
    StepPoolSize = 2
    SubmitPoolSize = 2
    CacheExpires = FALSE
    MaxFaults = 0
    MaxSyncs = 0
INVARIANT AckSyncAlive
CHECK_DEADLOCK FALSE
