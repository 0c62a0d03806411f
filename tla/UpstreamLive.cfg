SPECIFICATION LiveSpec
CONSTANTS
    t1 = t1
    t2 = t2
    t3 = t3
    c1 = c1
    c2 = c2
    Transactions = {t1, t2, t3}
    Contexts = {c1}
    ContextOf <- AllSame
    Kind <- DataOnly
    MaxMics = 2
    Challenges <- AllMics
    StepPoolSize = 1
    SubmitPoolSize = 1
    CacheExpires = FALSE
    MaxFaults = 1
    MaxSyncs = 1
INVARIANTS NoOrphan
PROPERTIES OriginalAnswered DuplicateAnswered LoopComesBack
CHECK_DEADLOCK FALSE
