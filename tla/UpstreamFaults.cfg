SPECIFICATION Spec
CONSTANTS
    t1 = t1
    t2 = t2
    t3 = t3
    c1 = c1
    c2 = c2
    Transactions = {t1, t2, t3}
    Contexts = {c1, c2}
    ContextOf <- TwoOfC1
    Kind <- JoinAndMalformed
    MaxMics = 2
    Challenges <- AllMics
    StepPoolSize = 2
    SubmitPoolSize = 1
    CacheExpires = TRUE
    MaxFaults = 1
    MaxSyncs = 1
INVARIANTS TypeOK NoAckAndMicFailed MicFailedMeansAllTried AckMeansForwarded AnswersAgree
PROPERTIES ContractKept
CHECK_DEADLOCK FALSE
