SPECIFICATION FairSpec
CONSTANTS
    NumTasks = 3
    maxInvocationsPerIntervalMs = 2
    invocationIntervalMs = 2
    maxConcurrency = 2
INVARIANTS
    TypeOK
    ConcurrencyLimit
    ThrottleLimit
    NeverStranded
PROPERTIES
    OrderKept
    EveryTaskStarts
