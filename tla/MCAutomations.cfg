SPECIFICATION FairSpec
CONSTANTS
    NoProcess = NoProcess
    Processes = {p}
    Automations = {a, b}
    Discoveries = {{}, {a, b}}
    Scheduled = {a}
    Fires = {f}
    Windows = {2}
    QueueCap = 1
    RetryEvery = 1
    MaxTime = 3
    MaxPeriod = 1
    MaxRuns = 2
    MaxCrashes = 1
    MaxReturns = 1
INVARIANTS
    TypeOK
    QueueHoldsOne
    RunsAreSerial
    NothingWaitsInVain
PROPERTIES
    SatisfiedStays
    ImplementsLedger
    EveryRunSettles
