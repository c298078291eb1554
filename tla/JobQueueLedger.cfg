\* Every fault, lost lock connections too, under the loop's fairness.
SPECIFICATION FairSpec
CONSTANTS
    w1 = w1
    w2 = w2
    None = None
    Worker = {w1, w2}
    Job = {1, 2}
    Foreign = {}
    OneShot = {}
    MaxAttempts = 2
    LockLoss = TRUE
    MaxFaults = 2
INVARIANTS
    TypeOK
    RunsMatchAttempts
    HistoryExplainsStatus
PROPERTIES
    ImplementsLedger
    EveryJobSettles
    LocksComeFree
