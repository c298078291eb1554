\* Two workers and one fault: the idle lock connection can be lost alone.
SPECIFICATION Spec
CONSTANTS
    w1 = w1
    w2 = w2
    None = None
    Worker = {w1, w2}
    Job = {1, 2}
    Foreign = {}
    OneShot = {w2}
    MaxAttempts = 2
    LockLoss = TRUE
    MaxFaults = 1
INVARIANTS
    NeverRunTwice
