\* Two senders with every fault, under the fairness of the loop; two workers with every fault but
\* a lock connection lost alone.
SPECIFICATION WorkersSpec
CHECK_DEADLOCK FALSE
CONSTANTS
    None = None
    s1 = s1
    s2 = s2
    Sender = {s1, s2}
    Event = {1, 2}
    CandidatesPerCheck = 2
    MaxTries = 2
    MaxFaults = 1
    w1 = w1
    w2 = w2
    Worker = {w1, w2}
    Job = {1, 2, 3}
    Foreign = {2}
    OneShot = {w2}
    MaxAttempts = 2
    MaxWorkerFaults = 3
INVARIANTS
    TypeOK
    SentAlone
    NeverRunTwice
PROPERTIES
    ImplementsLog
    EveryEventTriedOut
