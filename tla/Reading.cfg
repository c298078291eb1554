\* Two workers, a file, and a change of the reader under way.
SPECIFICATION FairSpec
CHECK_DEADLOCK FALSE
CONSTANTS
    w1 = w1
    w2 = w2
    r1 = r1
    r2 = r2
    None = None
    Worker = {w1, w2}
    File = {1}
    Reader = {r1, r2}
    FirstReader = r1
    GaveUp = "cv-reader"
    Answer = {"hidden"}
    Failure = {"ocr_timed_out"}
    Retryable = {"ocr_timed_out"}
    MaxAttempts = 2
    Slots = 1
    Job = {1, 2, 3}
    Request = {q1, q2}
    MaxFaults = 1
    MaxDeploys = 1
INVARIANTS
    TypeOK
    OneJobPerRequest
PROPERTIES
    ImplementsIntake
    EveryCvAnswered
