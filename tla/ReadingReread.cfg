\* A file read before the reader in force changes.
SPECIFICATION Spec
CHECK_DEADLOCK FALSE
CONSTANTS
    w1 = w1
    w2 = w2
    r1 = r1
    r2 = r2
    None = None
    Worker = {w1, w2}
    File = {1}
    Reader = {r1, r2}
    FirstReader = r1
    GaveUp = "cv-reader"
    Answer = {"read"}
    Failure = {"ocr_timed_out"}
    Retryable = {"ocr_timed_out"}
    MaxAttempts = 2
    Slots = 1
    Job = {1, 2, 3}
    Request = {q1, q2}
    MaxFaults = 0
    MaxDeploys = 1
INVARIANTS
    RereadIsQueued
