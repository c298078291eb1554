\* Two overlapping transactions and a reader that resumes.
SPECIFICATION Spec
CHECK_DEADLOCK FALSE
CONSTANTS
    a1 = a1
    a2 = a2
    None = None
    Event = {1, 2}
    Application = {a1, a2}
INVARIANTS
    ResumeMissesNothing
