\* One candidate, whose CV has been read, is to be erased.
SPECIFICATION MCSpec
CHECK_DEADLOCK FALSE
CONSTANTS
    None = None
    Applicant = {1}
    Legible = {1}
    Opening = {"o"}
    Eraser = {"e"}
    Months <- MCMonths
    MaxMonths = 1
INVARIANT ErasedOneAtATime
