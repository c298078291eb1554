\* Two candidates fall due, and one run is to erase both.
SPECIFICATION MCSpec
CHECK_DEADLOCK FALSE
CONSTANTS
    None = None
    Applicant = {1, 2}
    Legible = {}
    Opening = {"o"}
    Eraser = {"e"}
    Months <- MCMonths
    MaxMonths = 1
INVARIANT RunErasesWhatIsDue
