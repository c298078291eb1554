\* An application to an opening that is not for sales, whose candidate has
\* asked to be left alone before the run of its job begins.
SPECIFICATION MCSpec
CHECK_DEADLOCK FALSE
CONSTANTS
    None = None
    Submission = {1}
    Submitter = {"c1"}
    SubmitterOf <- MCSubmitterOf
    Sales = {}
    MaxAssessments = 1
    MaxStarts = 1
PROPERTY NotScoredWhileLocked
