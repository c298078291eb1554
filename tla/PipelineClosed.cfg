\* Applying races closing the opening.
CHECK_DEADLOCK FALSE
SPECIFICATION MCSpec
CONSTANTS
    None = None
    p1 = p1
    Actor = {p1}
    Opening = {o1}
    Candidate = {c1}
    Application = {1}
    i1 = i1
    Item = {i1}
    l1 = l1
    l2 = l2
    r1 = r1
    r2 = r2
    List = {l1}
    Step <- MCStep
    Reason = {r1, r2}
    FirstStep <- MCFirstStep
    Hired <- MCHired
    Rejected <- MCRejected
    AllowedMove <- MCAllowedMove
    ListedReason <- MCListedReason
    SeededList = l1
PROPERTIES
    ClosedTakesNone
