\* Decisions on one application, lists replaced meanwhile, and applications reversed and closed.
CHECK_DEADLOCK FALSE
SPECIFICATION MCSpec
CONSTANTS
    None = None
    Actor = {p1, p2}
    Opening = {o1}
    Candidate = {c1}
    Application = {1, 2, 3}
    p1 = p1
    i1 = i1
    Item = {i1, i2}
    l1 = l1
    l2 = l2
    r1 = r1
    r2 = r2
    List = {l1, l2}
    Step <- MCStep
    Reason = {r1, r2}
    FirstStep <- MCFirstStep
    Hired <- MCHired
    Rejected <- MCRejected
    AllowedMove <- MCAllowedMove
    ListedReason <- MCListedReason
    SeededList = l1
INVARIANTS
    TypeOK
    ConfirmedIsTheRejection
    OneLiveApplication
    ReopenedOnce
PROPERTIES
    ImplementsRecord
    EveryRequestEnds
