\* The parts that share no state, side by side.
SPECIFICATION PartsSpec
CHECK_DEADLOCK FALSE
CONSTANTS
    None = None
    a1 = a1
    a2 = a2
    Event = {1, 2, 3, 4}
    Application = {a1, a2}
    Submission = {1, 2, 3}
    Submitter = {"c1", "c2"}
    SubmitterOf <- MCSubmitterOf
    Sales = {3}
    MaxAssessments = 2
    MaxStarts = 2
    Person = {"r1", "r2", "lead", "admin", "owner"}
    RolesOf <- MCRolesOf
    Owner = {"r1", "r2"}
    Candidate = {"c1", "c2"}
    Unknown = "c0"
    Attempt = {1, 2, 3, 4}
    Key = {"k1"}
    Body = {"b1", "b2"}
    KeyOf <- MCKeyOf
    BodyOf <- MCBodyOf
    RowId = {1, 2, 3, 4, 5}
    Limit = 2
    Record = {1, 2, 3}
    Matching <- MCMatching
    Joiner = {"t", "u"}
    Field = {"f", "g"}
    Checker = {"t", "u"}
    Scanned = {1, 2, 3}
    Piece <- MCPiece
    MostPerKey = 2
    Applicant = {1, 2}
    Legible = {1}
    Opening = {"o"}
    Eraser = {"e", "f"}
    Months <- MCMonths
    MaxMonths = 1
    Fact <- MCFact
    MaxFacts = 3
    SheetRow = {2, 3}
    Cells <- MCCells
    MaxEdits = 1
    MaxChecks = 1
    Table = {"candidate"}
    MostRows = 2
    Taking = {"nightly", "deploy"}
    Keep = 2
    MaxDumps = 3
    LastLine = 2
    Loader = {"t", "u"}
INVARIANTS
    MovesReadInOrder
    AssessmentReachesAPerson
    OutOfSightReadsAsMissing
    QueueLeadsSomewhere
    OncePerKey
    AnswersAreOfTheRequest
    WalkMeetsEveryRowOnce
    GroupsAreOneLevel
    JoinAnswersItsMatch
    LastCheckClosesTheItem
    GroupsAreTheReachable
    DataGoesWithItsErasure
    NearOneLine
    ExplainedInFull
    CountExplainsEveryDifference
    AProvedBackupStays
    NoJobLoadedTwice
PROPERTIES
    EveryApplicationSettles
