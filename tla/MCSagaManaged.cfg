CONSTANTS
    N = 2
    Mode <- LocalMode
    LatePolicy <- AcceptThenCompensate
    Pivot = {}
    CancelMax = 1
    CompensateMax = 1
    ResolveMax = 1
    Deadline = TRUE
    Ops = 1
    InOrder = FALSE
    MayDie = TRUE
    StaleAnswers = FALSE
SPECIFICATION LiveSpec
CHECK_DEADLOCK FALSE
INVARIANTS
    AlwaysTimed
PROPERTIES
    ComesToRest
