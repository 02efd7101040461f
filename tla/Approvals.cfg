SPECIFICATION FairSpec
CONSTANTS
    None = None
    Workers = {"w", "w2", "t"}
    Patchers = {"p"}
    Verifiers = {"v"}
    Together <- MCTogether
    Items = {"i1", "i2", "i3", "i4", "i5", "i6"}
    Asks <- MCAsks
    CommandOf <- MCCommandOf
    Plans <- MCPlans
    Trusted = TRUE
    TestBudget = 2
    ReadBudget = 1
    ApprovalTimeout = 1
    MaxTime = 1
    MayFail = TRUE
CHECK_DEADLOCK FALSE
INVARIANT AcceptedByTheRightOne
INVARIANT PlansRunInOrder
PROPERTY DecidedOnce
PROPERTY EveryWaitEnds
