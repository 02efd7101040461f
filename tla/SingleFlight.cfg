SPECIFICATION FairSpec
CONSTANTS
    r1 = r1
    r2 = r2
    p1 = p1
    p2 = p2
    None = None
    Requesters = {r1, r2}
    ProcessOf <- Pair
    Deps = {"d1", "d2"}
    Others = {"o1"}
    Starts <- First
    Timeout = 1
    MaxTime = 1
    EditsAllowed = 2
    Gates = {TRUE, FALSE}
    Policies <- SecondMayBeCacheOnly
    Forms = {"legacy", "typed-semantic"}
    MayFail = TRUE
    MayCrash = {r1}
INVARIANT LeaseExclusive
INVARIANT ServedFromCapturedSource
PROPERTY EveryCallReturns
