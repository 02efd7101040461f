SPECIFICATION Spec
CONSTANTS
    r1 = r1
    r2 = r2
    p1 = p1
    p2 = p2
    None = None
    Requesters = {r1, r2}
    ProcessOf <- Pair
    Deps = {"d1", "d2"}
    Others = {"o1"}
    Starts <- First
    Timeout = 1
    MaxTime = 0
    EditsAllowed = 1
    Gates = {TRUE}
    Policies <- BothMayRunWorkers
    Forms = {"legacy", "typed-exact", "typed-semantic"}
    MayFail = FALSE
    MayCrash = {}
INVARIANT ReuseOfObservedBytes
