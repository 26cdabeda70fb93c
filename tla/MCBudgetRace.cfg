SPECIFICATION Spec
CONSTANTS
    c1 = c1
    c2 = c2
    a1 = a1
    s1 = s1
    answer = answer
    extract = extract
    None = None
    Calls <- TwoCalls
    Admins = {}
    Sessions = {}
    Tasks <- OneTask
    SessionTask = answer
    CachedTasks = {}
    NumRoutes = 1
    RouteMax = 2
    Costs = {2}
    Caps = {2, 3}
    PatchModes = {"enforce"}
    BaselineDays = 1
    CacheDays = 1
    InitialMode = "enforce"
    InitialCap = 3
    MaxDay = 0
    MaxFaults = 0
PROPERTY ParallelCallsWithinCap
CHECK_DEADLOCK FALSE
