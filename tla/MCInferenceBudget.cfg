SPECIFICATION FairSpec
CONSTANTS
    c1 = c1
    c2 = c2
    a1 = a1
    s1 = s1
    answer = answer
    extract = extract
    None = None
    Calls <- TwoCalls
    Admins <- OneAdmin
    Sessions <- OneSession
    Tasks <- OneTask
    SessionTask = answer
    CachedTasks = {}
    NumRoutes = 2
    RouteMax = 2
    Costs = {2}
    Caps = {6}
    PatchModes = {"enforce", "disabled"}
    BaselineDays = 1
    CacheDays = 1
    InitialMode = "enforce"
    InitialCap = 6
    MaxDay = 0
    MaxFaults = 1
PROPERTIES SerialAdmissionsWithinCap CallsEndSettled
CHECK_DEADLOCK FALSE
