SPECIFICATION Spec
CONSTANTS
    c1 = c1
    c2 = c2
    a1 = a1
    s1 = s1
    answer = answer
    extract = extract
    None = None
    Calls <- TwoCalls
    Admins = {}
    Sessions <- OneSession
    Tasks <- TwoTasks
    SessionTask = extract
    CachedTasks = {answer}
    NumRoutes = 2
    RouteMax = 2
    Costs = {2}
    Caps = {6}
    PatchModes = {"enforce"}
    BaselineDays = 1
    CacheDays = 1
    InitialMode = "baseline"
    InitialCap = 6
    MaxDay = 1
    MaxFaults = 1
SYMMETRY Symmetry
INVARIANTS TypeOK SpendIsCovered OneProviderPerSession CachedAnswersLedgered
CHECK_DEADLOCK FALSE
