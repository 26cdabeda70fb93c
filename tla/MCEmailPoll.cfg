SPECIFICATION Spec
CONSTANTS
    p1 = p1
    p2 = p2
    None = None
    Polls <- TwoPolls
    Lookback = 1
    PollLimit = 1
    Delay = 1
    MaxTime = 3
    MaxReports = 2
SYMMETRY Symmetry
INVARIANTS TypeOK NothingPassedOver
CHECK_DEADLOCK FALSE
