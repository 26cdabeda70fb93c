SPECIFICATION FairSpec
CONSTANTS
    m1 = m1
    w1 = w1
    w2 = w2
    f1 = f1
    f2 = f2
    None = None
    Messages <- OneMessage
    Slots <- TwoSlots
    Feeds <- TwoFeeds
    Limit = 2
    MaxRetries = 2
    MaxExcuses = 1
    MaxReports = 2
    MaxFaults = 1
INVARIANTS TypeOK AcceptedOnce
PROPERTIES ScheduledMessagesEnd SentStaysSent
CHECK_DEADLOCK FALSE
