SPECIFICATION FairSpec
CONSTANTS
    u1 = u1
    s1 = s1
    s2 = s2
    s3 = s3
    r1 = r1
    r2 = r2
    NoSid = NoSid
    NoRow = NoRow
    Users <- OneUser
    Sids <- TwoSids
    Requests <- TwoRequests
    Ops <- WaitingOps
    TTL = 1
    Retention = 0
    MaxTime = 0
    MaxVersion = 1
PROPERTY LockWaitsEnd
CHECK_DEADLOCK FALSE
