SPECIFICATION Spec
CONSTANTS
    u1 = u1
    s1 = s1
    s2 = s2
    s3 = s3
    r1 = r1
    r2 = r2
    NoSid = NoSid
    NoRow = NoRow
    Users <- OneUser
    Sids <- ThreeSids
    Requests <- TwoRequests
    Ops <- LogoutOps
    TTL = 1
    Retention = 0
    MaxTime = 0
    MaxVersion = 0
INVARIANT AcknowledgedRevocationHolds
CHECK_DEADLOCK FALSE
