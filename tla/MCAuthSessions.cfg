SPECIFICATION Spec
CONSTANTS
    u1 = u1
    s1 = s1
    s2 = s2
    s3 = s3
    r1 = r1
    r2 = r2
    NoSid = NoSid
    NoRow = NoRow
    Users <- OneUser
    Sids <- ThreeSids
    Requests <- TwoRequests
    Ops <- RevocationOps
    TTL = 1
    Retention = 0
    MaxTime = 1
    MaxVersion = 1
SYMMETRY Symmetry
INVARIANTS TypeOK OneLiveRowPerFamily RotationIsLinear BumpCutsOff
PROPERTY ImplementsFamilies
CHECK_DEADLOCK FALSE
