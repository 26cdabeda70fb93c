SPECIFICATION Spec
CONSTANTS
    x1 = x1
    x2 = x2
    b1 = b1
    c1 = c1
    c2 = c2
    f1 = f1
    f2 = f2
    r1 = r1
    r2 = r2
    None = None
    Secrets <- TwoSecrets
    Batches <- OneBatch
    Challenges <- TwoChallenges
    Families <- TwoFamilies
    Requests <- TwoRequests
    Starts <- WithFactor
    BatchSize = 1
    StepUpTTL = 1
    ChallengeTTL = 1
    ResetTTL = 1
    MaxTime = 2
    MaxVersion = 1
SYMMETRY Symmetry
VIEW View
INVARIANTS TypeOK OneSessionPerChallenge FactorAcceptedOnce StampOfThisEnrollment
PROPERTY ConfirmedEnrollmentKept
CHECK_DEADLOCK FALSE
