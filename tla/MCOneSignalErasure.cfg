SPECIFICATION FairSpec
CONSTANTS
    e1 = e1
    e2 = e2
    w1 = w1
    w2 = w2
    t1 = t1
    t2 = t2
    t3 = t3
    NoToken = NoToken
    NoRow = NoRow
    Erasures <- TwoErasures
    Workers <- TwoWorkers
    Tokens <- ThreeTokens
    Unreadable <- FirstUnreadable
    RetryAfters <- SomeRetryAfter
    BatchSize = 2
    Lease = 2
    VerificationDelay = 1
    Retention = 1
    RetryBackoffBase = 1
    RetryBackoffMax = 2
    MaxRetryExponent = 0
    HTTPTimeout = 1
    MaxPass = 3
    MaxCrashes = 1
INVARIANTS TypeOK ErasureNeverForgotten IdentifierClearedWhenVerified
PROPERTIES StatusOnlyAdvances DeletedAccountsAreErased
