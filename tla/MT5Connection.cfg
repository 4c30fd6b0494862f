CONSTANTS
    w1 = w1
    w2 = w2
    Workers = {w1, w2}
    Main = main
    Nobody = nobody
    MaxAttempts = 2
    VerifyTTL = 1
    CooldownBase = 1
    CooldownMax = 2
    MaxDoublings = 1023
    FailedCap = 2
SPECIFICATION FairSpec
INVARIANTS
    LocksOwned
    BackoffRespected
    NoReattachWhileConnected
PROPERTIES
    ImplementsGate
    UnusableSessionDetected
    UnreconciledWindowCloses
    LocksReleased
    Recovers
