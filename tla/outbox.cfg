SPECIFICATION FairSpec
CONSTANTS
    r1 = r1
    r2 = r2
    r3 = r3
    None = None
    Records = {r1, r2, r3}
    created <- Ages
    BatchSize = 2
    MaxAttempts = 2
    MaxTroubles = 1
INVARIANTS
    TypeOK
    SentIsNotified
    FailedAtLimit
    BatchIsFresh
PROPERTIES
    SettledIsFinal
    SettlesEverything
