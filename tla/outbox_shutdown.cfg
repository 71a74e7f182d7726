SPECIFICATION Spec
CONSTANTS
    r1 = r1
    r2 = r2
    r3 = r3
    None = None
    Records = {r1, r2}
    created <- TwoAges
    BatchSize = 2
    MaxAttempts = 2
    MaxTroubles = 1
PROPERTIES
    ShutdownEndsIteration
