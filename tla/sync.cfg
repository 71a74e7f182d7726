SPECIFICATION FairSpec
CONSTANTS
    a = a
    b = b
    trigger = trigger
    Loop = Loop
    None = None
    Events = {a, b}
    Runs = {Loop, trigger}
    PageSize = 1
    DayLength = 2
    MaxTime = 3
    MaxTroubles = 1
INVARIANTS
    TypeOK
    CursorCovers
    StoredUpToCursor
    NewEventCovered
PROPERTIES
    LoneRunSucceeds
    OutcomeRecorded
    NeverGoesBack
    CatchesUp
