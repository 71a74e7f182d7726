SPECIFICATION Spec
CONSTANTS
    a = a
    b = b
    trigger = trigger
    Loop = Loop
    None = None
    Events = {a, b}
    Runs = {Loop, trigger}
    PageSize = 1
    DayLength = 2
    MaxTime = 4
    MaxTroubles = 0
SYMMETRY EventSymmetry
INVARIANTS
    CursorAlwaysCovers
