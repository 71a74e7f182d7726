SPECIFICATION Spec
CONSTANTS
    a = a
    b = b
    c = c
    Events = {a, b, c}
    PageSize = 2
    DateFrom = 2
    MaxTime = 4
    MaxCommits = 2
SYMMETRY EventSymmetry
INVARIANTS
    TypeOK
    NothingSkipped
    NothingRepeated
    ListedInOrder
    NextPageHasResults
