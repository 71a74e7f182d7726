SPECIFICATION Spec
CONSTANTS
    Calls = {c1, c2, c3}
    Events = {e1}
    Seats <- TwoSeats
    Persons = {p1}
    Keys = {k1}
    None = None
    Sections = {"A", "B"}
    Spellings = {"plain", "odd"}
    e1 = e1
    p1 = p1
    p2 = p2
    k1 = k1
    Requests <- KeyCancelRequests
    EventRows <- WholeVenue
SYMMETRY CallSymmetry
INVARIANTS
    TypeOK
    RowsAllOrNothing
    OneTicketPerKey
    CreatedIsDurable
    ConflictIsJustified
    ErrorsTellStored
    SeatsAccountedFor
PROPERTIES
    KeyRowStable
