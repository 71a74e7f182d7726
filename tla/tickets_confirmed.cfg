SPECIFICATION Spec
CONSTANTS
    Calls = {c1, c2, c3}
    Events = {e1}
    Seats <- OneSeat
    Persons = {p1, p2}
    Keys = {k1}
    None = None
    Sections = {"A", "B"}
    Spellings = {"plain", "odd"}
    e1 = e1
    p1 = p1
    p2 = p2
    k1 = k1
    Requests <- ResaleRequests
    EventRows <- OpenOnly
SYMMETRY CallSymmetry
PROPERTIES
    ConfirmedIsStored
