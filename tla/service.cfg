SPECIFICATION ServiceFairSpec
CONSTANTS
    Calls = {c1, c2}
    Events = {e1}
    Persons = {p1}
    Keys = {k1}
    None = None
    Sections = {"A"}
    Spellings = {"plain"}
    Seats <- OneSeat
    e1 = e1
    p1 = p1
    k1 = k1
    Requests <- KeyedRequests
    EventRows <- OpenRow
    BatchSize = 2
    MaxAttempts = 2
    MaxTroubles = 1
INVARIANTS
    ToldIsAnnounced
PROPERTIES
    KeepsLedger
    SoldIsAnnounced
