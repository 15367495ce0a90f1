SPECIFICATION FairSpec
CONSTANTS
    c1 = c1
    c2 = c2
    d1 = d1
    d2 = d2
    Closer = Closer
    None = None
    Callers = {c1, c2}
    Drains = {d1, d2}
    MaxCalls = 4
CHECK_DEADLOCK FALSE
INVARIANTS TypeOK OneWriter QuiescentIsSaved
PROPERTIES StoredNeverRegresses EventuallySaved
