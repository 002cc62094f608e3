SPECIFICATION Spec
CONSTANTS
    p1 = p1
    p2 = p2
    p3 = p3
    Parties = {p1, p2, p3}
    NoExpiry = NoExpiry
    MaxHeight = 2
    MaxEvents = 3
INVARIANTS DecidesByHistory StaleRecordsErrTraceably
PROPERTY TimeOnlyTakes
CHECK_DEADLOCK FALSE
SYMMETRY Symmetry
