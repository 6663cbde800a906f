\* Two sessions, two events, two clicks, one overflow or lost request.
SPECIFICATION Spec
CONSTANTS
    a = a
    b = b
    Null = Null
    Sessions = {a, b}
    MaxEvents = 2
    MaxClicks = 2
    MaxFaults = 1
SYMMETRY Symmetry
INVARIANTS
    TypeOK
    OneStream
    CursorIsLastShown
    StreamFitsPage
PROPERTIES
    RepliesFitCurrent
CHECK_DEADLOCK FALSE
