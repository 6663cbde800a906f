\* The callbacks of an agent's run, its tools and its end.
SPECIFICATION FairSpec
CONSTANTS
    MaxIterations = 2
    QueueSize = 3
    MaxBlocks = 2
INVARIANTS
    TypeOK
    EventsInOrder
    TerminalEventLast
    KeysReleased
PROPERTIES
    RunEnds
CHECK_DEADLOCK FALSE
