\* A response with a native and a written-out tool call.
SPECIFICATION FairSpec
CONSTANTS
    MaxIterations = 2
    QueueSize = 6
    MaxBlocks = 2
INVARIANTS
    ToolUsesAnswered
CHECK_DEADLOCK FALSE
