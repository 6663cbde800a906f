\* One publication fails.
SPECIFICATION Spec
CONSTANTS
    w1 = w1
    Writers = {w1}
    MaxEvents = 3
    PageSize = 2
    QueueSize = 2
    WireSize = 2
    MaxDrops = 0
    MaxLost = 1
\* The bounded feed ends when everything is delivered.
CHECK_DEADLOCK FALSE
INVARIANTS
    NoEventGap
