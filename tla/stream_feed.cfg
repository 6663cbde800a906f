\* Two executors append at once; a connection and a message are lost.
SPECIFICATION FairSpec
CONSTANTS
    Writers = {w1, w2}
    MaxEvents = 4
    PageSize = 2
    QueueSize = 2
    WireSize = 2
    MaxDrops = 1
    MaxLost = 1
\* The bounded feed ends when everything is delivered.
CHECK_DEADLOCK FALSE
INVARIANTS
    TypeOK
    DeliveredInOrder
PROPERTIES
    FeedSpec
    EventsDelivered
