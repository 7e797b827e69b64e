\* The queue between the two tasks: safety, refinement of LossyQueue, losses
\* told, the reader finds its way back.
SPECIFICATION FairSpec
CONSTANTS
    EVENT_BUF = 10
    HEADROOM = 3
    Lengths = {0, 1, 3}
    MAX_POSTS = 4
INVARIANTS
    DeliveredWhole
    EdgesAccounted
PROPERTIES
    IsLossyQueue
    Recovers
