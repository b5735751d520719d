SPECIFICATION FairSpec
CONSTANTS
    t1 = t1  t2 = t2  t3 = t3
    Tasks = {t1, t2, t3}
    QueueDepth = 2
    MaxCalls = 2
INVARIANTS
    LinesInOrder
PROPERTIES
    NewestLostToOthers QueueDrains
CHECK_DEADLOCK FALSE
