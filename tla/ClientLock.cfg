SPECIFICATION FairSpec
CONSTANTS
    Client = {k1, k2}
    Op = {o1, o2, o3}
    NoOp = NoOp
INVARIANTS ClientInv OnlyStraysOverlap QueueIsSerial DrainedBeforeRelease FlagHasHolder
PROPERTY EveryOperationSettles
CHECK_DEADLOCK FALSE
