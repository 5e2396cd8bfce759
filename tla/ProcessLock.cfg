SPECIFICATION FairSpec
CONSTANT MaxCalls = 4
INVARIANTS TypeOK MutualExclusion CallOrder
PROPERTIES ImplementsLockFunc BoundedCallsAnswered EveryCallSettles
CHECK_DEADLOCK FALSE
