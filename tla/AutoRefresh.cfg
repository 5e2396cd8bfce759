SPECIFICATION FairSpec
CONSTANTS
    MaxCalls = 3
    MaxFlips = 3
INVARIANTS TypeOK NoTimerLeaks StopLasts HiddenTabRests
PROPERTIES StartedTicks BackInFrontRecovers
CHECK_DEADLOCK FALSE
