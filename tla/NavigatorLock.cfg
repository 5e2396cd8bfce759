SPECIFICATION FairSpec
CONSTANTS
    Caller = {c1, c2, c3}
    NoCaller = NoCaller
INVARIANTS LockInv FnRunsOnce
PROPERTIES ImplementsLockFunc TimedCallersRun EveryCallAnswered
CHECK_DEADLOCK FALSE
