SPECIFICATION Spec
CONSTANTS
    MaxCalls = 3
    MaxFlips = 0
PROPERTY StopStops
CHECK_DEADLOCK FALSE
