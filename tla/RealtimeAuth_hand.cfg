SPECIFICATION Spec
CONSTANTS
    Tokens = {t1, t2}
    AnonKey = anon
    None = none
    Topics = {room}
    Calls = {c1, c2}
    MaxEvents = 3
PROPERTIES HandSetPreserved
CHECK_DEADLOCK FALSE
