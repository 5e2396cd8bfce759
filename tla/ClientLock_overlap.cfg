SPECIFICATION Spec
CONSTANTS
    Client = {k1, k2}
    Op = {o1, o2, o3}
    NoOp = NoOp
INVARIANT OneClientAtOnce
CHECK_DEADLOCK FALSE
