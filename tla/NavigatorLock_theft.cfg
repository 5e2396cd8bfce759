SPECIFICATION Spec
CONSTANTS
    Caller = {c1, c2, c3}
    NoCaller = NoCaller
INVARIANT TheftFromTickIsTyped
CHECK_DEADLOCK FALSE
