--------------------------- MODULE MCNavigatorLock ---------------------------
\* Model checking of NavigatorLock.
EXTENDS NavigatorLock
=============================================================================
