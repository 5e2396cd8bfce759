---------------------------- MODULE MCClientLock ----------------------------
\* Model checking of ClientLock.
EXTENDS ClientLock
=============================================================================
