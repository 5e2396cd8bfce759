---------------------------- MODULE MCProcessLock ----------------------------
\* Model checking of ProcessLock.
EXTENDS ProcessLock
=============================================================================
