--------------------------- MODULE MCRealtimeAuth ---------------------------
\* Model checking of RealtimeAuth.
EXTENDS RealtimeAuth
=============================================================================
