---------------------------- MODULE MCAuthSession ----------------------------
\* Model checking of AuthSession.
EXTENDS AuthSession
=============================================================================
