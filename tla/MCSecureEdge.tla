---------------------------- MODULE MCSecureEdge ----------------------------
\* Model checking of SecureEdge: the slots of calls are alike.
EXTENDS SecureEdge, TLC

Slots == Permutations(Calls)
=============================================================================
