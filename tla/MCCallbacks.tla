---------------------------- MODULE MCCallbacks ----------------------------
\* Two threads that set a slot and one that calls back, or any other parts.
EXTENDS Callbacks, TLC

CONSTANTS t1, t2, t3, f, g

Symmetry == Permutations({t1, t2, t3}) \cup Permutations({f, g})
=============================================================================
