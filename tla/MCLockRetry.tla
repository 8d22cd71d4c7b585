---------------------------- MODULE MCLockRetry ----------------------------
\* Threads that take the same locks, in one order or in the other.
EXTENDS LockRetry

BothWays == {<<"x", "y">>, <<"y", "x">>}
Retries  == {-1, 1}
=============================================================================
