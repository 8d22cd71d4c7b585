-------------------------- MODULE MCRecordNumbers --------------------------
\* Record numbers of two bits, C longs of four.
EXTENDS RecordNumbers, TLC

Interchangeable == Permutations(Thread)
=============================================================================
