---------------------------- MODULE MCDataAccess ----------------------------
(* The threads are interchangeable.                                          *)
EXTENDS DataAccess, TLC

Interchangeable == Permutations(Thread)
=============================================================================
