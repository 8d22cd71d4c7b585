----------------------------- MODULE MCLegacyDB -----------------------------
(* The generators are interchangeable.                                       *)
EXTENDS LegacyDB, TLC

Interchangeable == Permutations(Gen)
=============================================================================
