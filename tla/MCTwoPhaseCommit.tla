------------------------- MODULE MCTwoPhaseCommit -------------------------
\* Two environments: g1 has a branch in both, g2 in the first one only.
EXTENDS TwoPhaseCommit, TLC

CONSTANTS e1, e2, g1, g2

MCParts == (g1 :> {e1, e2}) @@ (g2 :> {e1})
=============================================================================
