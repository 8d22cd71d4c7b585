---------------------------- MODULE MCChildLists ----------------------------
(* Two transactions, the second begun inside the first.                      *)
EXTENDS ChildLists, TLC

CONSTANTS t1, t2

MCTxn == {t1, t2}
MCParentOf == t1 :> NULL @@ t2 :> t1
=============================================================================
