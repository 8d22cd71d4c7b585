SPECIFICATION Spec
CONSTANTS
    t1 = t1
    t2 = t2
    NULL = NULL
    Txn <- MCTxn
    ParentOf <- MCParentOf
    Handle = {d1, d2}
    MaxOpens = 2
CHECK_DEADLOCK FALSE
PROPERTY ResolveEnds
