SPECIFICATION Spec
CONSTANTS
    t1 = t1
    t2 = t2
    NULL = NULL
    Txn <- MCTxn
    ParentOf <- MCParentOf
    Handle = {d1, d2, d3}
    MaxOpens = 1
CHECK_DEADLOCK FALSE
INVARIANT WellLinked
PROPERTY ResolveEnds
PROPERTY ImplementsQueues
