SPECIFICATION Spec
CONSTANTS
    Obj <- MCObj
    KindOf <- MCKindOf
    NoObj = NoObj
    Envs = {e1}
    DBs = {d1}
    Cursors = {c1}
    Seqs = {}
    Txns = {t1, t2}
    LogCs = {l1}
    Sites = {}
SYMMETRY Interchangeable
CHECK_DEADLOCK FALSE
INVARIANTS TxnLists StaleOnlyWhereKnown EnclosedUnderLiveTxn InheritedStepByStep
PROPERTIES PreparedResolvedExplicitly EnvCloseLeavesNothingOpen
