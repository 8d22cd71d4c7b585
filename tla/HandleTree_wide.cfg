SPECIFICATION Spec
CONSTANTS
    Obj <- MCObj
    KindOf <- MCKindOf
    NoObj = NoObj
    Envs = {e1}
    DBs = {d1}
    Cursors = {c1, c2}
    Seqs = {s1}
    Txns = {t1}
    LogCs = {}
    Sites = {}
SYMMETRY Interchangeable
CHECK_DEADLOCK FALSE
INVARIANTS SiblingLists ChildrenUnderOpenDB NothingLeaks
PROPERTY ClosedForGood
