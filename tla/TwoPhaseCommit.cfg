SPECIFICATION FairSpec
CONSTANTS
    e1 = e1
    e2 = e2
    g1 = g1
    g2 = g2
    Gid = {g1, g2}
    Env = {e1, e2}
    Parts <- MCParts
    PREPLIST_LEN = 1
    MaxMishaps = 2
INVARIANTS
    RecoverExact
    NoStaleWrapper
    NoOrphan
PROPERTIES
    ImplementsAtomicCommit
    DecisionsReachBranches
