SPECIFICATION Spec
CONSTANTS
    th1 = th1  th2 = th2
    t1 = t1  t2 = t2
    d1 = d1  d2 = d2
    c1 = c1  c2 = c2  c3 = c3
    Env = env
    None = None
    Thread <- MCThread
    Txn <- MCTxn
    DB <- MCDB
    Cursor <- MCCursor
    OpenedIn <- MCOpenedIn
    May <- Closing
    Alone = {}
INVARIANT EnvClosedOnce
CHECK_DEADLOCK FALSE
