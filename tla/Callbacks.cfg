SPECIFICATION Spec
CONSTANTS
    Thread = {t1, t2, t3}
    Fn = {f, g}
    Null = Null
    Kinds = {"bt_compare", "index", "event", "transport"}
    MaxCalls = 3
    t1 = t1
    t2 = t2
    t3 = t3
    f = f
    g = g
SYMMETRY Symmetry
INVARIANTS
    CountsExact
    CalledAlive
    Served
CHECK_DEADLOCK FALSE
