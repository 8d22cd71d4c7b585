SPECIFICATION Spec
CONSTANTS
    Thread = {a, b}
    Object = {"x", "y"}
    Orders <- BothWays
    Limits <- Retries
    None = none
INVARIANTS LocksAccounted TriesExact
PROPERTIES WrapEnds
CHECK_DEADLOCK FALSE
