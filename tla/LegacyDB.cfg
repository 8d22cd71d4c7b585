SPECIFICATION LegacySpec
CONSTANTS
    Gen = {g1, g2}
    MaxRecords = 3
    MaxWrites = 3
SYMMETRY Interchangeable
CHECK_DEADLOCK FALSE
INVARIANTS CursorsKnown InIterExact PlaceKept
PROPERTIES IterationComplete
