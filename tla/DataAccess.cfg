SPECIFICATION Spec
CONSTANTS
    Thread = {a, b}
    MaxKey = 2
    MaxDup = 2
SYMMETRY Interchangeable
INVARIANTS NoDuplicates StoredIsKept RefusedOnlyByRace ListsAreComplete NoneOnlyWhenAsked
