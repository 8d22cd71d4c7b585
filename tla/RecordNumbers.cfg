SPECIFICATION Spec
CONSTANTS
    Thread = {a, b}
    Types = {"queue", "btree"}
    Size = 4
    Long = 8
    MaxInt = 9
    MaxStores = 3
SYMMETRY Interchangeable
INVARIANTS NamesHold AnswersOwn MemoryExact
