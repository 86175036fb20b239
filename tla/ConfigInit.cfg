SPECIFICATION Spec
CONSTANTS
    Process = {p1, p2}
    MaxInits = 3
    Faults = {"command", "write", "kill"}
    AsRoot = FALSE
SYMMETRY Interchangeable
INVARIANTS
    TypeOK
    KeysMatch
PROPERTIES
    InitWritesAll
    EarlierIsKept
