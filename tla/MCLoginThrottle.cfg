CONSTANTS
    Attempts = {a1, a2}
    MaxFailures = 2
    Window = 2
    Block = 2
    MaxTime = 6
    MaxCount = 5
    Absent = Absent
SPECIFICATION LSpec
SYMMETRY Symmetry
INVARIANTS
    TriesAreBounded
PROPERTIES
    RefusedForCause
