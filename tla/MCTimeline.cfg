CONSTANTS
    Ids = {1, 2, 3, 4}
    Objects = {task}
    Writers = {w1, w2}
    Oldest = {timeline}
    Newest = {audit}
    Limit = 2
    PerWrite = 2
    MaxTime = 1
    MaxWalks = 1
    None = None
SPECIFICATION Spec
SYMMETRY Symmetry
INVARIANTS
    WalkIsComplete
    VersionsInOrder
PROPERTIES
    WalkInOrder
