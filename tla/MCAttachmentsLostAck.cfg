CONSTANTS
    Keys = {k1, k2}
    IdemKeys = {i1}
    Requests = {r1, r2}
    Readers = {}
    Reconciler = Reconciler
    NoKey = NoKey
    NoUpdate = NoUpdate
    MaxFiles = 1
    MaxCrashes = 0
    Faults = {"ack"}
SPECIFICATION Spec
CHECK_DEADLOCK FALSE
INVARIANTS
    PendingHasBytes
