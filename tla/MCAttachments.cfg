CONSTANTS
    Keys = {k1, k2, k3}
    IdemKeys = {i1}
    Requests = {r1, r2}
    Readers = {d1}
    Reconciler = Reconciler
    NoKey = NoKey
    NoUpdate = NoUpdate
    MaxFiles = 2
    MaxCrashes = 1
    Faults = {"fs", "db"}
SPECIFICATION Spec
CHECK_DEADLOCK FALSE
SYMMETRY Symmetry
INVARIANTS
    AvailableHasBytes
    PendingHasBytes
    SuccessIsSettled
    DownloadFindsBytes
PROPERTIES
    ImplementsLifecycle
