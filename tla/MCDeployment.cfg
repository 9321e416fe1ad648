SPECIFICATION FairSpec
CONSTANTS
    main = main
    next = next
    m1 = m1
    probe = probe
    None = None
    Releases = {main, next}
    Directory <- MCDirectory
    Migrators = {m1}
    Checkers = {probe}
    Probe = probe
    Attempts = 2
    Installed = main
INVARIANTS
    RollsBack
    BackupIsOnePoint
PROPERTIES
    VerifiedIsCurrent
    ServiceReturns
    RehostEnds
