SPECIFICATION MFairSpec
CONSTANTS
    old = old
    new = new
    hotfix = hotfix
    branch = branch
    twice = twice
    m1 = m1
    m2 = m2
    c1 = c1
    None = None
    Releases = {old, new, hotfix, branch, twice}
    Directory <- MCDirectory
    Migrators = {m1, m2}
    Checkers = {c1}
INVARIANTS
    ReadyIsCurrent
PROPERTIES
    ExtendsWhatItKnows
    MigrationsEnd
