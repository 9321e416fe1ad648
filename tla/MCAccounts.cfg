CONSTANTS
    Users = {1, 2}
    Sessions = {s1}
    Requests = {t1, t2}
    None = None
    MaxVersion = 2
SPECIFICATION FairSpec
INVARIANTS
    SomeEnabledAdmin
    SessionIsCurrent
PROPERTIES
    OneFounder
    NoLostUpdate
    RequestsEnd
