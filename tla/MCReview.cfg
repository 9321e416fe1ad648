CONSTANTS
    Users = {u1}
    Admins = {a1, a2}
    Ids = {i1}
    Verdicts = {blocked}
    Requests = {t1, t2, t3}
    None = None
    MaxVersion = 2
SPECIFICATION Spec
SYMMETRY Symmetry
INVARIANTS
    AcceptedOnce
    InsertsSucceed
    NoDeadlock
PROPERTIES
    NoLostAssessment
