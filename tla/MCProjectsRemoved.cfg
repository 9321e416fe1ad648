CONSTANTS
    Users = {u1, u2}
    Admin = Admin
    Tasks = {k1}
    Requests = {t1, t2}
    None = None
    Ahead = 0
    MaxChanges = 0
    MaxVersion = 2
SPECIFICATION Spec
SYMMETRY Symmetry
PROPERTIES
    WritersAreMembers
