CONSTANTS
    Users = {u1, u2}
    Admin = Admin
    Keys = {key1}
    Contents = {c1, c2}
    Locations <- Reports
    Areas <- Geofences
    Files = {"camera"}
    Ids = {i1, i2}
    Requests = {t1, t2}
    None = None
    Reasons = {denied}
    Authors = {u1}
    MaxFence = 2
    MaxVersion = 2
SPECIFICATION Spec
PROPERTIES
    TextIsNeverGated
