CONSTANTS
    Users = {u1, u2}
    Sessions = {s1, s2}
    Tabs = {t1, t2}
    Browsers = {b1, b2}
    None = None
    Kept = Kept
SPECIFICATION Spec
SYMMETRY Symmetry
PROPERTIES
    LogoutRevokes
