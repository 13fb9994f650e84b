SPECIFICATION Spec
CONSTANTS
    None = None
    Tokens = {t1, t2, t3}
    Reqs = {r1, r2, r3, r4}
    Tabs = {a, b}
    MaxBoots = 2
    MaxResets = 1
    MaxFaults = 1
SYMMETRY Interchangeable
INVARIANTS
    TypeOK
    OneHeir
    SessionMatchesToken
    CookieIsReplaced
    WaitersHaveFlight
CHECK_DEADLOCK FALSE
