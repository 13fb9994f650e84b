SPECIFICATION Spec
CONSTANTS
    None = None
    Patches = {p1, p2}
    Handlers = {h1, h2}
    Upgrades = {u1}
    MaxIntrusions = 1
SYMMETRY Interchangeable
INVARIANTS
    TypeOK
    AppliedWasApproved
    OneVerdict
    AppliedIsInTree
