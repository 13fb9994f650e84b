SPECIFICATION Spec
CONSTANTS
    t1 = t1
    t2 = t2
    null = null
    None = null
    Tasks = {t1, t2}
    DispatchIds = {d1, d2}
    Agents = {b1}
    Browsers = {b1}
    Workers = {w1, w2}
    MaxTime = 0
    MaxFired = 1
    BatchSize = 2
    MaxCrashes = 1
    MaxLockDrops = 0
    Patches = {}
    PatchStates = {}
    Approvals = {TRUE, FALSE}
    ExecutionType <- MCMixed
    SchedDates <- NowOrNever
    RemDates <- NowOrNever
    DueDates <- Never
SYMMETRY Interchangeable
INVARIANTS
    ClaimIsLeased
PROPERTIES
    ImplementsLifecycle
