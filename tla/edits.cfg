SPECIFICATION Spec
CONSTANTS
    t1 = t1
    t2 = t2
    null = null
    None = null
    Tasks = {t1}
    DispatchIds = {d1, d2}
    Agents = {}
    Browsers = {}
    Workers = {w1}
    MaxTime = 0
    MaxFired = 1
    BatchSize = 1
    MaxCrashes = 0
    MaxLockDrops = 0
    Patches = {p1, p2}
    PatchStates = {"pending", "waiting_input", "waiting_approval"}
    Approvals = {TRUE, FALSE}
    ExecutionType <- MCExternal
    SchedDates <- Now
    RemDates <- Never
    DueDates <- Never
SYMMETRY Interchangeable
INVARIANTS
    WaitsAreLeased
PROPERTIES
    ApprovalPauseIsFinal
